---------------------------- MODULE LayerLoadProofs ----------------------------
(* The loads of a layer, of routed experts, dense layers, n-gram tables and  *)
(* stores: what is accepted is complete and serves its own tensors in their  *)
(* last version, for any experts, placements, packs and orders of delivery.  *)
EXTENDS LayerLoad, Inductions

-----------------------------------------------------------------------------
(* The inductive invariant.                                                *)

Codebooks == {"mcg", "mul1"}
Memories == {"uva", "device"}
Places == {Nowhere} \cup {Own(b, m) : b \in AllBytes, m \in Memories} \cup {View(s) : s \in DOMAIN slots}

CaseFits == \E c \in Cases : config = c.config /\ pack = c.pack

StateOK ==
    /\ phase \in {"loading", "ready", "failed"}
    /\ pending \in BOOLEAN /\ plan \in BOOLEAN /\ settled \in BOOLEAN
    /\ \A s \in DOMAIN slots : slots[s] \in AllBytes
    /\ trellis \in [Lanes -> Places]
    /\ DOMAIN staging \subseteq Used /\ \A lane \in DOMAIN staging : staging[lane] \in AllBytes
    /\ marker \in [Lanes -> SUBSET Codebooks]
    /\ latest \in [Tensors -> {0} \cup Versions]
    /\ sent \subseteq Tensors \X Codebooks

\* Before there is a plan, the last version of a tensor is staged or at its lane; a plan
\* is only made while nothing was delivered, and its slots have what was delivered since.
PlaceOf(t) == IF latest[t] = 0 THEN Nowhere
              ELSE Own(Bytes(t, latest[t]), IF config.arena THEN ArenaMemory ELSE "device")
UnplannedFits == ~plan => \A t \in Tensors : PackedPlace(HomeOf(t)) = PlaceOf(t)
PendingFits ==
    pending => /\ config.arena /\ ~plan /\ config.placement = "linear" /\ DOMAIN slots = {}
               /\ \A t \in Tensors : latest[t] = 0
PlannedFits ==
    plan => /\ config.arena /\ config.placement = "linear"
            /\ DOMAIN slots = {SlotOf(lane) : lane \in Used}
            /\ \A lane \in Used : trellis[lane] = View(SlotOf(lane))
            /\ \A t \in Tensors : latest[t] # 0 => slots[SlotOf(HomeOf(t))] = Bytes(t, latest[t])

MarkersFit ==
    /\ \A t \in Tensors : /\ marker[HomeOf(t)] \subseteq pack[t].codebook
                          /\ \A kind \in Codebooks : <<t, kind>> \in sent => kind \in marker[HomeOf(t)]
    /\ \A lane \in Lanes : ~InUse(lane) => marker[lane] = {}

\* The handles are of the lanes in use, and read the arena or what was last packed; what
\* they read lies where it was required.
HandlesFit ==
    phase = "ready" =>
        /\ DOMAIN handle = Used
        /\ pending => Used = {}
        /\ ~plan => \A t \in Tensors : latest[t] # 0
        /\ plan => \A lane \in Used : handle[lane].place = View(SlotOf(lane))
        /\ ~plan /\ settled => \A lane \in Used : handle[lane].place = PackedPlace(lane)
        /\ \A t \in Tensors : handle[HomeOf(t)].codebook \subseteq pack[t].codebook
        /\ RequiredIsUva

LoadInv == CaseFits /\ StateOK /\ UnplannedFits /\ PendingFits /\ PlannedFits /\ MarkersFit /\ HandlesFit

-----------------------------------------------------------------------------
(* Lanes and slots.                                                        *)

LEMMA CaseFacts ==
    ASSUME CaseFits
    PROVE  /\ config.placement \in DOMAIN LocalOf /\ config.versions \in Nat
           /\ config.arena \in BOOLEAN /\ config.gateless \in BOOLEAN /\ config.uva \in BOOLEAN /\ config.alias \in BOOLEAN
           /\ ArenaMemory \in Memories /\ (config.uva => ArenaMemory = "uva")
BY CasesAssumption DEF CaseFits, ArenaMemory, UvaRequested, Memories

\* A tensor has a lane of its own, which is in use and to which it is loaded whatever name
\* the engine gives its projection; every lane in use has a tensor.
LEMMA HomeFacts ==
    ASSUME CaseFits
    PROVE  /\ \A t \in Tensors : HomeOf(t) \in Used /\ HomeOf(t) \in Lanes /\ LaneOf(t) = HomeOf(t)
           /\ \A t, u \in Tensors : HomeOf(t) = HomeOf(u) => t = u
           /\ \A lane \in Used : \E t \in Tensors : HomeOf(t) = lane
<1> DEFINE p == config.placement
<1>1. p \in DOMAIN LocalOf /\ config.gateless \in BOOLEAN
  BY CaseFacts
<1>2. /\ \A g \in Global : LocalOf[p][g] \in Local \cup {Remote}
      /\ \A e \in Local : \E g \in Global : LocalOf[p][g] = e
      /\ \A g, h \in Global : LocalOf[p][g] = LocalOf[p][h] => g = h \/ LocalOf[p][g] = Remote
      /\ Remote \notin Local
  BY <1>1, ExpertsAssumption DEF Local
<1>3. ASSUME NEW t \in Tensors
      PROVE  /\ t = <<t[1], t[2]>> /\ t[1] \in Global /\ t[2] \in Projections
             /\ LocalId(t[1]) \in Local /\ (config.gateless => t[2] # "gate")
  BY <1>2 DEF Tensors, LocalId, InUse
<1>4. ASSUME NEW t \in Tensors PROVE HomeOf(t) \in Used /\ HomeOf(t) \in Lanes
  BY <1>3 DEF HomeOf, Used, Lanes, InUse
<1>5. ASSUME NEW t \in Tensors PROVE LaneOf(t) = HomeOf(t)
  <2>1. CASE t[2] = "gate"
    BY <1>3, <2>1 DEF LaneOf, HomeOf, ShardOf, ProjectionOf
  <2>2. CASE t[2] = "down"
    BY <1>3, <2>2 DEF LaneOf, HomeOf, ShardOf, ProjectionOf
  <2>3. CASE t[2] = "up"
    BY <1>1, <1>3, <2>3 DEF LaneOf, HomeOf, ShardOf, ProjectionOf
  <2>4. QED
    BY <1>3, <2>1, <2>2, <2>3 DEF Projections
<1>6. ASSUME NEW t \in Tensors, NEW u \in Tensors, HomeOf(t) = HomeOf(u) PROVE t = u
  <2>1. LocalId(t[1]) = LocalId(u[1]) /\ t[2] = u[2]
    BY <1>6 DEF HomeOf
  <2>2. t[1] = u[1]
    BY <1>2, <1>3, <2>1 DEF LocalId
  <2>3. QED
    BY <1>3, <2>1, <2>2
<1>7. ASSUME NEW lane \in Used PROVE \E t \in Tensors : HomeOf(t) = lane
  <2>1. lane = <<lane[1], lane[2]>> /\ lane[1] \in Local /\ lane[2] \in Projections /\ InUse(lane)
    BY DEF Used, Lanes
  <2>2. PICK g \in Global : LocalOf[p][g] = lane[1]
    BY <1>2, <2>1
  <2>3. <<g, lane[2]>> \in Tensors /\ HomeOf(<<g, lane[2]>>) = lane
    BY <1>2, <2>1, <2>2 DEF Tensors, LocalId, InUse, HomeOf
  <2>4. QED
    BY <2>3
<1>8. QED
  BY <1>4, <1>5, <1>6, <1>7

\* Lanes of one arena have slots of their own: the index counts the experts before.
LEMMA SlotsApart ==
    ASSUME NEW lane \in Lanes, NEW other \in Lanes, SlotOf(lane) = SlotOf(other)
    PROVE  lane = other
<1>1. lane = <<lane[1], lane[2]>> /\ other = <<other[1], other[2]>> /\ lane[1] \in Local /\ other[1] \in Local
  BY DEF Lanes
<1>2. PICK k : k = PlannedK(lane)
  OBVIOUS
<1> DEFINE Same == {e \in Local : PlannedK(<<e, lane[2]>>) = k}
           Before(n) == {e \in Same : e < n}
<1>3. lane[2] = other[2] /\ PlannedK(other) = k
  BY <1>2 DEF SlotOf
<1>4. Cardinality(Before(lane[1])) = Cardinality(Before(other[1]))
  <2>1. /\ Before(lane[1]) = {e \in Local : e < lane[1] /\ PlannedK(<<e, lane[2]>>) = PlannedK(lane)}
        /\ Before(other[1]) = {e \in Local : e < other[1] /\ PlannedK(<<e, other[2]>>) = PlannedK(other)}
    BY <1>2, <1>3
  <2>2. QED
    BY <2>1 DEF SlotOf
<1>5. IsFiniteSet(Same) /\ Same \subseteq Local /\ \A e \in Local : e \in Nat
  <2>1. IsFiniteSet(Local) /\ Same \in SUBSET Local /\ \A e \in Local : e \in Nat
    BY ExpertsAssumption, FS_Interval DEF Local
  <2>2. QED
    BY <2>1, FS_Subset
<1>6. lane[1] \in Same /\ other[1] \in Same
  BY <1>1, <1>2, <1>3
<1>7. ASSUME NEW m \in Same, NEW n \in Same, m < n PROVE Cardinality(Before(m)) # Cardinality(Before(n))
  <2>1. Before(m) \subseteq Before(n) /\ m \in Before(n) /\ m \notin Before(m) /\ Before(n) \subseteq Same
    BY <1>5, <1>7
  <2>2. Before(m) \in SUBSET Before(n) /\ Before(m) # Before(n) /\ Before(n) \in SUBSET Same
    BY <2>1
  <2> HIDE DEF Before, Same
  <2>3. IsFiniteSet(Before(n))
    BY <1>5, <2>2, FS_Subset
  <2>4. QED
    BY <2>2, <2>3, FS_Subset, FS_CardinalityType
<1>8. lane[1] = other[1]
  <2>1. lane[1] < other[1] \/ other[1] < lane[1] \/ lane[1] = other[1]
    BY <1>1, <1>5
  <2> HIDE DEF Before, Same
  <2>2. QED
    BY <1>4, <1>6, <1>7, <2>1
<1>9. QED
  BY <1>1, <1>3, <1>8

-----------------------------------------------------------------------------
(* The steps.                                                              *)

\* What depends on the case alone.
LEMMA FixedFacts ==
    ASSUME UNCHANGED <<config, pack>>
    PROVE  /\ Used' = Used /\ Tensors' = Tensors /\ AllBytes' = AllBytes /\ ArenaMemory' = ArenaMemory
           /\ Versions' = Versions /\ (CaseFits => CaseFits')
           /\ \A x : InUse(x)' = InUse(x) /\ SlotOf(x)' = SlotOf(x) /\ HomeOf(x)' = HomeOf(x) /\ View(x)' = View(x)
           /\ \A x : PlannedK(x)' = PlannedK(x)
<1>1. /\ Versions' = Versions /\ ArenaMemory' = ArenaMemory /\ (CaseFits => CaseFits')
      /\ \A x : InUse(x)' = InUse(x) /\ LocalId(x)' = LocalId(x) /\ PlannedK(x)' = PlannedK(x)
  BY DEF Versions, ArenaMemory, UvaRequested, CaseFits, InUse, LocalId, PlannedK
<1>2. Used' = Used /\ Tensors' = Tensors
  BY <1>1 DEF Used, Tensors
<1>3. AllBytes' = AllBytes
  BY <1>1, <1>2 DEF AllBytes
<1>4. \A x : SlotOf(x)' = SlotOf(x) /\ HomeOf(x)' = HomeOf(x) /\ View(x)' = View(x)
  BY <1>1 DEF SlotOf, HomeOf, View
<1>5. QED
  BY <1>1, <1>2, <1>3, <1>4

LEMMA PlacesSame ==
    ASSUME UNCHANGED <<config, pack>>, DOMAIN slots' = DOMAIN slots
    PROVE  Places' = Places
<1>1. AllBytes' = AllBytes /\ \A s : View(s)' = View(s)
  BY FixedFacts
<1>2. {View(s) : s \in DOMAIN slots}' = {View(s) : s \in DOMAIN slots}
  BY <1>1
<1>3. QED
  BY <1>1, <1>2 DEF Places

LEMMA PlaceKinds ==
    /\ \A b, m : Own(b, m) # Nowhere /\ Own(b, m).kind = "own" /\ Own(b, m).bytes = b /\ Own(b, m).memory = m
    /\ \A s : View(s) # Nowhere /\ View(s).kind = "view" /\ View(s).slot = s /\ View(s).memory = ArenaMemory
    /\ Nowhere.kind = "none"
BY DEF Own, View, Nowhere

\* The places of a version of a tensor are places, and not the empty placeholder.
LEMMA PlacesOf ==
    ASSUME CaseFits, NEW t \in Tensors, latest[t] \in {0} \cup Versions
    PROVE  /\ PlaceOf(t) \in Places /\ (PlaceOf(t) = Nowhere <=> latest[t] = 0)
           /\ \A v \in Versions : Bytes(t, v) \in AllBytes /\ v # 0
<1>1. \A v \in Versions : Bytes(t, v) \in AllBytes /\ v # 0
  BY CaseFacts DEF AllBytes, Versions
<1>2. ArenaMemory \in Memories /\ "device" \in Memories
  BY CaseFacts DEF Memories
<1>3. QED
  BY <1>1, <1>2, PlaceKinds DEF PlaceOf, Places

LEMMA InitFits == Init => LoadInv
<1> SUFFICES ASSUME Init PROVE LoadInv
  OBVIOUS
<1>1. CaseFits
  BY DEF Init, CaseFits
<1>2. /\ phase = "loading" /\ plan = FALSE /\ pending = MayPrescan /\ trellis = [lane \in Lanes |-> Nowhere]
      /\ marker = [lane \in Lanes |-> {}] /\ latest = [t \in Tensors |-> 0] /\ sent = {} /\ settled = FALSE
      /\ DOMAIN slots = {} /\ DOMAIN staging = {}
  BY DEF Init
<1>3. MayPrescan \in BOOLEAN /\ (MayPrescan => config.arena /\ config.placement = "linear")
  BY <1>1, CaseFacts DEF MayPrescan
<1>4. \A t \in Tensors : HomeOf(t) \in Lanes
  BY <1>1, HomeFacts
<1>5. StateOK
  <2>1. Nowhere \in Places
    BY DEF Places
  <2>2. trellis \in [Lanes -> Places] /\ marker \in [Lanes -> SUBSET Codebooks] /\ latest \in [Tensors -> {0} \cup Versions]
    BY <1>2, <2>1
  <2>3. QED
    BY <1>2, <1>3, <2>2 DEF StateOK
<1>6. UnplannedFits
  BY <1>2, <1>4 DEF UnplannedFits, PlaceOf, PackedPlace
<1>7. PendingFits /\ PlannedFits /\ HandlesFit
  BY <1>2, <1>3 DEF PendingFits, PlannedFits, HandlesFit
<1>8. MarkersFit
  BY <1>2, <1>4 DEF MarkersFit
<1>9. QED
  BY <1>1, <1>5, <1>6, <1>7, <1>8 DEF LoadInv

LEMMA MarkerStep ==
    ASSUME LoadInv, NEW t \in Tensors, NEW kind \in Codebooks, LoadMarker(t, kind)
    PROVE  LoadInv'
<1>1. /\ CaseFits /\ StateOK /\ UnplannedFits /\ PendingFits /\ PlannedFits /\ MarkersFit /\ HandlesFit
      /\ LaneOf(t) = HomeOf(t) /\ HomeOf(t) \in Lanes /\ HomeOf(t) \in Used
  BY HomeFacts DEF LoadInv
<1>2. /\ kind \in pack[t].codebook /\ marker' = [marker EXCEPT ![HomeOf(t)] = @ \cup {kind}]
      /\ sent' = sent \cup {<<t, kind>>} /\ settled' = FALSE
      /\ UNCHANGED <<config, pack, phase, pending, plan, slots, trellis, staging, handle, latest>>
  BY <1>1 DEF LoadMarker
<1>3. /\ Used' = Used /\ Tensors' = Tensors /\ AllBytes' = AllBytes /\ ArenaMemory' = ArenaMemory
      /\ Versions' = Versions /\ CaseFits'
      /\ \A x : InUse(x)' = InUse(x) /\ SlotOf(x)' = SlotOf(x) /\ HomeOf(x)' = HomeOf(x) /\ View(x)' = View(x)
  BY <1>1, <1>2, FixedFacts
<1>4. StateOK'
  <2>1. Places' = Places
    BY <1>2, <1>3, PlacesSame
  <2>2. marker' \in [Lanes -> SUBSET Codebooks] /\ sent' \subseteq Tensors \X Codebooks
    BY <1>1, <1>2 DEF StateOK
  <2>3. QED
    BY <1>1, <1>2, <1>3, <2>1, <2>2 DEF StateOK
<1>5. \A lane : PackedPlace(lane)' = PackedPlace(lane)
  BY <1>2, <1>3 DEF PackedPlace
<1>6. UnplannedFits'
  BY <1>1, <1>2, <1>3, <1>5 DEF UnplannedFits, PlaceOf
<1>7. PendingFits' /\ PlannedFits'
  BY <1>1, <1>2, <1>3 DEF PendingFits, PlannedFits
<1>8. MarkersFit'
  <2>1. \A lane \in Lanes : marker'[lane] = IF lane = HomeOf(t) THEN marker[lane] \cup {kind} ELSE marker[lane]
    BY <1>1, <1>2 DEF StateOK
  <2>2. ASSUME NEW u \in Tensors
        PROVE  /\ marker'[HomeOf(u)] \subseteq pack[u].codebook
               /\ \A x \in Codebooks : <<u, x>> \in sent' => x \in marker'[HomeOf(u)]
    <3>1. HomeOf(u) \in Lanes /\ (HomeOf(u) = HomeOf(t) => u = t)
      BY <1>1, HomeFacts
    <3>2. QED
      BY <1>1, <1>2, <2>1, <3>1 DEF MarkersFit
  <2>3. \A lane \in Lanes : ~InUse(lane) => marker'[lane] = {}
    BY <1>1, <2>1 DEF MarkersFit, Used
  <2>4. QED
    BY <1>2, <1>3, <2>2, <2>3 DEF MarkersFit
<1>9. HandlesFit'
  BY <1>1, <1>2, <1>3, <1>5 DEF HandlesFit, RequiredIsUva
<1>10. QED
  BY <1>3, <1>4, <1>6, <1>7, <1>8, <1>9 DEF LoadInv

\* A delivery: the latest version of one tensor changes.
LEMMA DeliveryFacts ==
    ASSUME CaseFits, latest \in [Tensors -> {0} \cup Versions], NEW t \in Tensors, NEW v \in Versions,
           UNCHANGED <<config, pack>>, Delivered(t, v)
    PROVE  /\ settled' = FALSE /\ latest' \in [Tensors -> {0} \cup Versions] /\ v # 0
           /\ \A u \in Tensors : latest'[u] = IF u = t THEN v ELSE latest[u]
           /\ \A u \in Tensors : /\ u # t => PlaceOf(u)' = PlaceOf(u)
                                 /\ latest[u] # 0 => latest'[u] # 0
           /\ PlaceOf(t)' = Own(Bytes(t, v), IF config.arena THEN ArenaMemory ELSE "device")
<1>1. settled' = FALSE /\ latest' = [latest EXCEPT ![t] = v]
  BY DEF Delivered
<1>2. v # 0
  BY CaseFacts DEF Versions
<1>3. \A u \in Tensors : latest'[u] = IF u = t THEN v ELSE latest[u]
  BY <1>1
<1>4. ArenaMemory' = ArenaMemory
  BY FixedFacts
<1>5. QED
  BY <1>1, <1>2, <1>3, <1>4 DEF PlaceOf

LEMMA StagedStep ==
    ASSUME LoadInv, NEW t \in Tensors, NEW v \in Versions, LoadTrellisStaged(t, v)
    PROVE  LoadInv'
<1>1. /\ CaseFits /\ StateOK /\ UnplannedFits /\ PendingFits /\ PlannedFits /\ MarkersFit /\ HandlesFit
      /\ LaneOf(t) = HomeOf(t) /\ HomeOf(t) \in Lanes /\ HomeOf(t) \in Used
  BY HomeFacts DEF LoadInv
<1>2. /\ config.arena /\ ~pending /\ ~plan /\ staging' = Put(staging, HomeOf(t), Bytes(t, v)) /\ Delivered(t, v)
      /\ UNCHANGED <<config, pack, phase, pending, plan, slots, trellis, marker, handle, sent>>
  BY <1>1 DEF LoadTrellisStaged
<1>3. /\ Used' = Used /\ Tensors' = Tensors /\ AllBytes' = AllBytes /\ ArenaMemory' = ArenaMemory
      /\ Versions' = Versions /\ CaseFits' /\ Places' = Places
      /\ \A x : InUse(x)' = InUse(x) /\ SlotOf(x)' = SlotOf(x) /\ HomeOf(x)' = HomeOf(x) /\ View(x)' = View(x)
  BY <1>1, <1>2, FixedFacts, PlacesSame
<1>4. latest \in [Tensors -> {0} \cup Versions] /\ Bytes(t, v) \in AllBytes
  BY <1>1, PlacesOf DEF StateOK
<1>5. /\ settled' = FALSE /\ latest' \in [Tensors -> {0} \cup Versions]
      /\ \A u \in Tensors : /\ u # t => PlaceOf(u)' = PlaceOf(u)
                            /\ latest[u] # 0 => latest'[u] # 0
      /\ PlaceOf(t)' = Own(Bytes(t, v), ArenaMemory)
  BY <1>1, <1>2, <1>4, DeliveryFacts
<1>6. /\ DOMAIN staging' = DOMAIN staging \cup {HomeOf(t)}
      /\ \A lane \in DOMAIN staging' : staging'[lane] = IF lane = HomeOf(t) THEN Bytes(t, v) ELSE staging[lane]
  BY <1>2 DEF Put
<1>7. StateOK'
  BY <1>1, <1>2, <1>3, <1>4, <1>5, <1>6 DEF StateOK
<1>8. \A lane : PackedPlace(lane)' = IF lane = HomeOf(t) THEN Own(Bytes(t, v), ArenaMemory) ELSE PackedPlace(lane)
  BY <1>2, <1>3, <1>6 DEF PackedPlace
<1>9. UnplannedFits'
  <2>1. ASSUME NEW u \in Tensors PROVE PackedPlace(HomeOf(u))' = PlaceOf(u)'
    <3>1. CASE u = t
      BY <1>3, <1>5, <1>8, <3>1
    <3>2. CASE u # t
      <4>1. HomeOf(u) # HomeOf(t)
        BY <1>1, <3>2, HomeFacts
      <4>2. QED
        BY <1>1, <1>2, <1>3, <1>5, <1>8, <3>2, <4>1 DEF UnplannedFits
    <3>3. QED
      BY <3>1, <3>2
  <2>2. QED
    BY <1>3, <2>1 DEF UnplannedFits
<1>10. PendingFits' /\ PlannedFits'
  BY <1>2 DEF PendingFits, PlannedFits
<1>11. MarkersFit'
  BY <1>1, <1>2, <1>3 DEF MarkersFit
<1>12. HandlesFit'
  BY <1>1, <1>2, <1>3, <1>5 DEF HandlesFit, RequiredIsUva
<1>13. QED
  BY <1>3, <1>7, <1>9, <1>10, <1>11, <1>12 DEF LoadInv

LEMMA OwnStep ==
    ASSUME LoadInv, NEW t \in Tensors, NEW v \in Versions, LoadTrellisOwn(t, v)
    PROVE  LoadInv'
<1>1. /\ CaseFits /\ StateOK /\ UnplannedFits /\ PendingFits /\ PlannedFits /\ MarkersFit /\ HandlesFit
      /\ LaneOf(t) = HomeOf(t) /\ HomeOf(t) \in Lanes /\ HomeOf(t) \in Used
  BY HomeFacts DEF LoadInv
<1>2. /\ ~config.arena
      /\ UNCHANGED <<config, pack, pending, plan, slots, staging, marker, handle, sent>>
  BY DEF LoadTrellisOwn
<1>3. /\ Used' = Used /\ Tensors' = Tensors /\ AllBytes' = AllBytes /\ ArenaMemory' = ArenaMemory
      /\ Versions' = Versions /\ CaseFits' /\ Places' = Places
      /\ \A x : InUse(x)' = InUse(x) /\ SlotOf(x)' = SlotOf(x) /\ HomeOf(x)' = HomeOf(x) /\ View(x)' = View(x)
  BY <1>1, <1>2, FixedFacts, PlacesSame
<1>4. latest \in [Tensors -> {0} \cup Versions] /\ Bytes(t, v) \in AllBytes
  BY <1>1, PlacesOf DEF StateOK
<1>5. ~plan /\ ~pending
  BY <1>1, <1>2 DEF PlannedFits, PendingFits
<1>6. PendingFits' /\ PlannedFits' /\ MarkersFit'
  BY <1>1, <1>2, <1>3, <1>5 DEF PendingFits, PlannedFits, MarkersFit
<1>7. CASE phase' = "failed" /\ UNCHANGED <<trellis, latest, settled>>
  <2>1. StateOK'
    BY <1>1, <1>2, <1>3, <1>7 DEF StateOK
  <2>2. \A lane : PackedPlace(lane)' = PackedPlace(lane)
    BY <1>2, <1>3, <1>7 DEF PackedPlace
  <2>3. UnplannedFits'
    BY <1>1, <1>2, <1>3, <1>7, <2>2 DEF UnplannedFits, PlaceOf
  <2>4. HandlesFit'
    BY <1>7 DEF HandlesFit
  <2>5. QED
    BY <1>3, <1>6, <2>1, <2>3, <2>4 DEF LoadInv
<1>8. CASE trellis' = [trellis EXCEPT ![HomeOf(t)] = Own(Bytes(t, v), "device")] /\ Delivered(t, v) /\ UNCHANGED phase
  <2>1. /\ settled' = FALSE /\ latest' \in [Tensors -> {0} \cup Versions]
        /\ \A u \in Tensors : /\ u # t => PlaceOf(u)' = PlaceOf(u)
                              /\ latest[u] # 0 => latest'[u] # 0
        /\ PlaceOf(t)' = Own(Bytes(t, v), "device")
    BY <1>1, <1>2, <1>4, <1>8, DeliveryFacts
  <2>2. Own(Bytes(t, v), "device") \in Places
    BY <1>4 DEF Places, Memories
  <2>3. trellis' \in [Lanes -> Places]
    BY <1>1, <1>8, <2>2 DEF StateOK
  <2>4. StateOK'
    BY <1>1, <1>2, <1>3, <1>8, <2>1, <2>3 DEF StateOK
  <2>5. \A lane \in Lanes : PackedPlace(lane)' = IF lane = HomeOf(t) THEN Own(Bytes(t, v), "device") ELSE PackedPlace(lane)
    BY <1>1, <1>2, <1>3, <1>8 DEF PackedPlace, StateOK
  <2>6. UnplannedFits'
    <3>1. ASSUME NEW u \in Tensors PROVE PackedPlace(HomeOf(u))' = PlaceOf(u)'
      <4>1. HomeOf(u) \in Lanes /\ HomeOf(u)' = HomeOf(u) /\ (u # t => HomeOf(u) # HomeOf(t))
        BY <1>1, <1>3, HomeFacts
      <4>2. CASE u = t
        BY <2>1, <2>5, <4>1, <4>2
      <4>3. CASE u # t
        BY <1>1, <1>5, <2>1, <2>5, <4>1, <4>3 DEF UnplannedFits
      <4>4. QED
        BY <4>2, <4>3
    <3>2. QED
      BY <1>3, <3>1 DEF UnplannedFits
  <2>7. HandlesFit'
    BY <1>1, <1>2, <1>3, <1>5, <1>8, <2>1 DEF HandlesFit, RequiredIsUva
  <2>8. QED
    BY <1>3, <1>6, <2>4, <2>6, <2>7 DEF LoadInv
<1>9. QED
  BY <1>1, <1>7, <1>8 DEF LoadTrellisOwn

LEMMA DirectStep ==
    ASSUME LoadInv, NEW t \in Tensors, NEW v \in Versions, LoadTrellisDirect(t, v)
    PROVE  LoadInv'
<1>1. /\ CaseFits /\ StateOK /\ UnplannedFits /\ PendingFits /\ PlannedFits /\ MarkersFit /\ HandlesFit
      /\ LaneOf(t) = HomeOf(t) /\ HomeOf(t) \in Lanes /\ HomeOf(t) \in Used
  BY HomeFacts DEF LoadInv
<1>2. /\ plan /\ config.arena
      /\ UNCHANGED <<config, pack, pending, plan, trellis, staging, marker, handle, sent>>
  BY DEF LoadTrellisDirect
<1>3. /\ \/ /\ slots' = [slots EXCEPT ![SlotOf(HomeOf(t))] = Bytes(t, v)]
            /\ Delivered(t, v) /\ UNCHANGED phase
         \/ phase' = "failed" /\ UNCHANGED <<slots, latest, settled>>
      /\ DOMAIN slots' = DOMAIN slots
  BY <1>1 DEF LoadTrellisDirect
<1>4. /\ Used' = Used /\ Tensors' = Tensors /\ AllBytes' = AllBytes /\ ArenaMemory' = ArenaMemory
      /\ Versions' = Versions /\ CaseFits' /\ Places' = Places
      /\ \A x : InUse(x)' = InUse(x) /\ SlotOf(x)' = SlotOf(x) /\ HomeOf(x)' = HomeOf(x) /\ View(x)' = View(x)
  BY <1>1, <1>2, <1>3, FixedFacts, PlacesSame
<1>5. latest \in [Tensors -> {0} \cup Versions] /\ Bytes(t, v) \in AllBytes /\ ~pending
  BY <1>1, <1>2, PlacesOf DEF StateOK, PendingFits
<1>6. UnplannedFits' /\ PendingFits' /\ MarkersFit'
  BY <1>1, <1>2, <1>4, <1>5 DEF UnplannedFits, PendingFits, MarkersFit
<1>7. CASE phase' = "failed" /\ UNCHANGED <<slots, latest, settled>>
  <2>1. StateOK'
    BY <1>1, <1>2, <1>4, <1>7 DEF StateOK
  <2>2. PlannedFits' /\ HandlesFit'
    BY <1>1, <1>2, <1>4, <1>7 DEF PlannedFits, HandlesFit
  <2>3. QED
    BY <1>4, <1>6, <2>1, <2>2 DEF LoadInv
<1>8. CASE slots' = [slots EXCEPT ![SlotOf(HomeOf(t))] = Bytes(t, v)] /\ Delivered(t, v) /\ UNCHANGED phase
  <2>1. /\ settled' = FALSE /\ latest' \in [Tensors -> {0} \cup Versions]
        /\ \A u \in Tensors : latest'[u] = IF u = t THEN v ELSE latest[u]
    BY <1>1, <1>2, <1>5, <1>8, DeliveryFacts
  <2>2. \A s \in DOMAIN slots : slots'[s] = IF s = SlotOf(HomeOf(t)) THEN Bytes(t, v) ELSE slots[s]
    BY <1>8
  <2>3. StateOK'
    BY <1>1, <1>2, <1>3, <1>4, <1>5, <1>8, <2>1, <2>2 DEF StateOK
  <2>4. \A u \in Tensors : latest'[u] # 0 => slots'[SlotOf(HomeOf(u))] = Bytes(u, latest'[u])
    <3>1. SUFFICES ASSUME NEW u \in Tensors, latest'[u] # 0 PROVE slots'[SlotOf(HomeOf(u))] = Bytes(u, latest'[u])
      OBVIOUS
    <3>2. /\ HomeOf(u) \in Used /\ HomeOf(u) \in Lanes /\ SlotOf(HomeOf(u)) \in DOMAIN slots
          /\ (HomeOf(u) = HomeOf(t) => u = t)
      BY <1>1, <1>2, HomeFacts DEF PlannedFits
    <3>3. SlotOf(HomeOf(u)) = SlotOf(HomeOf(t)) => u = t
      BY <1>1, <3>2, SlotsApart
    <3>4. QED
      BY <1>1, <1>2, <2>1, <2>2, <3>1, <3>2, <3>3 DEF PlannedFits
  <2>5. PlannedFits'
    BY <1>1, <1>2, <1>3, <1>4, <2>4 DEF PlannedFits
  <2>6. HandlesFit'
    BY <1>1, <1>2, <1>4, <1>5, <1>8, <2>1 DEF HandlesFit, RequiredIsUva
  <2>7. QED
    BY <1>4, <1>6, <2>3, <2>5, <2>6 DEF LoadInv
<1>9. QED
  BY <1>3, <1>7, <1>8

LEMMA FirstStep ==
    ASSUME LoadInv, NEW t \in Tensors, NEW v \in Versions, LoadTrellisFirst(t, v)
    PROVE  LoadInv'
<1>1. /\ CaseFits /\ StateOK /\ UnplannedFits /\ PendingFits /\ PlannedFits /\ MarkersFit /\ HandlesFit
      /\ LaneOf(t) = HomeOf(t) /\ HomeOf(t) \in Lanes /\ HomeOf(t) \in Used
  BY HomeFacts DEF LoadInv
<1>2. /\ Loading /\ config.arena /\ pending /\ ~plan /\ plan' = TRUE /\ pending' = FALSE
      /\ trellis' = [lane \in Lanes |-> PlannedPlace(lane)] /\ DOMAIN staging' = {}
      /\ UNCHANGED <<config, pack, marker, handle, sent>>
  BY DEF LoadTrellisFirst
<1>3. /\ Used' = Used /\ Tensors' = Tensors /\ AllBytes' = AllBytes /\ ArenaMemory' = ArenaMemory
      /\ Versions' = Versions /\ CaseFits'
      /\ \A x : InUse(x)' = InUse(x) /\ SlotOf(x)' = SlotOf(x) /\ HomeOf(x)' = HomeOf(x) /\ View(x)' = View(x)
  BY <1>1, <1>2, FixedFacts
<1>4. /\ latest \in [Tensors -> {0} \cup Versions] /\ Bytes(t, v) \in AllBytes
      /\ DOMAIN slots = {} /\ (\A u \in Tensors : latest[u] = 0) /\ config.placement = "linear"
  BY <1>1, <1>2, PlacesOf DEF StateOK, PendingFits
<1>5. phase # "ready" /\ phase # "failed"
  BY <1>1, <1>2 DEF HandlesFit, Loading
<1>6. UnplannedFits' /\ PendingFits' /\ MarkersFit'
  BY <1>1, <1>2, <1>3 DEF UnplannedFits, PendingFits, MarkersFit
<1>7. /\ DOMAIN FreshSlots = {SlotOf(lane) : lane \in Used} /\ \A s \in DOMAIN FreshSlots : FreshSlots[s] = Garbage
      /\ SlotOf(HomeOf(t)) \in DOMAIN FreshSlots /\ Garbage \in AllBytes
  BY <1>1 DEF FreshSlots, AllBytes
<1>8. /\ \/ /\ slots' = [FreshSlots EXCEPT ![SlotOf(HomeOf(t))] = Bytes(t, v)]
            /\ Delivered(t, v) /\ UNCHANGED phase
         \/ slots' = FreshSlots /\ phase' = "failed" /\ UNCHANGED <<latest, settled>>
      /\ DOMAIN slots' = {SlotOf(lane) : lane \in Used}
      /\ \A s \in DOMAIN slots' : slots'[s] \in AllBytes
  BY <1>1, <1>2, <1>4, <1>7 DEF LoadTrellisFirst
<1>9. trellis' \in [Lanes -> Places'] /\ \A lane \in Used : trellis'[lane] = View(SlotOf(lane))
  <2>1. \A lane \in Lanes : trellis'[lane] = PlannedPlace(lane)
    BY <1>2
  <2>2. \A lane \in Used : lane \in Lanes /\ InUse(lane) /\ SlotOf(lane) \in DOMAIN slots'
    BY <1>8 DEF Used
  <2>3. \A lane \in Used : trellis'[lane] = View(SlotOf(lane)) /\ View(SlotOf(lane)) \in Places'
    BY <1>3, <2>1, <2>2 DEF PlannedPlace, Places
  <2>4. Places \subseteq Places'
    BY <1>3, <1>4 DEF Places
  <2>5. \A lane \in Lanes : lane \notin Used => trellis'[lane] = trellis[lane] /\ trellis[lane] \in Places
    BY <1>1, <2>1 DEF StateOK, PlannedPlace, Used
  <2>6. \A lane \in Lanes : trellis'[lane] \in Places'
    BY <2>3, <2>4, <2>5
  <2>7. QED
    BY <1>2, <2>3, <2>6
<1>10. CASE slots' = FreshSlots /\ phase' = "failed" /\ UNCHANGED <<latest, settled>>
  <2>1. StateOK'
    BY <1>1, <1>2, <1>3, <1>8, <1>9, <1>10 DEF StateOK
  <2>2. PlannedFits' /\ HandlesFit'
    BY <1>2, <1>3, <1>4, <1>8, <1>9, <1>10 DEF PlannedFits, HandlesFit
  <2>3. QED
    BY <1>3, <1>6, <2>1, <2>2 DEF LoadInv
<1>11. CASE slots' = [FreshSlots EXCEPT ![SlotOf(HomeOf(t))] = Bytes(t, v)] /\ Delivered(t, v) /\ UNCHANGED phase
  <2>1. /\ settled' = FALSE /\ latest' \in [Tensors -> {0} \cup Versions]
        /\ \A u \in Tensors : latest'[u] = IF u = t THEN v ELSE latest[u]
    BY <1>1, <1>2, <1>4, <1>11, DeliveryFacts
  <2>2. slots'[SlotOf(HomeOf(t))] = Bytes(t, v)
    BY <1>7, <1>11
  <2>3. StateOK'
    BY <1>1, <1>2, <1>3, <1>8, <1>9, <1>11, <2>1 DEF StateOK
  <2>4. \A u \in Tensors : latest'[u] # 0 => slots'[SlotOf(HomeOf(u))] = Bytes(u, latest'[u])
    BY <1>4, <2>1, <2>2
  <2>5. PlannedFits'
    <3>1. \A u \in Tensors' : latest'[u] # 0 => slots'[SlotOf(HomeOf(u))'] = Bytes(u, latest'[u])
      BY <1>3, <2>4
    <3>2. config'.arena /\ config'.placement = "linear"
      BY <1>2, <1>4
    <3>3. DOMAIN slots' = {SlotOf(lane) : lane \in Used}'
      BY <1>3, <1>8
    <3>4. \A lane \in Used' : trellis'[lane] = View(SlotOf(lane))'
      BY <1>3, <1>9
    <3>5. QED
      BY <1>3, <3>1, <3>2, <3>3, <3>4 DEF PlannedFits
  <2>6. HandlesFit'
    BY <1>5, <1>11 DEF HandlesFit
  <2>7. QED
    BY <1>3, <1>6, <2>3, <2>5, <2>6 DEF LoadInv
<1>12. QED
  BY <1>8, <1>10, <1>11

LEMMA ProcessStep ==
    ASSUME LoadInv, Process
    PROVE  LoadInv'
<1>1. /\ CaseFits /\ StateOK /\ UnplannedFits /\ PendingFits /\ PlannedFits /\ MarkersFit /\ HandlesFit
      /\ ArenaMemory \in Memories
      /\ \A t \in Tensors : HomeOf(t) \in Used /\ HomeOf(t) \in Lanes
      /\ \A lane \in Used : \E t \in Tensors : HomeOf(t) = lane
      /\ Used \subseteq Lanes
  BY HomeFacts, CaseFacts DEF LoadInv, Used
<1>2. UNCHANGED <<config, pack, pending, plan, slots, marker, latest, sent>>
  BY DEF Process
<1>3. /\ Used' = Used /\ Tensors' = Tensors /\ AllBytes' = AllBytes /\ ArenaMemory' = ArenaMemory
      /\ Versions' = Versions /\ CaseFits' /\ Places' = Places
      /\ \A x : InUse(x)' = InUse(x) /\ SlotOf(x)' = SlotOf(x) /\ HomeOf(x)' = HomeOf(x) /\ View(x)' = View(x)
  BY <1>1, <1>2, FixedFacts, PlacesSame
<1>4. \A t \in Tensors : PlaceOf(t)' = PlaceOf(t) /\ (PlaceOf(t) = Nowhere <=> latest[t] = 0)
  BY <1>1, <1>2, <1>3, PlacesOf DEF PlaceOf, StateOK
<1>5. PendingFits' /\ MarkersFit'
  BY <1>1, <1>2, <1>3 DEF PendingFits, MarkersFit
<1>6. CASE ~MarkedAsRequired
  <2>1. phase' = "failed" /\ UNCHANGED <<trellis, staging, handle, settled>>
    BY <1>6 DEF Process
  <2>2. \A lane : PackedPlace(lane)' = PackedPlace(lane)
    BY <1>2, <1>3, <2>1 DEF PackedPlace
  <2>3. UnplannedFits'
    BY <1>1, <1>2, <1>3, <1>4, <2>2 DEF UnplannedFits
  <2>4. StateOK'
    BY <1>1, <1>2, <1>3, <2>1 DEF StateOK
  <2>5. PlannedFits' /\ HandlesFit'
    BY <1>1, <1>2, <1>3, <2>1 DEF PlannedFits, HandlesFit
  <2>6. QED
    BY <1>3, <1>5, <2>3, <2>4, <2>5 DEF LoadInv
<1>7. CASE MarkedAsRequired
  <2>1. /\ trellis' = [lane \in Lanes |-> PackedPlace(lane)]
        /\ DOMAIN staging' \subseteq DOMAIN staging /\ (\A lane \in DOMAIN staging' : staging'[lane] = staging[lane])
        /\ config.arena => DOMAIN staging' = {}
        /\ \/ /\ Complete /\ PackedAsRequired
              /\ handle' = [lane \in Used |-> [place |-> PackedPlace(lane), codebook |-> marker[lane]]]
              /\ phase' = "ready" /\ settled' = TRUE
           \/ phase' = "failed" /\ UNCHANGED <<handle, settled>>
    BY <1>7 DEF Process
  <2>2. \A lane \in Lanes : PackedPlace(lane) \in Places /\ PackedPlace(lane)' = PackedPlace(lane) /\ trellis'[lane] = PackedPlace(lane)
    <3>1. ASSUME NEW lane \in Lanes PROVE PackedPlace(lane) \in Places
      BY <1>1, <3>1 DEF PackedPlace, StateOK, Places
    <3>2. ASSUME NEW lane \in Lanes PROVE PackedPlace(lane)' = PackedPlace(lane) /\ trellis'[lane] = PackedPlace(lane)
      <4>1. trellis'[lane] = PackedPlace(lane)
        BY <2>1
      <4>2. ~(config'.arena /\ ~plan' /\ lane \in DOMAIN staging')
        BY <1>2, <2>1
      <4>3. PackedPlace(lane)' = trellis'[lane]
        BY <4>2 DEF PackedPlace
      <4>4. QED
        BY <4>1, <4>3
    <3>3. QED
      BY <3>1, <3>2
  <2>3. StateOK'
    <3>1. trellis' \in [Lanes -> Places]
      BY <2>1, <2>2
    <3>2. phase' \in {"loading", "ready", "failed"} /\ settled' \in BOOLEAN
      BY <1>1, <2>1 DEF StateOK
    <3>3. DOMAIN staging' \subseteq Used /\ \A lane \in DOMAIN staging' : staging'[lane] \in AllBytes
      BY <1>1, <2>1 DEF StateOK
    <3>4. QED
      BY <1>1, <1>2, <1>3, <3>1, <3>2, <3>3 DEF StateOK
  <2>4. UnplannedFits'
    BY <1>1, <1>2, <1>3, <1>4, <2>2 DEF UnplannedFits
  <2>5. plan => \A lane \in Used : trellis'[lane] = View(SlotOf(lane)) /\ PackedPlace(lane) = View(SlotOf(lane))
    BY <1>1, <2>2 DEF PlannedFits, PackedPlace
  <2>6. PlannedFits'
    BY <1>1, <1>2, <1>3, <2>5 DEF PlannedFits
  <2>7. HandlesFit'
    <3>1. SUFFICES ASSUME Complete, PackedAsRequired, phase' = "ready", settled' = TRUE,
                          handle' = [lane \in Used |-> [place |-> PackedPlace(lane), codebook |-> marker[lane]]]
                   PROVE  HandlesFit'
      BY <2>1 DEF HandlesFit
    <3>2. \A lane \in Used : handle'[lane].place = PackedPlace(lane) /\ handle'[lane].codebook = marker[lane]
      BY <3>1
    <3>3. ~plan => \A t \in Tensors : PackedPlace(HomeOf(t)) = PlaceOf(t) /\ latest[t] # 0
      BY <1>1, <1>4, <3>1 DEF UnplannedFits, Complete
    <3>4. pending => Used = {}
      BY <1>1, <3>3 DEF PendingFits
    <3>5. \A t \in Tensors : handle'[HomeOf(t)].codebook \subseteq pack[t].codebook
      BY <1>1, <3>2 DEF MarkersFit
    <3>6. config.uva => \A lane \in Used : PackedPlace(lane).memory = "uva"
      <4>1. SUFFICES ASSUME config.uva, NEW lane \in Used PROVE PackedPlace(lane).memory = "uva"
        OBVIOUS
      <4>2. ArenaMemory = "uva" /\ (plan \/ config.arena)
        BY <3>1, <4>1 DEF PackedAsRequired, HasArenas
      <4>3. CASE plan
        BY <2>5, <4>2, <4>3, PlaceKinds
      <4>4. CASE ~plan
        <5>1. PICK t \in Tensors : HomeOf(t) = lane
          BY <1>1
        <5>2. PackedPlace(lane) = Own(Bytes(t, latest[t]), ArenaMemory)
          BY <3>3, <4>2, <4>4, <5>1 DEF PlaceOf
        <5>3. QED
          BY <4>2, <5>2, PlaceKinds
      <4>5. QED
        BY <4>3, <4>4
    <3>7. RequiredIsUva'
      BY <1>2, <1>3, <3>2, <3>6 DEF RequiredIsUva
    <3>8. DOMAIN handle' = Used
      BY <3>1
    <3>9. plan => \A lane \in Used : handle'[lane].place = View(SlotOf(lane))
      BY <2>5, <3>2
    <3>10. \A lane \in Used : handle'[lane].place = PackedPlace(lane)'
      BY <1>1, <2>2, <3>2
    <3>11. QED
      BY <1>2, <1>3, <3>3, <3>4, <3>5, <3>7, <3>8, <3>9, <3>10 DEF HandlesFit
  <2>8. QED
    BY <1>3, <1>5, <2>3, <2>4, <2>6, <2>7 DEF LoadInv
<1>8. QED
  BY <1>6, <1>7

LEMMA Invariance == LoadInv /\ [Next]_vars => LoadInv'
<1> SUFFICES ASSUME LoadInv, [Next]_vars PROVE LoadInv'
  OBVIOUS
<1>1. CASE Process
  BY <1>1, ProcessStep
<1>2. ASSUME NEW t \in Tensors, Load(t) PROVE LoadInv'
  <2>1. ASSUME NEW kind \in {"mcg", "mul1"}, LoadMarker(t, kind) PROVE LoadInv'
    BY <2>1, MarkerStep DEF Codebooks
  <2>2. ASSUME NEW v \in Versions, LoadTrellisFirst(t, v) PROVE LoadInv'
    BY <2>2, FirstStep
  <2>3. ASSUME NEW v \in Versions, LoadTrellisDirect(t, v) PROVE LoadInv'
    BY <2>3, DirectStep
  <2>4. ASSUME NEW v \in Versions, LoadTrellisStaged(t, v) PROVE LoadInv'
    BY <2>4, StagedStep
  <2>5. ASSUME NEW v \in Versions, LoadTrellisOwn(t, v) PROVE LoadInv'
    BY <2>5, OwnStep
  <2>6. QED
    BY <1>2, <2>1, <2>2, <2>3, <2>4, <2>5 DEF Load
<1>3. CASE UNCHANGED vars
  <2>1. UNCHANGED <<config, pack, phase, pending, plan, slots, trellis, staging, marker, handle, latest, sent, settled>>
    BY <1>3 DEF vars
  <2>2. /\ CaseFits /\ StateOK /\ UnplannedFits /\ PendingFits /\ PlannedFits /\ MarkersFit /\ HandlesFit
    BY DEF LoadInv
  <2>3. /\ Used' = Used /\ Tensors' = Tensors /\ AllBytes' = AllBytes /\ ArenaMemory' = ArenaMemory
        /\ Versions' = Versions /\ CaseFits' /\ Places' = Places
        /\ \A x : InUse(x)' = InUse(x) /\ SlotOf(x)' = SlotOf(x) /\ HomeOf(x)' = HomeOf(x) /\ View(x)' = View(x)
    BY <2>1, <2>2, FixedFacts, PlacesSame
  <2>4. \A lane : PackedPlace(lane)' = PackedPlace(lane)
    BY <2>1, <2>3 DEF PackedPlace
  <2>5. StateOK' /\ PendingFits' /\ PlannedFits' /\ MarkersFit'
    BY <2>1, <2>2, <2>3 DEF StateOK, PendingFits, PlannedFits, MarkersFit
  <2>6. UnplannedFits'
    BY <2>1, <2>2, <2>3, <2>4 DEF UnplannedFits, PlaceOf
  <2>7. HandlesFit'
    BY <2>1, <2>2, <2>3, <2>4 DEF HandlesFit, RequiredIsUva
  <2>8. QED
    BY <2>3, <2>5, <2>6, <2>7 DEF LoadInv
<1>4. QED
  BY <1>1, <1>2, <1>3 DEF Next

-----------------------------------------------------------------------------
(* What follows.                                                           *)

\* Every reachable state of every load satisfies the invariant.
THEOREM LoadCorrect == Spec => []LoadInv
BY InitFits, Invariance, PTL DEF Spec

\* The type invariant: a parameter views only slots of the plan (exl3.py:
\* prepare_trellis_arena_plan, _load_exl3, _pack_trellis_arenas).
THEOREM TypeCorrect == Spec => []TypeOK
<1>1. LoadInv => TypeOK
  <2> SUFFICES ASSUME LoadInv PROVE TypeOK
    OBVIOUS
  <2>1. StateOK
    BY DEF LoadInv
  <2>2. ASSUME NEW lane \in Lanes
        PROVE  CASE trellis[lane].kind = "none" -> TRUE
                 [] trellis[lane].kind = "own"  -> trellis[lane].bytes \in AllBytes
                 [] trellis[lane].kind = "view" -> trellis[lane].slot \in DOMAIN slots
    <3>1. \/ trellis[lane] = Nowhere
          \/ \E b \in AllBytes, m \in Memories : trellis[lane] = Own(b, m)
          \/ \E s \in DOMAIN slots : trellis[lane] = View(s)
      BY <2>1 DEF StateOK, Places
    <3>2. CASE trellis[lane] = Nowhere
      BY <3>2, PlaceKinds
    <3>3. ASSUME NEW b \in AllBytes, NEW m \in Memories, trellis[lane] = Own(b, m)
          PROVE  trellis[lane].kind = "own" /\ trellis[lane].bytes \in AllBytes
      BY <3>3, PlaceKinds
    <3>4. ASSUME NEW s \in DOMAIN slots, trellis[lane] = View(s)
          PROVE  trellis[lane].kind = "view" /\ trellis[lane].slot \in DOMAIN slots
      BY <3>4, PlaceKinds
    <3>5. \/ trellis[lane].kind = "none"
          \/ trellis[lane].kind = "own" /\ trellis[lane].bytes \in AllBytes
          \/ trellis[lane].kind = "view" /\ trellis[lane].slot \in DOMAIN slots
      BY <3>1, <3>2, <3>3, <3>4, PlaceKinds
    <3>6. QED
      BY <3>5
  <2>3. QED
    BY <2>1, <2>2 DEF StateOK, TypeOK, Codebooks
<1>2. QED
  BY <1>1, LoadCorrect, PTL

\* Where UVA is required, an accepted layer reads no trellis from device memory
\* (validate_exl3_moe_uva_layer and validate_exl3_moe_uva_arenas around the packing).
THEOREM UvaWhereRequired == Spec => []RequiredIsUva
<1>1. LoadInv => RequiredIsUva
  BY DEF LoadInv, HandlesFit, RequiredIsUva
<1>2. QED
  BY <1>1, LoadCorrect, PTL

\* An accepted layer reads, for each lane, the version of its own tensor that was delivered
\* last, under a codebook of that tensor; whichever way its tensors came in, and whatever
\* was loaded and processed before (_load_exl3, process_weights_after_loading).
THEOREM LatestServed == Spec => []ServesLatest
<1>1. LoadInv => ServesLatest
  <2> SUFFICES ASSUME LoadInv, phase = "ready", NEW t \in Tensors, latest[t] # 0, plan \/ settled
               PROVE  /\ Read(handle[HomeOf(t)].place) = Bytes(t, latest[t])
                      /\ handle[HomeOf(t)].codebook \subseteq pack[t].codebook
    BY DEF ServesLatest
  <2>1. CaseFits /\ UnplannedFits /\ PlannedFits /\ HandlesFit /\ HomeOf(t) \in Used
    BY HomeFacts DEF LoadInv
  <2>2. handle[HomeOf(t)].codebook \subseteq pack[t].codebook
    BY <2>1 DEF HandlesFit
  <2>3. CASE plan
    <3>1. handle[HomeOf(t)].place = View(SlotOf(HomeOf(t))) /\ slots[SlotOf(HomeOf(t))] = Bytes(t, latest[t])
      BY <2>1, <2>3 DEF HandlesFit, PlannedFits
    <3>2. Read(View(SlotOf(HomeOf(t)))) = slots[SlotOf(HomeOf(t))]
      BY PlaceKinds DEF Read
    <3>3. QED
      BY <2>2, <3>1, <3>2
  <2>4. CASE ~plan
    <3>1. \E m : handle[HomeOf(t)].place = Own(Bytes(t, latest[t]), m)
      BY <2>1, <2>4 DEF HandlesFit, UnplannedFits, PlaceOf
    <3>2. \A b, m : Read(Own(b, m)) = b
      BY PlaceKinds DEF Read
    <3>3. QED
      BY <2>2, <3>1, <3>2
  <2>5. QED
    BY <2>3, <2>4
<1>2. QED
  BY <1>1, LoadCorrect, PTL

\* Without an arena plan a layer is accepted only when every trellis of its experts was
\* delivered (the placeholders process_weights_after_loading looks for).
THEOREM UnplannedIsLoaded == Spec => []ReadyIsLoadedUnplanned
<1>1. LoadInv => ReadyIsLoadedUnplanned
  BY DEF LoadInv, HandlesFit, ReadyIsLoadedUnplanned, ReadyIsLoaded
<1>2. QED
  BY <1>1, LoadCorrect, PTL

-----------------------------------------------------------------------------
(* Rejections.                                                             *)

\* A planned slot has the shape of the tensor loaded to it: the header scan read that
\* very tensor.
LEMMA PlannedTensorFits ==
    ASSUME CaseFits, config.placement = "linear", NEW t \in Tensors
    PROVE  Fits(t)
<1>1. LaneOf(t) = HomeOf(t)
  BY HomeFacts
<1>2. t = <<t[1], t[2]>> /\ t[1] \in Global /\ LocalOf["linear"][t[1]] # Remote /\ "linear" \in DOMAIN LocalOf
  BY CaseFacts DEF Tensors, LocalId
<1>3. t[1] = Offset + LocalOf["linear"][t[1]]
  BY <1>2, LinearAssumption
<1>4. Scanned(HomeOf(t)) = t
  BY <1>2, <1>3 DEF Scanned, HomeOf, LocalId
<1>5. QED
  BY <1>1, <1>4 DEF Fits, PlannedK

\* What the processing asks of the markers and placeholders holds of a usable checkpoint
\* that was delivered whole.
LEMMA UsableIsAccepted ==
    ASSUME LoadInv, Usable, AllDelivered
    PROVE  MarkersGood /\ CodebooksAgree /\ Complete
<1>1. /\ CaseFits /\ StateOK /\ UnplannedFits /\ PlannedFits /\ MarkersFit
      /\ \A t \in Tensors : HomeOf(t) \in Used /\ HomeOf(t) \in Lanes
      /\ \A lane \in Used : \E t \in Tensors : HomeOf(t) = lane
      /\ \A t \in Tensors : latest[t] # 0 /\ \A kind \in pack[t].codebook : <<t, kind>> \in sent
  BY HomeFacts DEF LoadInv, AllDelivered
<1>2. ASSUME NEW t \in Tensors PROVE marker[HomeOf(t)] = pack[t].codebook
  <2>1. sent \subseteq Tensors \X Codebooks
    BY <1>1 DEF StateOK
  <2>2. ASSUME NEW kind \in pack[t].codebook PROVE kind \in marker[HomeOf(t)]
    <3>1. <<t, kind>> \in sent /\ kind \in Codebooks
      BY <1>1, <2>1
    <3>2. QED
      BY <1>1, <3>1 DEF MarkersFit
  <2>3. QED
    BY <1>1, <2>2 DEF MarkersFit
<1>3. MarkersGood
  <2>1. ASSUME NEW lane \in Lanes, InUse(lane) PROVE OneMarker(lane)
    <3>1. PICK t \in Tensors : HomeOf(t) = lane
      BY <1>1, <2>1 DEF Used
    <3>2. QED
      BY <1>2, <3>1 DEF OneMarker, Usable
  <2>2. QED
    BY <1>1, <2>1 DEF MarkersGood, MarkersFit
<1>4. CodebooksAgree
  <2>1. SUFFICES ASSUME NEW lane \in Used, NEW other \in Used, lane[2] = other[2] PROVE marker[lane] = marker[other]
    BY DEF CodebooksAgree
  <2>2. PICK t \in Tensors : HomeOf(t) = lane
    BY <1>1
  <2>3. PICK u \in Tensors : HomeOf(u) = other
    BY <1>1
  <2>4. t[2] = lane[2] /\ u[2] = other[2]
    BY <2>2, <2>3 DEF HomeOf
  <2>5. QED
    BY <1>2, <2>1, <2>2, <2>3, <2>4 DEF Usable
<1>5. Complete
  <2>1. SUFFICES ASSUME NEW lane \in Used PROVE PackedPlace(lane) # Nowhere
    BY DEF Complete
  <2>2. CASE plan
    BY <1>1, <2>2, PlaceKinds DEF PlannedFits, PackedPlace
  <2>3. CASE ~plan
    <3>1. PICK t \in Tensors : HomeOf(t) = lane
      BY <1>1
    <3>2. PackedPlace(lane) = PlaceOf(t) /\ PlaceOf(t) # Nowhere
      BY <1>1, <2>3, <3>1, PlaceKinds DEF UnplannedFits, PlaceOf
    <3>3. QED
      BY <3>2
  <2>4. QED
    BY <2>2, <2>3
<1>6. QED
  BY <1>3, <1>4, <1>5

\* With arenas on, what is complete is in arenas: those of a plan, those this processing
\* packs, or those an earlier one packed.
LEMMA CompleteHasArenas ==
    ASSUME LoadInv, Complete, config.arena
    PROVE  HasArenas
<1>1. CaseFits /\ StateOK /\ 0 \in Local
  BY ExpertsAssumption DEF LoadInv, Local
<1>2. PICK lane \in Lanes : lane \in Used
  <2>1. <<0, "up">> \in Used
    BY <1>1 DEF Used, Lanes, Projections, InUse
  <2>2. QED
    BY <2>1 DEF Used
<1>3. PICK t \in Tensors : HomeOf(t) = lane
  BY <1>1, <1>2, HomeFacts
<1>4. SUFFICES ASSUME ~plan, DOMAIN staging = {} PROVE trellis[lane].kind = "own"
  BY <1>2 DEF HasArenas, Packed
<1>5. PackedPlace(lane) = trellis[lane] /\ PackedPlace(lane) = PlaceOf(t) /\ PackedPlace(lane) # Nowhere
  BY <1>2, <1>3, <1>4 DEF PackedPlace, LoadInv, UnplannedFits, Complete
<1>6. QED
  BY <1>5, PlaceKinds DEF PlaceOf, Own

\* The load of experts ends in an error only in the processing, and only if the checkpoint
\* is unusable, a tensor of it was not delivered, or UVA cannot be had, or at a trellis of
\* a layer without arenas that a side file lists: no fill of a planned slot ever meets a
\* tensor of another shape, no order of tensors and no later processing is refused
\* (_load_exl3, _direct_fill_trellis_slot, process_weights_after_loading).
THEOREM OnlyBadRejected == Spec => [][RejectedIsBad]_vars
<1>1. ASSUME LoadInv, [Next]_vars PROVE [RejectedIsBad]_vars
  <2> DEFINE Listing == AliasesRaise /\ \E t \in Tensors, v \in Versions : LoadTrellisOwn(t, v)
  <2>1. SUFFICES ASSUME phase' = "failed", phase # "failed", Next, ~Listing
                 PROVE  Process /\ (~Usable \/ ~AllDelivered \/ ~UvaPossible)
    BY <1>1 DEF RejectedIsBad
  <2>2. CaseFits /\ StateOK /\ PendingFits /\ PlannedFits
    BY <1>1 DEF LoadInv
  <2>3. ASSUME NEW t \in Tensors, Load(t) PROVE FALSE
    <3>1. pending \/ plan => Fits(t)
      BY <2>2, PlannedTensorFits DEF PendingFits, PlannedFits
    <3>2. \A v \in Versions : LoadTrellisOwn(t, v) => ~AliasesRaise
      BY <2>1
    <3>3. \A kind : ~LoadMarker(t, kind)
      BY <2>1 DEF LoadMarker
    <3>4. \A v : ~LoadTrellisFirst(t, v) /\ ~LoadTrellisDirect(t, v)
      BY <2>1, <3>1 DEF LoadTrellisFirst, LoadTrellisDirect
    <3>5. \A v \in Versions : ~LoadTrellisStaged(t, v) /\ ~LoadTrellisOwn(t, v)
      BY <2>1, <3>2 DEF LoadTrellisStaged, LoadTrellisOwn
    <3>6. QED
      BY <2>3, <3>3, <3>4, <3>5 DEF Load
  <2>4. Process
    BY <2>1, <2>3 DEF Next
  <2>5. ASSUME Usable, AllDelivered, UvaPossible PROVE FALSE
    <3>1. MarkersGood /\ CodebooksAgree /\ Complete
      BY <1>1, <2>5, UsableIsAccepted
    <3>2. MarkedAsRequired /\ PackedAsRequired
      BY <1>1, <2>2, <2>5, <3>1, CaseFacts, CompleteHasArenas DEF UvaPossible, PackedAsRequired
    <3>3. QED
      BY <2>1, <2>4, <3>1, <3>2 DEF Process
  <2>6. QED
    BY <2>4, <2>5
<1>2. QED
  BY <1>1, LoadCorrect, PTL DEF Spec

-----------------------------------------------------------------------------
(* The load of a layer.                                                    *)

\* A layer's load of experts is a load of experts, and any other does nothing to it.
LEMMA LayerIsLoad == LayerSpec => Spec
<1>1. LayerInit => Init
  BY DEF LayerInit
<1>2. [LayerNext]_layerVars => [Next]_vars
  BY DEF LayerNext, LoadExperts, LoadLinear, LoadTable, LoadStore, layerVars
<1>3. QED
  BY <1>1, <1>2, PTL DEF LayerSpec, Spec

-----------------------------------------------------------------------------
(* N-gram tables.                                                          *)

\* What was delivered is of a version there is; the resident tensor has what its shards
\* were given while they are views of it; what was processed has all its parts, and of a
\* table on disk the host has the offsets that were delivered last.
TableFits ==
    /\ held \in [Table!TableParts -> 0..table.versions]
    /\ packed \in [Table!Shards -> 0..table.versions]
    /\ ~table.disk /\ aliased => \A s \in Table!Shards : packed[s] = held[Table!ShardPart(s)]
    /\ tstage = "ready" /\ fresh =>
          /\ Table!Missing = {} /\ Table!LayoutGood
          /\ IF table.disk THEN offsets = held[Table!HeadOffsets] ELSE aliased

TableInv == LoadsTable(unit) => unit \in Units /\ table = unit.load /\ TableFits

LEMMA TableStarts == LayerInit => TableInv
<1> SUFFICES ASSUME LayerInit, LoadsTable(unit) PROVE TableInv
  BY DEF TableInv
<1>1. unit \in Units /\ table = unit.load /\ table # NotAsked
  BY DEF LayerInit, LoadsTable, Loads
<1>2. table.versions \in Nat
  BY <1>1, TablesAssumption
<1>3. held = [p \in Table!TableParts |-> 0] /\ packed = [s \in Table!Shards |-> 0] /\ fresh = FALSE
  BY <1>1 DEF LayerInit, Table!TableInit
<1>4. \A s \in Table!Shards : Table!ShardPart(s) \in Table!TableParts
  BY DEF Table!TableParts
<1>5. QED
  BY <1>1, <1>2, <1>3, <1>4 DEF TableInv, TableFits

\* What is missing is only looked at by the processing, and whatever is delivered or moved
\* behind it is forgotten by the next.
LEMMA TableSteps == TableInv /\ [LayerNext]_layerVars => TableInv'
<1> SUFFICES ASSUME TableInv, [LayerNext]_layerVars, LoadsTable(unit)' PROVE TableInv'
  BY DEF TableInv
<1>1. UNCHANGED unit /\ LoadsTable(unit) /\ UNCHANGED table
  BY DEF LayerNext, LoadExperts, LoadLinear, LoadTable, LoadStore, layerVars, LoadsTable, Loads, Table!TableNext,
         Table!LoadPart, Table!MoveParameters, Table!ProcessTable, tableVars
<1>2. unit \in Units /\ table = unit.load /\ TableFits /\ table.versions \in Nat /\ table.disk \in BOOLEAN
  BY <1>1, TablesAssumption DEF TableInv
<1>3. /\ Table!TableParts' = Table!TableParts /\ Table!Shards' = Table!Shards
      /\ \A s : Table!ShardPart(s)' = Table!ShardPart(s)
      /\ Table!HeadOffsets' = Table!HeadOffsets /\ Table!HeadSizes' = Table!HeadSizes
  BY <1>1 DEF Table!Shards, Table!TableParts, Table!HeadOffsets, Table!HeadSizes, Table!HeadBias, Table!ShardPart
<1>4. ASSUME UNCHANGED held PROVE Table!Missing' = Table!Missing /\ Table!LayoutGood' = Table!LayoutGood
  BY <1>1, <1>3, <1>4 DEF Table!Missing, Table!LayoutGood, Table!TotalRows
<1> SUFFICES TableFits'
  BY <1>1, <1>2 DEF TableInv
<1>5. CASE UNCHANGED tableVars
  BY <1>2, <1>3, <1>4, <1>5 DEF TableFits, tableVars
<1>6. ASSUME NEW p \in Table!TableParts, NEW v \in 1..table.versions, Table!LoadPart(p, v) PROVE TableFits'
  <2>1. CASE p \in table.misshaped
    <3>1. UNCHANGED <<held, packed, aliased>> /\ tstage' = "failed"
      BY <1>6, <2>1 DEF Table!LoadPart
    <3>2. QED
      BY <1>1, <1>2, <1>3, <3>1 DEF TableFits
  <2>2. CASE p \notin table.misshaped
    <3>1. /\ held' = [held EXCEPT ![p] = v] /\ fresh' = FALSE /\ UNCHANGED aliased
          /\ packed' = [s \in Table!Shards |-> IF p = Table!ShardPart(s) /\ ~table.disk /\ aliased
                                               THEN v ELSE packed[s]]
      BY <1>6, <2>2 DEF Table!LoadPart
    <3>2. held' \in [Table!TableParts -> 0..table.versions] /\ packed' \in [Table!Shards -> 0..table.versions]
      BY <1>2, <3>1 DEF TableFits
    <3>3. ASSUME NEW s \in Table!Shards, ~table.disk, aliased PROVE packed'[s] = held'[Table!ShardPart(s)]
      <4>1. Table!ShardPart(s) \in Table!TableParts /\ packed[s] = held[Table!ShardPart(s)]
        BY <1>2, <3>3 DEF TableFits, Table!TableParts
      <4>2. QED
        BY <1>2, <3>1, <3>3, <4>1 DEF TableFits
    <3>4. QED
      BY <1>1, <1>3, <3>1, <3>2, <3>3 DEF TableFits
  <2>3. QED
    BY <2>1, <2>2
<1>7. CASE Table!MoveParameters
  BY <1>1, <1>2, <1>3, <1>7 DEF Table!MoveParameters, TableFits
<1>8. CASE Table!ProcessTable
  <2>1. UNCHANGED <<held, packed, aliased>>
    BY <1>8 DEF Table!ProcessTable
  <2>2. tstage' = "ready" => /\ Table!Missing = {} /\ Table!LayoutGood
                             /\ IF table.disk THEN offsets' = held[Table!HeadOffsets] ELSE aliased
    BY <1>2, <1>8 DEF Table!ProcessTable
  <2>3. QED
    BY <1>1, <1>2, <1>3, <1>4, <2>1, <2>2 DEF TableFits
<1>9. CASE LoadTable
  BY <1>6, <1>7, <1>8, <1>9 DEF LoadTable, Table!TableNext
<1>10. QED
  BY <1>5, <1>9 DEF LayerNext, LoadExperts, LoadLinear, LoadStore, layerVars, tableVars

\* The bits of a row: element i's own bits are at i * bits, and the rest of its state is
\* that of its predecessor.
LEMMA StatesAt ==
    ASSUME NEW bits \in 1..8
    PROVE  /\ \A i \in 0..159, m \in 0..(bits - 1) : Table!RingPosition(bits, i, m) = i * bits + m
           /\ \A i \in 0..159, m \in bits..15 :
                 Table!RingPosition(bits, i, m) = Table!RingPosition(bits, (i - 1) % 160, m - bits)
<1>1. ASSUME NEW i \in 0..159, NEW m \in 0..(bits - 1) PROVE Table!RingPosition(bits, i, m) = i * bits + m
  <2>1. m \div bits = 0 /\ m % bits = m /\ i % 160 = i
    BY SMT
  <2>2. QED
    BY <2>1 DEF Table!RingPosition, Table!RowDim
<1>2. ASSUME NEW i \in 0..159, NEW m \in bits..15
      PROVE  Table!RingPosition(bits, i, m) = Table!RingPosition(bits, (i - 1) % 160, m - bits)
  <2>1. (m - bits) \div bits = (m \div bits) - 1 /\ (m - bits) % bits = m % bits /\ m \div bits \in 0..15
    BY SMT
  <2>2. \A q \in 0..15 : (i - q) % 160 = (((i - 1) % 160) - (q - 1)) % 160
    BY SMT
  <2>3. QED
    BY <2>1, <2>2 DEF Table!RingPosition, Table!RowDim
<1>3. QED
  BY <1>1, <1>2

\* The bits of some elements.
RingAt(bits, X, Y) == {Table!RingPosition(bits, i, m) : i \in X, m \in Y}

LEMMA RingWords ==
    ASSUME NEW X, NEW Z, \A x \in X : Table!WordOf(x) \in Z, \A z \in Z : \E x \in X : z = Table!WordOf(x)
    PROVE  {Table!WordOf(x) : x \in X} = Z
OBVIOUS

\* The same at every width, and the words that hold them.
LEMMA RingHolds == Table!RingHoldsStates
<1> DEFINE Words(bits) == {Table!WordOf(x) : x \in 0..(160 * bits - 1)}
<1>1. ASSUME NEW bits \in 1..8 PROVE RingAt(bits, 0..(160 - 1), 0..(bits - 1)) = 0..(160 * bits - 1)
  <2>1. ASSUME NEW i \in 0..159, NEW m \in 0..(bits - 1) PROVE Table!RingPosition(bits, i, m) \in 0..(160 * bits - 1)
    <3>1. i * bits + m \in 0..(160 * bits - 1)
      BY SMT
    <3>2. QED
      BY <3>1, StatesAt
  <2>2. ASSUME NEW x \in 0..(160 * bits - 1)
        PROVE  \E i \in 0..159, m \in 0..(bits - 1) : x = Table!RingPosition(bits, i, m)
    <3>1. x \div bits \in 0..159 /\ x % bits \in 0..(bits - 1) /\ x = (x \div bits) * bits + (x % bits)
      BY SMT
    <3>2. QED
      BY <3>1, StatesAt, ZenonT(60)
  <2>3. RingAt(bits, 0..159, 0..(bits - 1)) = 0..(160 * bits - 1)
    <3> DEFINE X == 0..159
               Y == 0..(bits - 1)
               Z == 0..(160 * bits - 1)
    <3>1. /\ \A i \in X, m \in Y : Table!RingPosition(bits, i, m) \in Z
          /\ \A z \in Z : \E i \in X, m \in Y : z = Table!RingPosition(bits, i, m)
      BY <2>1, <2>2
    <3> HIDE DEF X, Y, Z
    <3>2. RingAt(bits, X, Y) = Z
      BY <3>1 DEF RingAt
    <3>3. QED
      BY <3>2 DEF X, Y, Z
  <2>4. 160 - 1 = 159
    BY SMT
  <2>5. QED
    BY <2>3, <2>4, Zenon
<1>2. ASSUME NEW bits \in 1..8 PROVE Words(bits) = 1..((1 + (160 * bits) \div 16) - 1)
  <2>1. (1 + (160 * bits) \div 16) - 1 = 10 * bits
    BY SMT
  <2>2. ASSUME NEW x \in 0..(160 * bits - 1) PROVE Table!WordOf(x) \in 1..(10 * bits)
    BY SMT DEF Table!WordOf
  <2>3. ASSUME NEW w \in 1..(10 * bits) PROVE \E x \in 0..(160 * bits - 1) : w = Table!WordOf(x)
    <3>1. 16 * (w - 1) \in 0..(160 * bits - 1) /\ Table!WordOf(16 * (w - 1)) = w
      BY SMT DEF Table!WordOf
    <3>2. QED
      BY <3>1
  <2>4. Words(bits) = 1..(10 * bits)
    BY <2>2, <2>3, RingWords
  <2>5. QED
    BY <2>1, <2>4, Zenon
<1>3. ASSUME NEW bits \in 1..8, NEW i \in 0..(160 - 1), NEW m \in bits..(16 - 1)
      PROVE  Table!RingPosition(bits, i, m) = Table!RingPosition(bits, (i - 1) % 160, m - bits)
  <2>1. i \in 0..159 /\ m \in bits..15
    BY SMT
  <2>2. QED
    BY <2>1, StatesAt
<1> HIDE DEF Words
<1>4. \A bits \in 1..8 :
         /\ RingAt(bits, 0..(160 - 1), 0..(bits - 1)) = 0..(160 * bits - 1)
         /\ \A i \in 0..(160 - 1), m \in bits..(16 - 1) :
               Table!RingPosition(bits, i, m) = Table!RingPosition(bits, (i - 1) % 160, m - bits)
         /\ Words(bits) = 1..((1 + (160 * bits) \div 16) - 1)
  BY <1>1, <1>2, <1>3, Zenon
<1>5. QED
  BY <1>4, PTL DEF Table!RingHoldsStates, Table!RowDim, Table!StateBits, Table!WordsPerRow, Words, RingAt

\* A number is in one block of a size, which division gives.
LEMMA BlockOf ==
    ASSUME NEW r \in Nat \ {0}, NEW n \in Nat \ {0}, NEW x \in 0..(n * r - 1)
    PROVE  /\ x \div r \in 0..(n - 1) /\ x % r = x - (x \div r) * r
           /\ (x \div r) * r <= x /\ x < (x \div r + 1) * r
           /\ \A s \in Int : s * r <= x /\ x < (s + 1) * r => s = x \div r
<1>1. x = r * (x \div r) + (x % r) /\ x % r \in 0..(r - 1) /\ x \div r \in Nat
  <2>1. x = r * (x \div r) + (x % r)
    BY Z3
  <2>2. QED
    BY <2>1, SMT
<1> DEFINE q == x \div r
<1>2. \A a, b \in Int : a + 1 <= b => (a + 1) * r <= b * r
  BY SMT
<1>3. q * r <= x /\ x < (q + 1) * r
  BY <1>1, SMT
<1>4. q \in Int /\ x \in Int /\ n * r \in Int
  BY <1>1
<1> HIDE DEF q
<1>5. ASSUME NEW s \in Int, s * r <= x, x < (s + 1) * r PROVE s = q
  <2>1. ~(s + 1 <= q)
    BY <1>2, <1>3, <1>4, <1>5
  <2>2. ~(q + 1 <= s)
    BY <1>2, <1>3, <1>4, <1>5
  <2>3. QED
    BY <2>1, <2>2, <1>4
<1>6. q < n
  <2>1. \A a, b \in Int : a <= b => a * r <= b * r
    BY SMT
  <2>2. n <= q => n * r <= q * r
    BY <2>1, <1>4
  <2>3. QED
    BY <2>2, <1>3, <1>4
<1>7. QED
  BY <1>1, <1>3, <1>5, <1>6 DEF q

LEMMA TableCardinality == ASSUME NEW S PROVE Table!Cardinality(S) = Cardinality(S)
BY DEF Table!Cardinality, Cardinality

\* Offsets that are the sums of the sizes in front are in order.
LEMMA OffsetsRise ==
    ASSUME NEW n \in Nat, NEW offs \in [1..n -> Int], NEW sizes \in [1..n -> Nat],
           \A i \in 1..(n - 1) : offs[i + 1] = offs[i] + sizes[i],
           NEW a \in 1..n, NEW b \in 1..n, a <= b
    PROVE  offs[a] <= offs[b]
<1> DEFINE S == {k \in Nat : a + k <= n => offs[a] <= offs[a + k]}
<1>1. 0 \in S
  BY SMT
<1>2. ASSUME NEW k \in Nat, k \in S PROVE k + 1 \in S
  <2> SUFFICES ASSUME a + (k + 1) <= n PROVE offs[a] <= offs[a + (k + 1)]
    OBVIOUS
  <2>1. a + k \in 1..(n - 1) /\ a + k \in 1..n /\ a + k <= n /\ a + (k + 1) = (a + k) + 1 /\ a + (k + 1) \in 1..n
    BY SMT
  <2>2. offs[a] <= offs[a + k] /\ offs[(a + k) + 1] = offs[a + k] + sizes[a + k]
    BY <1>2, <2>1
  <2>3. offs[a] \in Int /\ offs[a + k] \in Int /\ sizes[a + k] \in Nat
    BY <2>1
  <2>4. QED
    BY <2>1, <2>2, <2>3
<1> HIDE DEF S
<1>3. \A k \in Nat : k \in S
  BY <1>1, <1>2, NatInduct
<1>4. b - a \in Nat /\ a + (b - a) = b /\ b <= n
  BY SMT
<1>5. b - a \in S
  BY <1>3, <1>4
<1>6. QED
  BY <1>4, <1>5 DEF S

\* The head of a row whose range it is in: the offsets up to it are not above the row, those
\* behind it are.
LEMMA HeadFound ==
    ASSUME NEW n \in Nat, NEW offs \in [1..n -> Int], NEW sizes \in [1..n -> Nat], Len(offs) = n,
           \A i \in 1..(n - 1) : offs[i + 1] = offs[i] + sizes[i],
           NEW id \in Int, NEW h \in 1..n, offs[h] <= id, id < offs[h] + sizes[h]
    PROVE  Table!HeadIn(offs, id) = h
<1>1. h \in Nat /\ DOMAIN offs = 1..n /\ \A i \in 1..n : offs[i] \in Int /\ sizes[i] \in Nat
  OBVIOUS
<1>2. ASSUME NEW i \in 1..n, i <= h PROVE offs[i] <= offs[h]
  BY <1>2, OffsetsRise
<1>3. ASSUME NEW i \in 1..n, i > h PROVE offs[h] + sizes[h] <= offs[i]
  <2>1. h \in 1..(n - 1) /\ h + 1 \in 1..n /\ h + 1 <= i
    BY <1>3
  <2>2. offs[h + 1] <= offs[i]
    BY <2>1, OffsetsRise
  <2>3. QED
    BY <2>1, <2>2
<1>4. {i \in DOMAIN offs : offs[i] <= id} = 1..h
  <2>1. ASSUME NEW i \in 1..n PROVE offs[i] <= id <=> i \in 1..h
    <3>1. CASE i <= h
      <4>1. offs[i] <= offs[h] /\ offs[i] \in Int /\ offs[h] \in Int
        BY <1>1, <1>2, <3>1
      <4>2. QED
        BY <3>1, <4>1
    <3>2. CASE i > h
      <4>1. offs[h] + sizes[h] <= offs[i] /\ offs[i] \in Int /\ offs[h] + sizes[h] \in Int
        BY <1>1, <1>3, <3>2
      <4>2. QED
        BY <3>2, <4>1
    <3>3. QED
      BY <3>1, <3>2
  <2>2. QED
    BY <1>1, <2>1
<1>5. Cardinality({i \in DOMAIN offs : offs[i] <= id}) = h
  <2>1. h \in Nat /\ Cardinality(1..h) = IF 1 > h THEN 0 ELSE h - 1 + 1
    BY <1>1, FS_Interval
  <2>2. Cardinality(1..h) = h
    BY <2>1
  <2>3. QED
    BY <1>4, <2>2, Zenon
<1>6. Table!Max({1, h}) = h
  <2>1. h \in {1, h} /\ \A y \in {1, h} : h >= y
    BY <1>1
  <2>2. \A x \in {1, h} : (\A y \in {1, h} : x >= y) => x = h
    BY <1>1
  <2>3. QED
    BY <2>1, <2>2 DEF Table!Max
<1>7. Table!Min({n, h}) = h
  <2>1. h \in {n, h} /\ \A y \in {n, h} : h =< y
    BY <1>1
  <2>2. \A x \in {n, h} : (\A y \in {n, h} : x =< y) => x = h
    BY <1>1
  <2>3. QED
    BY <2>1, <2>2 DEF Table!Min
<1>8. QED
  BY <1>5, <1>6, <1>7, TableCardinality, Zenon DEF Table!HeadIn

\* The sequence of a set has every element of it.
LEMMA SetListed ==
    ASSUME NEW S, IsFiniteSet(S), NEW x \in S
    PROVE  \E k \in DOMAIN Table!SetToSeq(S) : Table!SetToSeq(S)[k] = x
<1> DEFINE D == 1..Cardinality(S)
           f == Table!SetToSeq(S)
<1>1. ExistsBijection(D, S) /\ Cardinality(S) \in Nat
  BY FS_CardinalityType
<1>2. \E g \in [D -> S] : IsInjective(g)
  BY <1>1 DEF ExistsBijection, Bijection, Injection
<1>3. f = CHOOSE g \in [D -> S] : IsInjective(g)
  BY TableCardinality, Zenon DEF Table!SetToSeq, Table!IsInjective, IsInjective
<1> HIDE DEF f, D
<1>4. f \in [D -> S] /\ f \in Injection(D, S)
  <2>1. f \in [D -> S] /\ IsInjective(f)
    BY <1>2, <1>3, Zenon
  <2>2. QED
    BY <2>1 DEF Injection
<1>5. IsFiniteSet(D) /\ Cardinality(D) = Cardinality(S)
  BY <1>1, FS_Interval DEF D
<1>6. f \in Surjection(D, S)
  BY <1>4, <1>5, FS_Injection
<1>7. \E k \in D : f[k] = x
  BY <1>6 DEF Surjection
<1>8. QED
  BY <1>4, <1>7 DEF f

\* Each place of a batch gets the row of its id, whichever way it is read.
LEMMA RowRead ==
    ASSUME NEW ids \in Seq(Nat), NEW i \in DOMAIN ids
    PROVE  /\ Table!Resident(ids)[i] =
                  Table!Decoded(Table!LookupPacked(ids[i]),
                                Table!HeadIn(table.layouts[held[Table!HeadOffsets]].offsets, ids[i]))
           /\ Table!FromDisk(ids)[i] =
                  Table!Decoded(Table!Gather(ids[i]), Table!HeadIn(table.layouts[offsets].offsets, ids[i]))
<1> DEFINE offs == table.layouts[offsets].offsets
           uids == Table!SetToSeq(Table!ToSet(ids))
           inverse == [j \in DOMAIN ids |-> CHOOSE k \in DOMAIN uids : uids[k] = ids[j]]
           rows == [k \in DOMAIN uids |-> Table!Decoded(Table!Gather(uids[k]), Table!HeadIn(offs, uids[k]))]
<1>1. Table!FromDisk(ids) = [j \in DOMAIN ids |-> rows[inverse[j]]]
  BY DEF Table!FromDisk
<1>2. IsFiniteSet(Table!ToSet(ids)) /\ ids[i] \in Table!ToSet(ids)
  <2>1. DOMAIN ids = 1..Len(ids) /\ Len(ids) \in Nat
    OBVIOUS
  <2>2. ids \in Surjection(DOMAIN ids, Table!ToSet(ids)) /\ ids[i] \in Table!ToSet(ids)
    BY DEF Surjection, Table!ToSet
  <2>3. IsFiniteSet(DOMAIN ids)
    BY <2>1, FS_Interval
  <2>4. QED
    BY <2>2, <2>3, FS_Surjection
<1>3. \E k \in DOMAIN uids : uids[k] = ids[i]
  BY <1>2, SetListed
<1> HIDE DEF uids
<1>4. inverse[i] \in DOMAIN uids /\ uids[inverse[i]] = ids[i]
  BY <1>3
<1> HIDE DEF inverse
<1>5. rows[inverse[i]] = Table!Decoded(Table!Gather(ids[i]), Table!HeadIn(offs, ids[i]))
  BY <1>4
<1>6. Table!FromDisk(ids)[i] = Table!Decoded(Table!Gather(ids[i]), Table!HeadIn(offs, ids[i]))
  BY <1>1, <1>5
<1>7. QED
  BY <1>6 DEF Table!Resident

LEMMA DecodedParts ==
    ASSUME NEW row, NEW head
    PROVE  LET got == Table!Decoded(row, head)
           IN  got.row = row /\ got.head = head /\ got.bias = held[Table!HeadBias]
BY DEF Table!Decoded

\* An id is a row of the one shard it falls in.
LEMMA RowsOwn ==
    ASSUME LoadsTable(unit), TableInv, tstage = "ready", fresh,
           NEW ids \in table.batches, NEW i \in DOMAIN ids
    PROVE  LET s == CHOOSE x \in Table!Shards : x * table.rows <= ids[i] /\ ids[i] < (x + 1) * table.rows
           IN  Table!Embedding(ids)[i].row =
                   Table!PackedRow(s, ids[i] - s * table.rows, held[Table!ShardPart(s)])
<1>1. /\ table.shards \in Nat \ {0} /\ table.rows \in Nat \ {0} /\ table.disk \in BOOLEAN
      /\ ids \in Seq(0..(table.shards * table.rows - 1))
  BY TablesAssumption DEF TableInv
<1>2. ids[i] \in 0..(table.shards * table.rows - 1) /\ ids \in Seq(Nat)
  <2>1. \A k \in 0..(table.shards * table.rows - 1) : k \in Nat
    OBVIOUS
  <2>2. QED
    BY <1>1, <2>1
<1> DEFINE q == ids[i] \div table.rows
<1>3. /\ q \in 0..(table.shards - 1) /\ ids[i] % table.rows = ids[i] - q * table.rows
      /\ q * table.rows <= ids[i] /\ ids[i] < (q + 1) * table.rows
      /\ \A s \in Int : s * table.rows <= ids[i] /\ ids[i] < (s + 1) * table.rows => s = q
  BY <1>1, <1>2, BlockOf
<1> HIDE DEF q
<1>4. (CHOOSE x \in Table!Shards : x * table.rows <= ids[i] /\ ids[i] < (x + 1) * table.rows) = q
  <2>1. q \in Table!Shards /\ Table!Shards \subseteq Int
    BY <1>1, <1>3 DEF Table!Shards
  <2>2. \A x \in Table!Shards : x * table.rows <= ids[i] /\ ids[i] < (x + 1) * table.rows => x = q
    BY <1>3, <2>1
  <2>3. QED
    BY <1>3, <2>1, <2>2, Zenon
<1>5. Table!Embedding(ids)[i].row = Table!PackedRow(q, ids[i] - q * table.rows, held[Table!ShardPart(q)])
  <2>1. CASE table.disk
    <3>1. Table!Embedding(ids)[i].row = Table!Gather(ids[i])
      <4>1. Table!Embedding(ids) = Table!FromDisk(ids)
        BY <2>1 DEF Table!Embedding
      <4>2. QED
        BY <1>2, <4>1, RowRead, DecodedParts
    <3>2. CASE table.shards = 1
      <4>1. q = 0 /\ ids[i] - q * table.rows = ids[i]
        BY <1>1, <1>2, <1>3, <3>2
      <4>2. QED
        BY <3>1, <3>2, <4>1 DEF Table!Gather
    <3>3. CASE table.shards # 1
      BY <3>1, <3>3 DEF Table!Gather, q
    <3>4. QED
      BY <3>2, <3>3
  <2>2. CASE ~table.disk
    <3>1. Table!Embedding(ids)[i].row = Table!LookupPacked(ids[i])
      <4>1. Table!Embedding(ids) = Table!Resident(ids)
        BY <2>2 DEF Table!Embedding
      <4>2. QED
        BY <1>2, <4>1, RowRead, DecodedParts
    <3>2. packed[q] = held[Table!ShardPart(q)]
      BY <1>3, <2>2 DEF TableInv, TableFits, Table!Shards
    <3>3. Table!LookupPacked(ids[i]) = Table!PackedRow(q, ids[i] % table.rows, packed[q])
      BY DEF Table!LookupPacked, q
    <3>4. QED
      BY <1>3, <3>1, <3>2, <3>3
  <2>3. QED
    BY <1>1, <2>1, <2>2
<1>6. QED
  BY <1>4, <1>5

\* Its head is the one whose range it is in, and the bias is the one delivered last.
LEMMA HeadsOwn ==
    ASSUME LoadsTable(unit), TableInv, tstage = "ready", fresh,
           NEW ids \in table.batches, NEW i \in DOMAIN ids
    PROVE  LET offs  == table.layouts[held[Table!HeadOffsets]].offsets
               sizes == table.layouts[held[Table!HeadSizes]].sizes
               got   == Table!Embedding(ids)[i]
           IN  /\ got.bias = held[Table!HeadBias]
               /\ \A h \in DOMAIN sizes : offs[h] <= ids[i] /\ ids[i] < offs[h] + sizes[h] => got.head = h
<1> DEFINE v == held[Table!HeadOffsets]
           w == held[Table!HeadSizes]
           offs == table.layouts[v].offsets
           sizes == table.layouts[w].sizes
           n == Len(offs)
<1>1. /\ table.shards \in Nat \ {0} /\ table.rows \in Nat \ {0} /\ table.disk \in BOOLEAN
      /\ ids \in Seq(0..(table.shards * table.rows - 1)) /\ table.versions \in Nat
  BY TablesAssumption DEF TableInv
<1>2. ids \in Seq(Nat) /\ ids[i] \in Int
  <2>1. \A k \in 0..(table.shards * table.rows - 1) : k \in Nat
    OBVIOUS
  <2>2. QED
    BY <1>1, <2>1
<1>3. Table!LayoutGood /\ Table!Missing = {} /\ (table.disk => offsets = v)
  BY DEF TableInv, TableFits
<1>4. v \in 1..table.versions /\ w \in 1..table.versions
  <2>1. Table!HeadOffsets \in Table!TableParts /\ Table!HeadSizes \in Table!TableParts
    BY DEF Table!TableParts
  <2>2. v \in 0..table.versions /\ w \in 0..table.versions
    BY <2>1 DEF TableInv, TableFits
  <2>3. v # 0 /\ w # 0
    BY <1>3, <2>1 DEF Table!Missing
  <2>4. QED
    BY <1>1, <2>2, <2>3
<1>5. offs \in Seq(Int) /\ sizes \in Seq(Nat) /\ Len(offs) = Len(sizes)
  BY <1>4, TablesAssumption DEF TableInv
<1>6. /\ Table!Embedding(ids)[i].bias = held[Table!HeadBias]
      /\ Table!Embedding(ids)[i].head = Table!HeadIn(offs, ids[i])
  <2>1. Table!Embedding(ids) = IF table.disk THEN Table!FromDisk(ids) ELSE Table!Resident(ids)
    BY DEF Table!Embedding
  <2>2. table.disk => table.layouts[offsets].offsets = offs
    BY <1>3
  <2>3. QED
    BY <1>2, <2>1, <2>2, RowRead, DecodedParts
<1>7. \A k \in 1..(n - 1) : offs[k + 1] = offs[k] + sizes[k]
  BY <1>3 DEF Table!LayoutGood
<1>8. ASSUME NEW h \in DOMAIN sizes, offs[h] <= ids[i], ids[i] < offs[h] + sizes[h]
      PROVE  Table!HeadIn(offs, ids[i]) = h
  <2> HIDE DEF offs, sizes
  <2>1. n \in Nat /\ offs \in [1..n -> Int] /\ sizes \in [1..n -> Nat]
    BY <1>5
  <2>2. h \in 1..n
    BY <1>5
  <2>3. QED
    BY <1>2, <1>7, <1>8, <2>1, <2>2, HeadFound
<1> HIDE DEF offs, sizes
<1>9. QED
  BY <1>6, <1>8 DEF offs, sizes

LEMMA LookupsOwn == TableInv => LooksUpOwnRow
<1> SUFFICES ASSUME TableInv, LoadsTable(unit), tstage = "ready", fresh PROVE Table!LooksUpOwnRow
  BY DEF LooksUpOwnRow, Table!LooksUpOwnRow
<1>1. ASSUME NEW ids \in table.batches, NEW i \in DOMAIN ids
      PROVE  LET s     == CHOOSE x \in Table!Shards : x * table.rows <= ids[i] /\ ids[i] < (x + 1) * table.rows
                 offs  == table.layouts[held[Table!HeadOffsets]].offsets
                 sizes == table.layouts[held[Table!HeadSizes]].sizes
                 got   == Table!Embedding(ids)[i]
             IN  /\ got.row = Table!PackedRow(s, ids[i] - s * table.rows, held[Table!ShardPart(s)])
                 /\ got.bias = held[Table!HeadBias]
                 /\ \A h \in DOMAIN sizes : offs[h] <= ids[i] /\ ids[i] < offs[h] + sizes[h] => got.head = h
  BY RowsOwn, HeadsOwn
<1>2. QED
  BY <1>1, RingHolds DEF Table!LooksUpOwnRow

-----------------------------------------------------------------------------
(* Experts kept tensor by tensor.                                          *)

LEMMA PairAnd == ASSUME NEW a, NEW b, NEW s PROVE <<a, b>> \o <<s>> = <<a, b, s>>
<1> DEFINE S == {a, b, s}
<1>1. /\ <<a, b>> \in Seq(S) /\ <<s>> \in Seq(S) /\ <<a, b, s>> \in Seq(S)
      /\ Len(<<a, b>>) = 2 /\ Len(<<s>>) = 1 /\ Len(<<a, b, s>>) = 3
  OBVIOUS
<1>2. /\ <<a, b>> \o <<s>> \in Seq(S) /\ Len(<<a, b>> \o <<s>>) = 3
      /\ \A i \in 1..3 : (<<a, b>> \o <<s>>)[i] = IF i <= 2 THEN <<a, b>>[i] ELSE <<s>>[i - 2]
  BY <1>1, ConcatProperties
<1>3. (<<a, b>> \o <<s>>)[1] = a /\ (<<a, b>> \o <<s>>)[2] = b /\ (<<a, b>> \o <<s>>)[3] = s
  BY <1>2
<1>4. \A i \in 1..3 : i = 1 \/ i = 2 \/ i = 3
  OBVIOUS
<1>5. \A i \in 1..3 : (<<a, b>> \o <<s>>)[i] = <<a, b, s>>[i]
  BY <1>3, <1>4
<1>6. QED
  BY <1>1, <1>2, <1>5, SeqEqual

\* A tensor is stored under the lane it had when the store was created, and a sealed store
\* is good and has the handles and groups of what is stored.
StoreKnown == store # NotAsked => \E u \in Units : LoadsStore(u) /\ store = u.load
Parts(t) == {"trellis", "suh", "svh"} \cup store.pack[t].codebook
Filed(x, key) ==
    \E t \in DOMAIN store.pack : \E s \in Parts(t) :
        /\ x = t \o <<s>> /\ LocalOf[store.placement][t[1]] # Remote
        /\ key = <<LocalOf[store.placement][t[1]], t[2], s>>
PayloadFits == sstage # "refused" => \A key \in DOMAIN payload : Filed(payload[key], key)
BankBuilt ==
    sealed => /\ sstage # "refused"
              /\ \A lane \in Bank!Bank : Bank!LaneGood(lane)
              /\ inners = [lane \in Bank!Bank |-> Bank!HandleOf(lane)]
              /\ groups = Bank!GroupLayouts
StoreInv ==
    /\ StoreKnown /\ PayloadFits /\ BankBuilt
    /\ store = NotAsked => sstage = "refused"
    /\ sstage = "ready" => sealed

LEMMA StoreFacts ==
    ASSUME StoreKnown, store # NotAsked
    PROVE  /\ store.placement \in DOMAIN LocalOf
           /\ \A t \in DOMAIN store.pack : /\ t = <<t[1], t[2]>> /\ t[1] \in Global /\ t[2] \in Projections
                                           /\ store.pack[t].codebook \subseteq Codebooks
                                           /\ \A s : t \o <<s>> = <<t[1], t[2], s>>
           /\ \A x \in store.early : \E t \in DOMAIN store.pack : \E s \in Parts(t) : x = t \o <<s>>
<1>1. PICK u \in Units : LoadsStore(u) /\ store = u.load
  BY DEF StoreKnown
<1>2. \A t \in DOMAIN store.pack : t = <<t[1], t[2]>> /\ t[1] \in Global /\ t[2] \in Projections
  BY <1>1, StoresAssumption
<1>3. \A t \in DOMAIN store.pack : \A s : t \o <<s>> = <<t[1], t[2], s>>
  BY <1>2, PairAnd
<1>4. QED
  BY <1>1, <1>2, <1>3, StoresAssumption DEF Codebooks, Parts

\* Two tensors of one lane are of one expert and projection of the checkpoint.
LEMMA FiledApart ==
    ASSUME StoreKnown, store # NotAsked, NEW x, NEW y, NEW k, NEW l, Filed(x, k), Filed(y, l), k[1] = l[1], k[2] = l[2]
    PROVE  \E t \in DOMAIN store.pack : x = t \o <<k[3]>> /\ y = t \o <<l[3]>> /\ k[3] \in Parts(t) /\ l[3] \in Parts(t)
<1>1. PICK t \in DOMAIN store.pack : \E s \in Parts(t) :
          x = t \o <<s>> /\ LocalOf[store.placement][t[1]] # Remote /\ k = <<LocalOf[store.placement][t[1]], t[2], s>>
  BY DEF Filed
<1>2. PICK r \in DOMAIN store.pack : \E q \in Parts(r) :
          y = r \o <<q>> /\ LocalOf[store.placement][r[1]] # Remote /\ l = <<LocalOf[store.placement][r[1]], r[2], q>>
  BY DEF Filed
<1>3. /\ t = <<t[1], t[2]>> /\ r = <<r[1], r[2]>> /\ t[1] \in Global /\ r[1] \in Global
      /\ store.placement \in DOMAIN LocalOf
  BY StoreFacts
<1>4. LocalOf[store.placement][t[1]] = LocalOf[store.placement][r[1]] /\ t[2] = r[2]
  BY <1>1, <1>2
<1>5. t[1] = r[1]
  BY <1>1, <1>3, <1>4, ExpertsAssumption
<1>6. t = r
  BY <1>3, <1>4, <1>5
<1>7. k[3] \in Parts(t) /\ x = t \o <<k[3]>>
  <2>1. PICK s \in Parts(t) : x = t \o <<s>> /\ k = <<LocalOf[store.placement][t[1]], t[2], s>>
    BY <1>1
  <2>2. k[3] = s
    BY <2>1
  <2>3. QED
    BY <2>1, <2>2
<1>8. l[3] \in Parts(t) /\ y = t \o <<l[3]>>
  <2>1. PICK s \in Parts(r) : y = r \o <<s>> /\ l = <<LocalOf[store.placement][r[1]], r[2], s>>
    BY <1>2
  <2>2. l[3] = s
    BY <2>1
  <2>3. QED
    BY <1>6, <2>1, <2>2
<1>9. QED
  BY <1>7, <1>8

LEMMA StoreStarts == LayerInit => StoreInv
<1> SUFFICES ASSUME LayerInit PROVE StoreInv
  OBVIOUS
<1>1. unit \in Units /\ store = (IF LoadsStore(unit) THEN unit.load ELSE NotAsked) /\ Bank!StoreInit
  BY DEF LayerInit
<1>2. StoreKnown
  BY <1>1 DEF StoreKnown
<1>3. ~sealed /\ (store = NotAsked => sstage = "refused") /\ sstage # "ready"
  BY <1>1 DEF Bank!StoreInit
<1>4. PayloadFits
  <2>1. SUFFICES ASSUME sstage # "refused", NEW key \in DOMAIN payload PROVE Filed(payload[key], key)
    BY DEF PayloadFits
  <2> DEFINE kept == {x \in store.early : Bank!At(store.placement, x[1]) # Remote}
  <2>2. store # NotAsked
    BY <1>3, <2>1
  <2>3. payload = [k \in {Bank!Key(store.placement, x) : x \in kept} |-> CHOOSE x \in kept : Bank!Key(store.placement, x) = k]
    BY <1>1, <2>2 DEF Bank!StoreInit
  <2>4. PICK x \in kept : payload[key] = x /\ Bank!Key(store.placement, x) = key
    BY <2>1, <2>3
  <2>5. PICK t \in DOMAIN store.pack : \E s \in Parts(t) : x = t \o <<s>>
    BY <1>2, <2>2, StoreFacts
  <2>6. PICK s \in Parts(t) : x = t \o <<s>> /\ x = <<t[1], t[2], s>>
    BY <1>2, <2>2, <2>5, StoreFacts
  <2>7. x[1] = t[1] /\ x[2] = t[2] /\ x[3] = s
    <3>1. x = <<t[1], t[2], s>>
      BY <2>6
    <3>2. QED
      BY <3>1
  <2>8. LocalOf[store.placement][t[1]] # Remote /\ key = <<LocalOf[store.placement][t[1]], t[2], s>>
    BY <2>4, <2>7 DEF Bank!Key, Bank!At
  <2>9. QED
    BY <2>4, <2>6, <2>8 DEF Filed
<1>5. QED
  BY <1>2, <1>3, <1>4 DEF StoreInv, BankBuilt

\* What depends on the store and its payload alone.
LEMMA StoreSame ==
    ASSUME UNCHANGED <<store, payload>>
    PROVE  /\ (StoreKnown => StoreKnown') /\ Bank!Bank' = Bank!Bank /\ Bank!GroupLayouts' = Bank!GroupLayouts
           /\ \A x, k : Filed(x, k)' = Filed(x, k)
           /\ \A lane : Bank!LaneGood(lane)' = Bank!LaneGood(lane) /\ Bank!HandleOf(lane)' = Bank!HandleOf(lane)
<1>1. Bank!Bank' = Bank!Bank /\ (StoreKnown => StoreKnown')
  BY DEF Bank!Bank, Bank!LocalExperts, Bank!StoreProjections, StoreKnown
<1>2. \A x, k : Filed(x, k)' = Filed(x, k)
  BY DEF Filed, Parts
<1>3. \A lane : /\ Bank!LaneGood(lane)' = Bank!LaneGood(lane) /\ Bank!HandleOf(lane)' = Bank!HandleOf(lane)
                /\ Bank!Markers(lane)' = Bank!Markers(lane)
  BY DEF Bank!LaneGood, Bank!HandleOf, Bank!Markers, Bank!MarkerRight
<1>4. \A e : Bank!Layout(e)' = Bank!Layout(e)
  BY <1>3 DEF Bank!Layout, Bank!StoreProjections
<1>5. Bank!GroupLayouts' = Bank!GroupLayouts
  <2>1. [e \in Bank!LocalExperts |-> Bank!Layout(e)]' = [e \in Bank!LocalExperts |-> Bank!Layout(e)]
    BY <1>4 DEF Bank!LocalExperts
  <2>2. PICK layouts : layouts = [e \in Bank!LocalExperts |-> Bank!Layout(e)]
    OBVIOUS
  <2>3. Bank!GroupLayouts = [l \in {layouts[e] : e \in Bank!LocalExperts} |-> Bank!Members(layouts, l)]
    BY <2>2 DEF Bank!GroupLayouts
  <2>4. Bank!GroupLayouts' = [l \in {layouts[e] : e \in Bank!LocalExperts} |-> Bank!Members(layouts, l)]
    BY <2>1, <2>2 DEF Bank!GroupLayouts, Bank!LocalExperts
  <2>5. QED
    BY <2>3, <2>4
<1>6. QED
  BY <1>1, <1>2, <1>3, <1>5

LEMMA StoreSteps == StoreInv /\ [LayerNext]_layerVars => StoreInv'
<1> SUFFICES ASSUME StoreInv, [LayerNext]_layerVars PROVE StoreInv'
  OBVIOUS
<1>1. CASE UNCHANGED storeVars
  <2>1. UNCHANGED <<store, sstage, emap, payload, sealed, inners, groups>>
    BY <1>1 DEF storeVars
  <2>2. QED
    BY <2>1, StoreSame DEF StoreInv, PayloadFits, BankBuilt
<1>2. ASSUME NEW p, Bank!Rebalance(p) PROVE StoreInv'
  <2>1. UNCHANGED <<store, sstage, payload, sealed, inners, groups>>
    BY <1>2 DEF Bank!Rebalance
  <2>2. QED
    BY <2>1, StoreSame DEF StoreInv, PayloadFits, BankBuilt
<1>3. ASSUME NEW x \in Bank!CheckpointTensors, Bank!LoadKey(x) PROVE StoreInv'
  <2> DEFINE key == Bank!Key(emap, x)
  <2>1. /\ sstage \in {"loading", "ready"} /\ Bank!At(emap, x[1]) # Remote /\ UNCHANGED <<store, emap, sealed, inners, groups>>
        /\ \/ sstage' = (IF sealed THEN "ready" ELSE "failed") /\ UNCHANGED payload
           \/ Bank!MapKept /\ ~sealed /\ payload' = Bank!Keep(payload, x, key) /\ UNCHANGED sstage
    BY <1>3 DEF Bank!LoadKey
  <2>2. CASE sstage' = (IF sealed THEN "ready" ELSE "failed") /\ UNCHANGED payload
    BY <2>1, <2>2, StoreSame DEF StoreInv, PayloadFits, BankBuilt
  <2>3. CASE Bank!MapKept /\ ~sealed /\ payload' = Bank!Keep(payload, x, key) /\ UNCHANGED sstage
    <3>1. StoreKnown' /\ \A y, k : Filed(y, k)' = Filed(y, k)
      BY <2>1 DEF StoreInv, StoreKnown, Filed, Parts
    <3>2. store # NotAsked /\ StoreKnown
      BY <2>1 DEF StoreInv
    <3>3. Filed(x, key)
      <4>1. PICK t \in DOMAIN store.pack : \E s \in Parts(t) : x = t \o <<s>>
        BY DEF Bank!CheckpointTensors, Bank!Sent, Parts
      <4>2. PICK s \in Parts(t) : x = t \o <<s>> /\ x = <<t[1], t[2], s>>
        BY <3>2, <4>1, StoreFacts
      <4>3. x[1] = t[1] /\ x[2] = t[2] /\ x[3] = s
        <5>1. x = <<t[1], t[2], s>>
          BY <4>2
        <5>2. QED
          BY <5>1
      <4>4. LocalOf[store.placement][t[1]] # Remote /\ key = <<LocalOf[store.placement][t[1]], t[2], s>>
        BY <2>1, <2>3, <4>3 DEF Bank!Key, Bank!At, Bank!MapKept
      <4>5. QED
        BY <4>2, <4>4 DEF Filed
    <3>4. \A k \in DOMAIN payload' : (k = key /\ payload'[k] = x) \/ (k \in DOMAIN payload /\ payload'[k] = payload[k])
      BY <2>3 DEF Bank!Keep
    <3>5. PayloadFits'
      <4> HIDE DEF key
      <4>1. \A k \in DOMAIN payload' : Filed(payload'[k], k)
        BY <2>1, <3>3, <3>4 DEF StoreInv, PayloadFits
      <4>2. QED
        BY <3>1, <4>1 DEF PayloadFits
    <3>6. QED
      BY <2>1, <2>3, <3>1, <3>2, <3>5 DEF StoreInv, BankBuilt
  <2>4. QED
    BY <2>1, <2>2, <2>3
<1>4. CASE Bank!BuildInners
  <2>1. UNCHANGED <<store, emap, payload>> /\ sstage \in {"loading", "ready"}
    BY <1>4 DEF Bank!BuildInners
  <2>2. CASE \A lane \in Bank!Bank : Bank!LaneGood(lane)
    <3>1. /\ inners' = [lane \in Bank!Bank |-> Bank!HandleOf(lane)] /\ groups' = Bank!GroupLayouts
          /\ sealed' = TRUE /\ sstage' = "ready"
      BY <1>4, <2>2 DEF Bank!BuildInners
    <3>2. inners' = [lane \in Bank!Bank' |-> Bank!HandleOf(lane)']
      BY <2>1, <3>1, StoreSame
    <3>3. QED
      BY <2>1, <2>2, <3>1, <3>2, StoreSame DEF StoreInv, PayloadFits, BankBuilt
  <2>3. CASE ~\A lane \in Bank!Bank : Bank!LaneGood(lane)
    <3>1. sstage' = "failed" /\ UNCHANGED <<inners, groups, sealed>>
      BY <1>4, <2>3 DEF Bank!BuildInners
    <3>2. QED
      BY <2>1, <3>1, StoreSame DEF StoreInv, PayloadFits, BankBuilt
  <2>4. QED
    BY <2>2, <2>3
<1>5. CASE LoadStore
  BY <1>2, <1>3, <1>4, <1>5 DEF LoadStore, Bank!StoreNext
<1>6. QED
  BY <1>1, <1>5 DEF LayerNext, LoadExperts, LoadLinear, LoadTable, layerVars

-----------------------------------------------------------------------------
(* The groups of a sealed store.                                           *)

\* h has the groups that group_layouts goes through, one expert at a time.
Groups(h, layouts, l) ==
    /\ h \in [0..NumExperts -> Seq(Local)] /\ h[0] = <<>>
    /\ \A i \in 1..NumExperts : /\ i - 1 \in 0..NumExperts /\ i - 1 \in Local
                                /\ h[i] = IF layouts[i - 1] = l THEN Append(h[i - 1], i - 1) ELSE h[i - 1]

LEMMA GroupsRun ==
    ASSUME NEW layouts, NEW l
    PROVE  \E h : Groups(h, layouts, l) /\ Bank!Members(layouts, l) = h[NumExperts]
<1> DEFINE n == NumExperts
           s == [i \in 1..n |-> i - 1]
           Op(members, e) == IF layouts[e] = l THEN Append(members, e) ELSE members
           V == Seq(Local)
           G == [i \in 1..n |-> [v \in V |-> Op(v, s[i])]]
           base == <<>>
           iter == CHOOSE f : f = [t \in SUBSET (DOMAIN s) |->
                                     IF t = {} THEN base ELSE Op(f[t \ {Max(t)}], s[Max(t)])]
<1>1. n \in Nat /\ DOMAIN s = 1..n /\ base \in V /\ \A i \in 1..n : s[i] = i - 1 /\ s[i] \in Local
  BY ExpertsAssumption DEF Local
<1>2. \A v \in V, i \in 1..n : Op(v, s[i]) \in V
  BY <1>1, AppendProperties
<1>3. Bank!Members(layouts, l) = iter[DOMAIN s]
  BY DEF Bank!Members, Bank!FoldLeft, Bank!MapThenFoldSet, Bank!Max, Max
<1> HIDE DEF n, s, Op, V, base
<1>4. G \in [1..n -> [V -> V]] /\ \A v \in V, i \in 1..n : G[i][v] = Op(v, s[i])
  BY <1>2
<1> HIDE DEF G
<1>5. PICK f : Unfolds(f, V, base, n, G)
  BY <1>1, <1>4, FoldSolution
<1>6. ASSUME NEW t \in SUBSET (1..n), t # {} PROVE f[t] = Op(f[t \ {Max(t)}], s[Max(t)])
  <2>1. Max(t) \in 1..n /\ f[t \ {Max(t)}] \in V
    BY <1>1, <1>5, <1>6, MaxIn DEF Unfolds
  <2>2. QED
    BY <1>4, <1>5, <1>6, <2>1 DEF Unfolds
<1>7. f = [t \in SUBSET (1..n) |-> IF t = {} THEN base ELSE Op(f[t \ {Max(t)}], s[Max(t)])]
  BY <1>5, <1>6 DEF Unfolds
<1>8. iter = [t \in SUBSET (1..n) |-> IF t = {} THEN base ELSE Op(iter[t \ {Max(t)}], s[Max(t)])]
  BY <1>1, <1>7
<1> HIDE DEF iter
<1>9. iter[{}] = base /\ \A i \in 1..n : iter[1..i] = Op(iter[1..(i - 1)], s[i])
  <2>1. iter[{}] = base
    BY <1>8
  <2>2. ASSUME NEW i \in 1..n PROVE iter[1..i] = Op(iter[1..(i - 1)], s[i])
    <3>1. 1..i \in SUBSET (1..n) /\ 1..i # {} /\ Max(1..i) = i /\ (1..i) \ {Max(1..i)} = 1..(i - 1)
      BY <1>1, UpTo, SMTT(30)
    <3>2. QED
      BY <1>8, <3>1
  <2>3. QED
    BY <2>1, <2>2
<1>10. PICK h : RunsThrough(h, V, base, n, G) /\ h[n] = iter[1..n]
  <2>1. Iterates(iter, V, base, n, G)
    BY <1>4, <1>9 DEF Iterates
  <2>2. QED
    BY <1>1, <1>4, <2>1, FoldRun
<1>11. \A i \in 1..n : i - 1 \in 0..n /\ s[i] = i - 1 /\ s[i] \in Local /\ h[i] = Op(h[i - 1], s[i])
  BY <1>1, <1>4, <1>10, UpTo DEF RunsThrough
<1>12. h \in [0..n -> V] /\ h[0] = base /\ Bank!Members(layouts, l) = h[n]
  BY <1>1, <1>3, <1>10 DEF RunsThrough
<1>13. Groups(h, layouts, l)
  BY <1>11, <1>12 DEF n, V, Op, base, Groups
<1>14. QED
  BY <1>12, <1>13 DEF n

\* The members of a group are the experts of its layout, in order.
LEMMA GroupMembers ==
    ASSUME NEW layouts, NEW l
    PROVE  /\ ToSet(Bank!Members(layouts, l)) = {e \in Local : layouts[e] = l}
           /\ \A i, j \in DOMAIN Bank!Members(layouts, l) :
                 i < j => Bank!Members(layouts, l)[i] < Bank!Members(layouts, l)[j]
<1>1. PICK h : Groups(h, layouts, l) /\ Bank!Members(layouts, l) = h[NumExperts]
  BY GroupsRun
<1> DEFINE n == NumExperts
           Before(i) == {e \in 0..(i - 1) : layouts[e] = l}
           Ordered(s) == \A i, j \in DOMAIN s : i < j => s[i] < s[j]
           Kept(i) == ToSet(h[i]) = Before(i) /\ Ordered(h[i])
           T == {i \in 0..n : Kept(i)}
<1>2. n \in Nat /\ n \in 0..n
  BY ExpertsAssumption
<1>3. Kept(0)
  <2>1. Before(0) = {} /\ DOMAIN <<>> = {}
    OBVIOUS
  <2>2. QED
    BY <1>1, <2>1, EmptyElements DEF Groups
<1>4. ASSUME NEW i \in 1..n, Kept(i - 1) PROVE Kept(i)
  <2>1. h[i - 1] \in Seq(Local) /\ i - 1 \in Local
    BY <1>1 DEF Groups
  <2>2. Before(i) = Before(i - 1) \cup (IF layouts[i - 1] = l THEN {i - 1} ELSE {})
    <3>1. 0..(i - 1) = (0..((i - 1) - 1)) \cup {i - 1}
      BY <1>2
    <3>2. QED
      BY <3>1
  <2>3. CASE layouts[i - 1] = l
    <3>1. h[i] = Append(h[i - 1], i - 1)
      BY <1>1, <2>3 DEF Groups
    <3>2. ToSet(h[i]) = ToSet(h[i - 1]) \cup {i - 1}
      BY <2>1, <3>1, AppendElement
    <3>3. Ordered(h[i])
      <4>1. /\ Len(h[i - 1]) \in Nat /\ DOMAIN h[i - 1] = 1..Len(h[i - 1]) /\ DOMAIN h[i] = 1..(Len(h[i - 1]) + 1)
            /\ h[i][Len(h[i - 1]) + 1] = i - 1
            /\ \A k \in 1..Len(h[i - 1]) : h[i][k] = h[i - 1][k]
        BY <2>1, <3>1, AppendProperties, LenProperties
      <4>2. \A k \in 1..Len(h[i - 1]) : h[i - 1][k] < i - 1
        <5>1. \A x \in Before(i - 1) : x < i - 1
          BY <1>2
        <5>2. \A k \in 1..Len(h[i - 1]) : h[i - 1][k] \in ToSet(h[i - 1])
          BY <4>1 DEF ToSet
        <5> HIDE DEF Before
        <5>3. QED
          BY <1>4, <5>1, <5>2
      <4> HIDE DEF Before
      <4>3. ASSUME NEW j \in DOMAIN h[i], NEW k \in DOMAIN h[i], j < k PROVE h[i][j] < h[i][k]
        <5>1. j \in 1..Len(h[i - 1])
          BY <4>1, <4>3
        <5>2. CASE k \in 1..Len(h[i - 1])
          BY <1>4, <4>1, <4>3, <5>1, <5>2
        <5>3. CASE k = Len(h[i - 1]) + 1
          BY <4>1, <4>2, <5>1, <5>3
        <5>4. QED
          BY <4>1, <4>3, <5>2, <5>3
      <4>4. QED
        BY <4>3
    <3> HIDE DEF Before, Ordered
    <3>4. QED
      BY <1>4, <2>2, <2>3, <3>2, <3>3
  <2>4. CASE layouts[i - 1] # l
    <3>1. h[i] = h[i - 1]
      BY <1>1, <2>4 DEF Groups
    <3> HIDE DEF Before, Ordered
    <3>2. QED
      BY <1>4, <2>2, <2>4, <3>1
  <2>5. QED
    BY <2>3, <2>4
<1> HIDE DEF Kept
<1>5. 0 \in T /\ \A i \in 1..n : i - 1 \in T => i \in T
  <2>1. 0 \in 0..n /\ \A i \in 1..n : i \in 0..n
    BY <1>2
  <2>2. QED
    BY <1>3, <1>4, <2>1
<1> HIDE DEF T
<1>6. n \in T
  BY <1>2, <1>5, StepsInduct
<1>7. Kept(n)
  BY <1>6 DEF T
<1>8. Before(n) = {e \in Local : layouts[e] = l}
  BY DEF Local
<1>9. QED
  BY <1>1, <1>7, <1>8 DEF Kept

-----------------------------------------------------------------------------
(* What a sealed store serves.                                             *)

\* The format gives every tensor one codebook; a pack of a store that marks a tensor with
\* two, of which one is delivered, is not told apart from that.
OneMarkerPacks ==
    \A u \in Units : LoadsStore(u) =>
        \A t \in DOMAIN u.load.pack : \A m, n \in u.load.pack[t].codebook : m = n

\* The handle of a lane is made of all the tensors of one checkpoint tensor.
LEMMA HandleWhole ==
    ASSUME OneMarkerPacks, StoreInv, sealed, NEW lane \in Bank!Bank
    PROVE  \E t \in DOMAIN store.pack :
               /\ lane = <<LocalOf[store.placement][t[1]], t[2]>> /\ LocalOf[store.placement][t[1]] # Remote
               /\ inners[lane] = {t \o <<s>> : s \in Parts(t)} /\ Cardinality(store.pack[t].codebook) = 1
<1>1. /\ store # NotAsked /\ StoreKnown /\ \A key \in DOMAIN payload : Filed(payload[key], key)
      /\ Bank!LaneGood(lane) /\ inners[lane] = Bank!HandleOf(lane)
  BY DEF StoreInv, BankBuilt, PayloadFits
<1>2. lane = <<lane[1], lane[2]>> /\ \A s : lane \o <<s>> = <<lane[1], lane[2], s>>
  <2>1. lane = <<lane[1], lane[2]>>
    BY DEF Bank!Bank
  <2>2. QED
    BY <2>1, PairAnd
<1>3. /\ \A s \in {"trellis", "suh", "svh"} : lane \o <<s>> \in DOMAIN payload
      /\ Cardinality(Bank!Markers(lane)) = 1
  BY <1>1 DEF Bank!LaneGood, Bank!Cardinality, Cardinality
<1>4. PICK m \in Codebooks : lane \o <<m>> \in DOMAIN payload
  <2>1. Bank!Markers(lane) # {}
    BY <1>3, FS_EmptySet
  <2>2. QED
    BY <2>1 DEF Bank!Markers, Codebooks
<1> DEFINE key(s) == <<lane[1], lane[2], s>>
<1>5. \A s : key(s)[1] = lane[1] /\ key(s)[2] = lane[2] /\ key(s)[3] = s
  OBVIOUS
<1>6. \A s \in {"trellis", "suh", "svh", m} : key(s) \in DOMAIN payload /\ Filed(payload[key(s)], key(s))
  BY <1>1, <1>2, <1>3, <1>4
<1>7. PICK t \in DOMAIN store.pack : \E s \in Parts(t) :
          /\ payload[key(m)] = t \o <<s>> /\ LocalOf[store.placement][t[1]] # Remote
          /\ key(m) = <<LocalOf[store.placement][t[1]], t[2], s>>
  BY <1>6 DEF Filed
<1>8. /\ LocalOf[store.placement][t[1]] # Remote /\ lane[1] = LocalOf[store.placement][t[1]] /\ lane[2] = t[2]
      /\ m \in Parts(t)
  <2>1. PICK s \in Parts(t) : /\ LocalOf[store.placement][t[1]] # Remote
                              /\ key(m) = <<LocalOf[store.placement][t[1]], t[2], s>>
    BY <1>7
  <2>2. s = m
    BY <2>1
  <2>3. QED
    BY <2>1, <2>2
<1>9. lane = <<LocalOf[store.placement][t[1]], t[2]>>
  BY <1>2, <1>8
<1>10. ASSUME NEW k \in DOMAIN payload, k[1] = lane[1], k[2] = lane[2]
       PROVE  payload[k] = t \o <<k[3]>> /\ k[3] \in Parts(t) /\ k = key(k[3])
  <2>1. Filed(payload[k], k) /\ Filed(payload[key(m)], key(m))
    BY <1>1, <1>6
  <2>2. PICK r \in DOMAIN store.pack : payload[k] = r \o <<k[3]>> /\ payload[key(m)] = r \o <<m>> /\ k[3] \in Parts(r)
    <3>1. k[1] = key(m)[1] /\ k[2] = key(m)[2] /\ key(m)[3] = m
      BY <1>10
    <3>2. PICK l, y, x : l = key(m) /\ y = payload[key(m)] /\ x = payload[k]
      OBVIOUS
    <3>3. /\ StoreKnown /\ store # NotAsked /\ Filed(x, k) /\ Filed(y, l)
          /\ k[1] = l[1] /\ k[2] = l[2] /\ l[3] = m
      BY <1>1, <2>1, <3>1, <3>2
    <3>4. \E r \in DOMAIN store.pack : x = r \o <<k[3]>> /\ y = r \o <<l[3]>> /\ k[3] \in Parts(r) /\ l[3] \in Parts(r)
      BY <3>3, FiledApart
    <3>5. QED
      BY <3>2, <3>3, <3>4
  <2>3. payload[key(m)] = t \o <<m>>
    <3>1. PICK s \in Parts(t) : payload[key(m)] = t \o <<s>> /\ key(m) = <<LocalOf[store.placement][t[1]], t[2], s>>
      BY <1>7
    <3>2. s = m
      BY <3>1
    <3>3. QED
      BY <3>1, <3>2
  <2>4. /\ r = <<r[1], r[2]>> /\ t = <<t[1], t[2]>>
        /\ r \o <<m>> = <<r[1], r[2], m>> /\ t \o <<m>> = <<t[1], t[2], m>>
    BY <1>1, StoreFacts
  <2>5. r = t
    <3>1. <<r[1], r[2], m>> = <<t[1], t[2], m>>
      BY <2>2, <2>3, <2>4
    <3>2. r[1] = t[1] /\ r[2] = t[2]
      BY <3>1
    <3>3. QED
      BY <2>4, <3>2
  <2>6. k = key(k[3])
    <3>1. PICK a, b, c : k = <<a, b, c>>
      BY <2>1 DEF Filed
    <3>2. QED
      BY <1>10, <3>1
  <2>7. QED
    BY <2>2, <2>5, <2>6
<1>11. \A s \in Parts(t) : s \in {"trellis", "suh", "svh", m}
  <2>1. m \in store.pack[t].codebook
    BY <1>4, <1>8 DEF Parts, Codebooks
  <2>2. PICK u \in Units : LoadsStore(u) /\ store = u.load
    BY <1>1 DEF StoreKnown
  <2>3. \A n \in store.pack[t].codebook : n = m
    BY <2>1, <2>2 DEF OneMarkerPacks
  <2>4. QED
    BY <2>3 DEF Parts
<1>12. Bank!HandleOf(lane) = {t \o <<s>> : s \in Parts(t)}
  <2>1. ASSUME NEW x \in Bank!HandleOf(lane) PROVE x \in {t \o <<s>> : s \in Parts(t)}
    <3>1. PICK k \in DOMAIN payload : x = payload[k] /\ <<k[1], k[2]>> = lane
      BY DEF Bank!HandleOf
    <3>2. k[1] = lane[1] /\ k[2] = lane[2]
      BY <1>2, <3>1
    <3>3. QED
      BY <1>10, <3>1, <3>2
  <2>2. ASSUME NEW s \in Parts(t) PROVE t \o <<s>> \in Bank!HandleOf(lane)
    <3>1. key(s) \in DOMAIN payload
      BY <1>6, <1>11
    <3>2. payload[key(s)] = t \o <<s>>
      BY <1>5, <1>10, <3>1
    <3>3. <<key(s)[1], key(s)[2]>> = lane
      BY <1>2, <1>5
    <3> HIDE DEF key
    <3>4. QED
      BY <3>1, <3>2, <3>3 DEF Bank!HandleOf
  <2>3. QED
    BY <2>1, <2>2
<1>13. Cardinality(store.pack[t].codebook) = 1
  <2>1. PICK u \in Units : LoadsStore(u) /\ store = u.load
    BY <1>1 DEF StoreKnown
  <2>2. store.pack[t].codebook = {m}
    BY <1>4, <1>8, <2>1 DEF OneMarkerPacks, Parts, Codebooks
  <2>3. QED
    BY <2>2, FS_Singleton
<1>14. QED
  BY <1>1, <1>8, <1>9, <1>12, <1>13

LEMMA StoreComplete ==
    ASSUME OneMarkerPacks, StoreInv
    PROVE  Bank!StoreAcceptedIsComplete
<1>1. SUFFICES ASSUME sstage = "ready", NEW lane \in Bank!Bank
      PROVE  /\ lane \in DOMAIN inners
             /\ \E t \in DOMAIN store.pack : inners[lane] = {t \o <<s>> : s \in Parts(t)}
                                             /\ Cardinality(store.pack[t].codebook) = 1
  BY DEF Bank!StoreAcceptedIsComplete, Bank!Sent, Parts, Bank!Cardinality, Cardinality
<1>2. sealed /\ lane \in DOMAIN inners
  BY <1>1 DEF StoreInv, BankBuilt
<1>3. QED
  BY <1>2, HandleWhole

LEMMA StoreOwn ==
    ASSUME OneMarkerPacks, StoreInv
    PROVE  Bank!StoreServesOwn
<1> SUFFICES ASSUME sstage = "ready" PROVE Bank!StoreServesOwn
  BY DEF Bank!StoreServesOwn
<1>1. sealed /\ store # NotAsked /\ StoreKnown /\ groups = Bank!GroupLayouts
  BY DEF StoreInv, BankBuilt
<1>2. ASSUME NEW t \in DOMAIN store.pack, Bank!Serves(t[1])
      PROVE  inners[<<Bank!At(emap, t[1]), t[2]>>] = {t \o <<s>> : s \in Parts(t)}
  <2>1. t = <<t[1], t[2]>> /\ t[1] \in Global /\ t[2] \in Projections /\ store.placement \in DOMAIN LocalOf
    BY <1>1, StoreFacts
  <2>2. emap = store.placement /\ LocalOf[store.placement][t[1]] # Remote
    BY <1>2 DEF Bank!Serves, Bank!MapKept, Bank!At
  <2> DEFINE lane == <<LocalOf[store.placement][t[1]], t[2]>>
  <2>3. lane \in Bank!Bank
    <3>1. LocalOf[store.placement][t[1]] \in 0..(NumExperts - 1)
      BY <2>1, <2>2, ExpertsAssumption
    <3>2. t[2] \in Bank!ToSet(Bank!StoreProjections)
      <4>1. /\ DOMAIN Bank!StoreProjections = 1..3 /\ Bank!StoreProjections[1] = "gate"
            /\ Bank!StoreProjections[2] = "up" /\ Bank!StoreProjections[3] = "down"
        BY DEF Bank!StoreProjections
      <4>2. QED
        BY <2>1, <4>1 DEF Projections, Bank!ToSet
    <3>3. QED
      BY <3>1, <3>2 DEF Bank!Bank, Bank!LocalExperts
  <2>4. PICK r \in DOMAIN store.pack :
            /\ lane = <<LocalOf[store.placement][r[1]], r[2]>> /\ LocalOf[store.placement][r[1]] # Remote
            /\ inners[lane] = {r \o <<s>> : s \in Parts(r)}
    BY <1>1, <2>3, HandleWhole
  <2>5. r = <<r[1], r[2]>> /\ r[1] \in Global
    BY <1>1, StoreFacts
  <2>6. LocalOf[store.placement][r[1]] = LocalOf[store.placement][t[1]] /\ r[2] = t[2]
    BY <2>4
  <2>7. r[1] = t[1]
    BY <2>1, <2>2, <2>5, <2>6, ExpertsAssumption
  <2>8. r = t
    BY <2>1, <2>5, <2>6, <2>7
  <2>9. QED
    BY <2>2, <2>4, <2>8 DEF Bank!At
<1>3. PICK layouts : layouts = [e \in Local |-> Bank!Layout(e)]
  OBVIOUS
<1>4. groups = [l \in {layouts[e] : e \in Local} |-> Bank!Members(layouts, l)]
  BY <1>1, <1>3 DEF Bank!GroupLayouts, Bank!LocalExperts, Local
<1>5. \A l \in DOMAIN groups : /\ groups[l] = Bank!Members(layouts, l)
                               /\ Bank!ToSet(groups[l]) = {e \in Local : layouts[e] = l}
                               /\ \A i, j \in DOMAIN groups[l] : i < j => groups[l][i] < groups[l][j]
  <2>1. ASSUME NEW l \in DOMAIN groups
        PROVE  /\ groups[l] = Bank!Members(layouts, l)
               /\ Bank!ToSet(groups[l]) = {e \in Local : layouts[e] = l}
               /\ \A i, j \in DOMAIN groups[l] : i < j => groups[l][i] < groups[l][j]
    <3>1. groups[l] = Bank!Members(layouts, l)
      BY <1>4
    <3>2. Bank!ToSet(groups[l]) = ToSet(groups[l])
      BY DEF Bank!ToSet, ToSet
    <3>3. QED
      BY <3>1, <3>2, GroupMembers
  <2>2. QED
    BY <2>1
<1>6. ASSUME NEW e \in Local
      PROVE  \E l \in DOMAIN groups :
                 /\ e \in Bank!ToSet(groups[l]) /\ l = Bank!Layout(e)
                 /\ \A other \in DOMAIN groups \ {l} : e \notin Bank!ToSet(groups[other])
  <2>1. layouts[e] \in DOMAIN groups /\ layouts[e] = Bank!Layout(e)
    BY <1>3, <1>4
  <2>2. e \in Bank!ToSet(groups[layouts[e]]) /\ \A other \in DOMAIN groups \ {layouts[e]} : e \notin Bank!ToSet(groups[other])
    BY <1>5, <2>1
  <2>3. QED
    BY <2>1, <2>2
<1>7. /\ \A t \in DOMAIN store.pack : Bank!Serves(t[1]) =>
            inners[<<Bank!At(emap, t[1]), t[2]>>] = {t \o <<s>> : s \in Bank!Sent(t)}
      /\ Bank!LocalExperts = Local
  BY <1>2 DEF Bank!Sent, Parts, Bank!LocalExperts, Local
<1>8. QED
  BY <1>5, <1>6, <1>7 DEF Bank!StoreServesOwn

-----------------------------------------------------------------------------
(* Dense layers.                                                           *)

\* A sequence of shards that one tensor is delivered for.
Whole(shards) ==
    /\ shards \in Seq(Linear!Shards) /\ shards # <<>>
    /\ Linear!NumShards = 1 \/ Len(shards) = 1 \/ layer.named \/ ToSet(shards) = Linear!Shards
DenseFits ==
    /\ Linear!NumShards \in Nat \ {0}
    /\ layer.together = <<>> \/ Whole(layer.together)
    /\ \A i \in Linear!Shards : layer.codebook[i] \subseteq Codebooks
Spanned(t) == ToSet(Linear!Span(t))

\* What is in a parameter was delivered, and a marker that was delivered is set.
ShapeFits(p) ==
    /\ {"trellis", "suh", "svh", "marker", "rows", "payload", "scale"} \subseteq DOMAIN p
    /\ DOMAIN p.trellis = Linear!Shards /\ DOMAIN p.marker = Linear!Shards
    /\ DOMAIN p.payload = Linear!IndexerShards /\ DOMAIN p.scale = Linear!IndexerShards
Known(p, D) ==
    /\ ShapeFits(p)
    /\ \A i \in Linear!Shards : p.trellis[i] # Linear!Missing => \E t \in D : t.suffix = "trellis" /\ i \in Spanned(t)
    /\ \A i \in Linear!IndexerShards :
          /\ p.payload[i] # Linear!Missing => \E t \in D : t.suffix = "weight" /\ i \in Spanned(t)
          /\ p.scale[i] # Linear!Missing => \E t \in D : t.suffix = "weight_scale" /\ t.id[1] = i
    /\ \A i \in Linear!Shards : \A kind \in p.marker[i] :
          kind \in Codebooks /\ \E t \in D : t.suffix = kind /\ i \in Spanned(t)
Marked(p, D) ==
    \A t \in D : t.suffix \in Codebooks => \A i \in Spanned(t) \ Linear!IndexerShards : t.suffix \in p.marker[i]

DenseInv ==
    LoadsLinear(unit) =>
        /\ DenseFits /\ given \subseteq Linear!Checkpoint /\ Linear!LinearAcceptedIsComplete
        /\ stage = "new" => given = {}
        /\ stage = "loading" => Known(param, given) /\ Marked(param, given)

\* The shards of a tensor are those it was made of.
LEMMA SpanFacts ==
    ASSUME DenseFits, NEW shards, Whole(shards), NEW suffix, NEW value
    PROVE  LET t == Linear!Tensor(suffix, shards, value)
           IN  /\ t.suffix = suffix /\ Linear!Span(t) \in Seq(Linear!Shards)
               /\ Spanned(t) \subseteq ToSet(shards)
               /\ suffix \in Codebooks => Spanned(t) = ToSet(shards)
               /\ t.id = shards \/ (t.id = <<>> /\ ToSet(shards) = Linear!Shards)
<1> DEFINE t == Linear!Tensor(suffix, shards, value)
           all == [i \in Linear!Shards |-> i]
<1>1. t.suffix = suffix
      /\ t.id = IF Linear!NumShards = 1 \/ (Len(shards) > 1 /\ ~layer.named) THEN <<>> ELSE shards
  BY DEF Linear!Tensor
<1>2. Linear!Shards = 1..Linear!NumShards /\ Linear!NumShards \in Nat \ {0} /\ 1 \in Linear!Shards
  BY DEF DenseFits, Linear!Shards
<1>3. /\ shards \in Seq(Linear!Shards) /\ Len(shards) \in Nat \ {0} /\ DOMAIN shards = 1..Len(shards)
      /\ Linear!NumShards = 1 \/ Len(shards) = 1 \/ layer.named \/ ToSet(shards) = Linear!Shards
  BY EmptySeq, LenProperties DEF Whole
<1>4. all \in Seq(Linear!Shards) /\ ToSet(all) = Linear!Shards
      /\ <<1>> \in Seq(Linear!Shards) /\ ToSet(<<1>>) = {1}
  BY <1>2 DEF ToSet
<1>5. ToSet(shards) \subseteq Linear!Shards /\ shards[1] \in ToSet(shards)
  BY <1>3 DEF ToSet
<1>6. Linear!Span(t) = IF /\ t.id = <<>> /\ Linear!NumShards > 1
                          /\ (t.suffix \in Linear!PerInput \/ (Len(t.cols) = Linear!Total /\ Len(t.cols) # Linear!Sizes[1]))
                       THEN all ELSE IF t.id = <<>> THEN <<1>> ELSE t.id
  BY DEF Linear!Span
<1> HIDE DEF all, t
<1>7. CASE t.id = <<>>
  <2>1. ToSet(shards) = Linear!Shards
    <3>1. CASE Linear!NumShards = 1
      BY <1>2, <1>5, <3>1
    <3>2. CASE Len(shards) > 1 /\ ~layer.named /\ Linear!NumShards # 1
      BY <1>3, <3>2
    <3>3. QED
      BY <1>1, <1>3, <1>7, <3>1, <3>2
  <2>2. Linear!Span(t) = all \/ Linear!Span(t) = <<1>>
    BY <1>6, <1>7
  <2>3. ASSUME suffix \in Codebooks PROVE Linear!NumShards = 1 \/ Linear!Span(t) = all
    BY <1>1, <1>2, <1>6, <1>7, <2>3 DEF Linear!PerInput, Codebooks
  <2>4. Linear!NumShards = 1 => Linear!Shards = {1}
    BY <1>2
  <2>5. Spanned(t) \subseteq ToSet(shards) /\ Linear!Span(t) \in Seq(Linear!Shards)
    BY <1>2, <1>4, <2>1, <2>2 DEF Spanned
  <2>6. suffix \in Codebooks => Spanned(t) = ToSet(shards)
    BY <1>4, <2>1, <2>2, <2>3, <2>4 DEF Spanned
  <2>7. QED
    BY <1>1, <1>7, <2>1, <2>5, <2>6 DEF t
<1>8. CASE t.id # <<>>
  <2>1. t.id = shards /\ Linear!Span(t) = shards
    BY <1>1, <1>6, <1>8
  <2>2. QED
    BY <1>1, <1>3, <2>1 DEF Spanned, t
<1>9. QED
  BY <1>7, <1>8 DEF t

\* The groups that the shards come in are disjoint.
LEMMA GroupFacts ==
    ASSUME DenseFits
    PROVE  /\ \A g \in Linear!Groups : Whole(g) /\ g[1] \in ToSet(g) /\ g[1] \in Linear!Shards
           /\ \A g, other \in Linear!Groups : g[1] \in ToSet(other) => g = other
<1>1. Linear!NumShards \in Nat \ {0} /\ (layer.together = <<>> \/ Whole(layer.together))
  BY DEF DenseFits
<1>2. ASSUME NEW i \in Linear!Shards PROVE Whole(<<i>>) /\ ToSet(<<i>>) = {i} /\ <<i>>[1] = i
  BY DEF Whole, ToSet
<1>3. ASSUME NEW g \in Linear!Groups
      PROVE  \/ \E i \in Linear!Shards : i \notin ToSet(layer.together) /\ g = <<i>>
             \/ layer.together # <<>> /\ g = layer.together
  BY DEF Linear!Groups, Linear!ToSet, ToSet
<1>4. ASSUME NEW g \in Linear!Groups PROVE Whole(g) /\ g[1] \in ToSet(g) /\ g[1] \in Linear!Shards
  <2>1. Whole(g)
    BY <1>1, <1>2, <1>3
  <2>2. g \in Seq(Linear!Shards) /\ g # <<>> /\ Len(g) \in Nat /\ DOMAIN g = 1..Len(g) /\ Len(g) > 0
    BY <2>1, EmptySeq, LenProperties DEF Whole
  <2>3. g[1] \in ToSet(g) /\ g[1] \in Linear!Shards
    BY <2>2 DEF ToSet
  <2>4. QED
    BY <2>1, <2>3
<1>5. ASSUME NEW g \in Linear!Groups, NEW other \in Linear!Groups, g[1] \in ToSet(other) PROVE g = other
  <2>1. CASE layer.together # <<>> /\ other = layer.together
    BY <1>2, <1>3, <1>5, <2>1
  <2>2. ASSUME NEW i \in Linear!Shards, i \notin ToSet(layer.together), other = <<i>> PROVE g = other
    <3>1. g[1] = i
      BY <1>2, <1>5, <2>2
    <3>2. CASE layer.together # <<>> /\ g = layer.together
      BY <1>4, <2>2, <3>1, <3>2
    <3>3. ASSUME NEW j \in Linear!Shards, g = <<j>> PROVE g = other
      <4>1. g[1] = j
        BY <1>2, <3>3
      <4>2. QED
        BY <2>2, <3>1, <3>3, <4>1
    <3>4. QED
      BY <1>3, <3>2, <3>3
  <2>3. QED
    BY <1>3, <2>1, <2>2
<1>6. QED
  BY <1>4, <1>5

\* Where a tensor of the checkpoint is from.
LEMMA TensorFacts ==
    ASSUME DenseFits, NEW t \in Linear!Checkpoint
    PROVE  /\ Linear!Span(t) \in Seq(Linear!Shards)
           /\ t.suffix \in {"trellis", "suh", "svh", "weight", "weight_scale"} \cup Codebooks
           /\ \E g \in Linear!Groups :
                 /\ t \in Linear!TensorsOf(g) /\ Spanned(t) \subseteq ToSet(g)
                 /\ t.suffix \in Codebooks => Spanned(t) = ToSet(g)
                 /\ t.suffix = "trellis" => t = Linear!Tensor("trellis", g, layer.depth[g[1]])
                 /\ t.suffix \in Codebooks => t = Linear!Tensor(t.suffix, g, 0)
                 /\ t.suffix = "weight_scale" /\ t.id[1] \in Linear!Shards => t.id[1] \in ToSet(g)
                 /\ g[1] \in Linear!IndexerShards /\ t.suffix = "weight" => t = Linear!Tensor("weight", g, 0)
<1>1. PICK g \in Linear!Groups : t \in Linear!TensorsOf(g)
  BY DEF Linear!Checkpoint
<1>2. Whole(g) /\ g[1] \in Linear!Shards /\ layer.codebook[g[1]] \subseteq Codebooks
  BY GroupFacts DEF DenseFits
<1>3. \/ \E suffix, value : t = Linear!Tensor(suffix, g, value) /\
            \/ suffix = "trellis" /\ value = layer.depth[g[1]]
            \/ suffix \in {"weight", "weight_scale", "suh", "svh"}
            \/ suffix \in Codebooks /\ value = 0
      \/ g[1] \notin Linear!IndexerShards /\ \E i \in ToSet(g) : t = Linear!Tensor("weight", <<i>>, 0)
  BY <1>1, <1>2 DEF Linear!TensorsOf, Linear!Exl3Tensors, Linear!ToSet, ToSet
<1>4. g[1] \in Linear!IndexerShards /\ t.suffix = "weight" => t = Linear!Tensor("weight", g, 0)
  <2>1. \A value : Linear!Tensor("weight_scale", g, value).suffix # "weight"
    BY DEF Linear!Tensor
  <2>2. QED
    BY <1>1, <2>1 DEF Linear!TensorsOf
<1>5. ASSUME NEW suffix, NEW value, t = Linear!Tensor(suffix, g, value)
      PROVE  /\ t.suffix = suffix /\ Linear!Span(t) \in Seq(Linear!Shards)
             /\ Spanned(t) \subseteq ToSet(g) /\ (suffix \in Codebooks => Spanned(t) = ToSet(g))
             /\ t.id = g \/ (t.id = <<>> /\ ToSet(g) = Linear!Shards)
  BY <1>2, <1>5, SpanFacts
<1>6. CASE \E suffix, value : t = Linear!Tensor(suffix, g, value) /\
              \/ suffix = "trellis" /\ value = layer.depth[g[1]]
              \/ suffix \in {"weight", "weight_scale", "suh", "svh"}
              \/ suffix \in Codebooks /\ value = 0
  <2>1. PICK suffix, value : t = Linear!Tensor(suffix, g, value) /\
              \/ suffix = "trellis" /\ value = layer.depth[g[1]]
              \/ suffix \in {"weight", "weight_scale", "suh", "svh"}
              \/ suffix \in Codebooks /\ value = 0
    BY <1>6
  <2>2. t.suffix = suffix /\ Linear!Span(t) \in Seq(Linear!Shards) /\ Spanned(t) \subseteq ToSet(g)
        /\ (suffix \in Codebooks => Spanned(t) = ToSet(g))
        /\ (t.id = g \/ (t.id = <<>> /\ ToSet(g) = Linear!Shards))
    BY <1>5, <2>1
  <2>3. t.id[1] \in Linear!Shards => t.id[1] \in ToSet(g)
    BY <2>2, GroupFacts
  <2>4. QED
    BY <1>1, <1>4, <2>1, <2>2, <2>3 DEF Codebooks
<1>7. ASSUME g[1] \notin Linear!IndexerShards, NEW i \in ToSet(g), t = Linear!Tensor("weight", <<i>>, 0)
      PROVE  t.suffix = "weight" /\ Linear!Span(t) \in Seq(Linear!Shards) /\ Spanned(t) \subseteq ToSet(g)
  <2>1. i \in Linear!Shards
    BY <1>2, <1>7, LenProperties DEF Whole, ToSet
  <2>2. Whole(<<i>>) /\ ToSet(<<i>>) = {i}
    BY <2>1 DEF Whole, ToSet
  <2>3. t.suffix = "weight" /\ Linear!Span(t) \in Seq(Linear!Shards) /\ Spanned(t) \subseteq ToSet(<<i>>)
    BY <1>7, <2>2, SpanFacts
  <2>4. QED
    BY <1>7, <2>2, <2>3
<1>8. CASE g[1] \notin Linear!IndexerShards /\ \E i \in ToSet(g) : t = Linear!Tensor("weight", <<i>>, 0)
  <2>1. t.suffix = "weight" /\ Linear!Span(t) \in Seq(Linear!Shards) /\ Spanned(t) \subseteq ToSet(g)
    BY <1>7, <1>8
  <2>2. QED
    BY <1>1, <1>8, <2>1 DEF Codebooks
<1>9. QED
  BY <1>3, <1>6, <1>8

\* One piece of a tensor.
LEMMA PieceStep ==
    ASSUME NEW p, NEW D, NEW t \in D, Known(p, D), NEW n, Linear!Span(t)[n] \in Spanned(t),
           Linear!Span(t)[n] \in Linear!Shards, t.suffix \in {"trellis", "suh", "svh", "weight"} \cup Codebooks,
           NEW r, r = Linear!LoadPiece(p, Linear!Piece(t, n)), r # Linear!Refused
    PROVE  /\ Known(r, D)
           /\ \A i \in Linear!Shards : \A kind \in p.marker[i] : kind \in r.marker[i]
           /\ t.suffix \in Codebooks /\ Linear!Span(t)[n] \notin Linear!IndexerShards
                 => t.suffix \in r.marker[Linear!Span(t)[n]]
<1>1. PICK q, i : q = Linear!Piece(t, n) /\ i = Linear!Span(t)[n]
  OBVIOUS
<1>2. q.shard = i /\ q.suffix = t.suffix /\ i \in Spanned(t) /\ i \in Linear!Shards
  BY <1>1 DEF Linear!Piece
<1>3. ShapeFits(p)
  BY DEF Known
<1>4. PICK c : c = Linear!Cut(q)
  OBVIOUS
<1>5. c.shard = i /\ c.suffix = t.suffix
  BY <1>1, <1>4 DEF Linear!Piece, Linear!Cut
<1>6. \/ /\ i \in Linear!IndexerShards /\ q.suffix = "weight" /\ r = [p EXCEPT !.payload[i] = q.cols]
      \/ /\ i \notin Linear!IndexerShards /\ q.suffix \in Codebooks /\ r = [p EXCEPT !.marker[i] = @ \cup {q.suffix}]
      \/ /\ i \notin Linear!IndexerShards /\ q.suffix \notin Codebooks /\ Linear!Fits(p, c) /\ r = Linear!Stored(p, c)
  BY <1>1, <1>2, <1>4 DEF Linear!LoadPiece, Codebooks
<1>7. CASE i \in Linear!IndexerShards /\ q.suffix = "weight" /\ r = [p EXCEPT !.payload[i] = q.cols]
  <2>1. /\ DOMAIN r = DOMAIN p /\ r.trellis = p.trellis /\ r.marker = p.marker /\ r.scale = p.scale
        /\ DOMAIN r.payload = DOMAIN p.payload
        /\ \A j \in Linear!IndexerShards : j # i => r.payload[j] = p.payload[j]
    BY <1>3, <1>7 DEF ShapeFits
  <2>2. t.suffix = "weight" /\ "weight" \notin Codebooks
    BY <1>2, <1>7 DEF Codebooks
  <2>3. ShapeFits(r)
    BY <1>3, <2>1 DEF ShapeFits
  <2>4. QED
    BY <1>2, <1>7, <2>1, <2>2, <2>3 DEF Known
<1>8. CASE i \notin Linear!IndexerShards /\ q.suffix \in Codebooks /\ r = [p EXCEPT !.marker[i] = @ \cup {q.suffix}]
  <2>1. /\ DOMAIN r = DOMAIN p /\ r.trellis = p.trellis /\ r.payload = p.payload /\ r.scale = p.scale
        /\ DOMAIN r.marker = DOMAIN p.marker /\ r.marker[i] = p.marker[i] \cup {q.suffix}
        /\ \A j \in Linear!Shards : j # i => r.marker[j] = p.marker[j]
    BY <1>2, <1>3, <1>8 DEF ShapeFits
  <2>2. QED
    BY <1>1, <1>2, <1>8, <2>1 DEF Known, ShapeFits
<1>9. CASE i \notin Linear!IndexerShards /\ q.suffix \notin Codebooks /\ r = Linear!Stored(p, c)
  <2>1. CASE t.suffix = "trellis"
    <3>1. PICK x : r = [p EXCEPT !.trellis[i] = x]
      BY <1>5, <1>9, <2>1 DEF Linear!Stored
    <3>2. /\ DOMAIN r = DOMAIN p /\ r.marker = p.marker /\ r.payload = p.payload /\ r.scale = p.scale
          /\ DOMAIN r.trellis = DOMAIN p.trellis
          /\ \A j \in Linear!Shards : j # i => r.trellis[j] = p.trellis[j]
      BY <1>3, <3>1 DEF ShapeFits
    <3>3. QED
      BY <1>2, <1>9, <2>1, <3>2 DEF Known, ShapeFits
  <2>2. CASE t.suffix \in {"suh", "svh", "weight"}
    <3>1. /\ DOMAIN r = DOMAIN p /\ r.marker = p.marker /\ r.payload = p.payload /\ r.scale = p.scale
          /\ r.trellis = p.trellis
      BY <1>3, <1>5, <1>9, <2>2 DEF Linear!Stored, ShapeFits
    <3>2. QED
      BY <1>2, <1>9, <3>1 DEF Known, ShapeFits
  <2>3. QED
    BY <1>2, <1>9, <2>1, <2>2
<1>10. QED
  BY <1>6, <1>7, <1>8, <1>9

\* What is left of a parameter after one more piece.
After(p, t, n) == IF p = Linear!Refused THEN Linear!Refused ELSE Linear!LoadPiece(p, Linear!Piece(t, n))

\* A tensor is loaded piece by piece.
LEMMA PiecesRun ==
    ASSUME NEW t, NEW n \in Nat, n = Len(Linear!Span(t)), t.suffix # "weight_scale"
    PROVE  \E h : /\ h[0] = param /\ \A i \in 1..n : h[i] = After(h[i - 1], t, i)
                  /\ Linear!Loaded(t) = Linear!Refused \/ Linear!Loaded(t) = h[n]
<1> DEFINE s == [m \in 1..n |-> m]
           Op(p, m) == IF p = Linear!Refused THEN Linear!Refused ELSE Linear!LoadPiece(p, Linear!Piece(t, m))
           iter == CHOOSE f : f = [u \in SUBSET (DOMAIN s) |->
                                     IF u = {} THEN param ELSE Op(f[u \ {Max(u)}], s[Max(u)])]
           Solves(f, m) == \A u \in SUBSET (1..m) : f[u] = IF u = {} THEN param ELSE Op(f[u \ {Max(u)}], Max(u))
           Solvable(m) == \E f : Solves(f, m)
           S == {m \in Nat : Solvable(m)}
<1>1. Linear!Loaded(t) = Linear!Refused \/ Linear!Loaded(t) = iter[DOMAIN s]
  BY DEF Linear!Loaded, Linear!FoldLeft, Linear!MapThenFoldSet, Linear!Max, Max
<1>2. DOMAIN s = 1..n /\ \A m \in 1..n : s[m] = m
  OBVIOUS
<1> HIDE DEF Op, s
<1>3. Solvable(0)
  <2>1. SUBSET (1..0) = {{}}
    OBVIOUS
  <2>2. Solves([u \in SUBSET (1..0) |-> param], 0)
    BY <2>1
  <2>3. QED
    BY <2>2
<1>4. ASSUME NEW m \in Nat, Solvable(m) PROVE Solvable(m + 1)
  <2>1. PICK f : Solves(f, m)
    BY <1>4
  <2> DEFINE g == [u \in SUBSET (1..(m + 1)) |-> IF m + 1 \in u THEN Op(f[u \ {m + 1}], m + 1) ELSE f[u]]
  <2>2. ASSUME NEW u \in SUBSET (1..(m + 1))
        PROVE  u \ {m + 1} \in SUBSET (1..m) /\ (m + 1 \notin u => u \in SUBSET (1..m))
    OBVIOUS
  <2>3. ASSUME NEW u \in SUBSET (1..(m + 1)), m + 1 \in u PROVE Max(u) = m + 1
    <3>1. \A y \in u : m + 1 >= y
      OBVIOUS
    <3>2. \A x \in u : (\A y \in u : x >= y) => x = m + 1
      BY <2>3, <3>1
    <3>3. QED
      BY <2>3, <3>1, <3>2 DEF Max
  <2>4. ASSUME NEW u \in SUBSET (1..(m + 1))
        PROVE  g[u] = IF u = {} THEN param ELSE Op(g[u \ {Max(u)}], Max(u))
    <3>1. CASE m + 1 \in u
      <4>1. g[u \ {m + 1}] = f[u \ {m + 1}] /\ g[u] = Op(f[u \ {m + 1}], m + 1)
        BY <2>2, <3>1
      <4>2. QED
        BY <2>3, <3>1, <4>1
    <3>2. CASE m + 1 \notin u
      <4>1. u \in SUBSET (1..m) /\ g[u] = f[u]
        BY <2>2, <3>2
      <4>2. u \ {Max(u)} \in SUBSET (1..m) /\ m + 1 \notin u \ {Max(u)} /\ u \ {Max(u)} \in SUBSET (1..(m + 1))
        BY <3>2, <4>1
      <4>3. g[u \ {Max(u)}] = f[u \ {Max(u)}]
        BY <4>2
      <4>4. f[u] = IF u = {} THEN param ELSE Op(f[u \ {Max(u)}], Max(u))
        BY <2>1, <4>1
      <4>5. QED
        BY <4>1, <4>3, <4>4
    <3>3. QED
      BY <3>1, <3>2
  <2> HIDE DEF g
  <2>5. Solves(g, m + 1)
    BY <2>4
  <2>6. QED
    BY <2>5
<1> HIDE DEF Solvable
<1>5. 0 \in S /\ \A m \in Nat : m \in S => m + 1 \in S
  BY <1>3, <1>4
<1> HIDE DEF S
<1>6. n \in S
  BY <1>5, NatInduct
<1>7. PICK f : Solves(f, n)
  BY <1>6 DEF S, Solvable
<1> DEFINE g == [u \in SUBSET (1..n) |-> f[u]]
<1>8. g = [u \in SUBSET (1..n) |-> IF u = {} THEN param ELSE Op(g[u \ {Max(u)}], s[Max(u)])]
  <2>1. ASSUME NEW u \in SUBSET (1..n), u # {} PROVE Max(u) \in 1..n /\ g[u \ {Max(u)}] = f[u \ {Max(u)}]
    <3>1. Max(u) \in u
      BY <2>1, MaxIn
    <3>2. QED
      BY <3>1
  <2>2. \A u \in SUBSET (1..n) : f[u] = IF u = {} THEN param ELSE Op(g[u \ {Max(u)}], s[Max(u)])
    BY <1>2, <1>7, <2>1
  <2>3. QED
    BY <2>2
<1> HIDE DEF g
<1>9. iter = [u \in SUBSET (1..n) |-> IF u = {} THEN param ELSE Op(iter[u \ {Max(u)}], s[Max(u)])]
  <2>1. g = [u \in SUBSET (DOMAIN s) |-> IF u = {} THEN param ELSE Op(g[u \ {Max(u)}], s[Max(u)])]
    BY <1>2, <1>8
  <2>2. iter = [u \in SUBSET (DOMAIN s) |-> IF u = {} THEN param ELSE Op(iter[u \ {Max(u)}], s[Max(u)])]
    BY <2>1
  <2>3. QED
    BY <1>2, <2>2
<1> HIDE DEF iter
<1> DEFINE h == [i \in 0..n |-> iter[1..i]]
<1>10. h[0] = param /\ h[n] = iter[1..n]
  <2>1. 1..0 = {} /\ 0 \in 0..n /\ n \in 0..n
    OBVIOUS
  <2>2. QED
    BY <1>9, <2>1
<1>11. ASSUME NEW i \in 1..n PROVE h[i] = Op(h[i - 1], i)
  <2>1. /\ 1..i \in SUBSET (1..n) /\ 1..i # {} /\ Max(1..i) = i /\ (1..i) \ {Max(1..i)} = 1..(i - 1)
        /\ i \in 0..n /\ i - 1 \in 0..n
    BY UpTo
  <2>2. iter[1..i] = Op(iter[(1..i) \ {Max(1..i)}], s[Max(1..i)])
    BY <1>9, <2>1
  <2>3. iter[1..i] = Op(iter[1..(i - 1)], i)
    BY <1>2, <2>1, <2>2
  <2>4. QED
    BY <2>1, <2>3
<1> HIDE DEF h
<1>12. \A i \in 1..n : h[i] = After(h[i - 1], t, i)
  BY <1>11 DEF Op, After
<1>13. QED
  BY <1>1, <1>2, <1>10, <1>12

\* A tensor that is not refused is known, and its marker set.
LEMMA LoadedKnown ==
    ASSUME DenseFits, NEW D, D \subseteq Linear!Checkpoint, NEW t \in Linear!Checkpoint, Known(param, D), Marked(param, D),
           Linear!Loaded(t) # Linear!Refused
    PROVE  Known(Linear!Loaded(t), D \cup {t}) /\ Marked(Linear!Loaded(t), D \cup {t})
<1> DEFINE E == D \cup {t}
           span == Linear!Span(t)
<1>1. /\ span \in Seq(Linear!Shards) /\ Len(span) \in Nat /\ DOMAIN span = 1..Len(span)
      /\ t.suffix \in {"trellis", "suh", "svh", "weight", "weight_scale"} \cup Codebooks
  BY TensorFacts, LenProperties
<1>2. \A m \in 1..Len(span) : span[m] \in Spanned(t) /\ span[m] \in Linear!Shards
  BY <1>1 DEF Spanned, ToSet
<1>3. Known(param, E) /\ ShapeFits(param)
  BY DEF Known
<1>4. CASE t.suffix = "weight_scale"
  <2>1. /\ t.id[1] \in Linear!IndexerShards
        /\ \E x : Linear!Loaded(t) = [param EXCEPT !.scale[t.id[1]] = x]
    BY <1>4 DEF Linear!Loaded, Linear!LoadScale
  <2>2. PICK r, x : r = Linear!Loaded(t) /\ r = [param EXCEPT !.scale[t.id[1]] = x]
    BY <2>1
  <2>3. /\ DOMAIN r = DOMAIN param /\ r.trellis = param.trellis /\ r.marker = param.marker /\ r.payload = param.payload
        /\ DOMAIN r.scale = DOMAIN param.scale
        /\ \A j \in Linear!IndexerShards : j # t.id[1] => r.scale[j] = param.scale[j]
    BY <1>3, <2>1, <2>2 DEF ShapeFits
  <2>4. "weight_scale" \notin Codebooks
    BY DEF Codebooks
  <2>5. Marked(r, E)
    BY <1>4, <2>3, <2>4 DEF Marked
  <2>6. ShapeFits(r)
    BY <1>3, <2>3 DEF ShapeFits
  <2>7. Known(r, E)
    BY <1>3, <1>4, <2>3, <2>6 DEF Known
  <2>8. QED
    BY <2>2, <2>5, <2>7
<1>5. CASE t.suffix # "weight_scale"
  <2>1. PICK h : /\ h[0] = param /\ \A i \in 1..Len(span) : h[i] = After(h[i - 1], t, i)
                 /\ Linear!Loaded(t) = h[Len(span)]
    BY <1>1, <1>5, PiecesRun
  <2> DEFINE Good(i) == \/ h[i] = Linear!Refused
                        \/ /\ Known(h[i], E) /\ Marked(h[i], D)
                           /\ t.suffix \in Codebooks => \A m \in 1..i :
                                 span[m] \notin Linear!IndexerShards => t.suffix \in h[i].marker[span[m]]
             S == {i \in 0..Len(span) : Good(i)}
  <2> HIDE DEF span
  <2>2. Good(0)
    BY <1>3, <2>1
  <2>3. ASSUME NEW i \in 1..Len(span), Good(i - 1), h[i] # Linear!Refused PROVE Good(i)
    <3>1. h[i - 1] # Linear!Refused /\ h[i] = Linear!LoadPiece(h[i - 1], Linear!Piece(t, i))
      BY <2>1, <2>3 DEF After
    <3>2. /\ Known(h[i - 1], E) /\ Marked(h[i - 1], D)
          /\ t.suffix \in Codebooks => \A m \in 1..(i - 1) :
                span[m] \notin Linear!IndexerShards => t.suffix \in h[i - 1].marker[span[m]]
      BY <2>3, <3>1
    <3>3. PICK p, r : p = h[i - 1] /\ r = h[i]
      OBVIOUS
    <3>4. t \in E /\ Known(p, E) /\ span[i] \in Spanned(t) /\ span[i] \in Linear!Shards
          /\ t.suffix \in {"trellis", "suh", "svh", "weight"} \cup Codebooks
          /\ r = Linear!LoadPiece(p, Linear!Piece(t, i)) /\ r # Linear!Refused
      BY <1>1, <1>2, <1>5, <2>3, <3>1, <3>2, <3>3
    <3>5. /\ Known(r, E)
          /\ \A j \in Linear!Shards : \A kind \in p.marker[j] : kind \in r.marker[j]
          /\ t.suffix \in Codebooks /\ span[i] \notin Linear!IndexerShards => t.suffix \in r.marker[span[i]]
      <4> HIDE DEF E
      <4>1. QED
        BY <3>4, PieceStep DEF span
    <3>6. Marked(r, D)
      <4>1. \A x \in D : x.suffix \in Codebooks => \A j \in Spanned(x) \ Linear!IndexerShards : x.suffix \in p.marker[j]
        BY <3>2, <3>3 DEF Marked
      <4>2. ASSUME NEW x \in D, x.suffix \in Codebooks, NEW j \in Spanned(x) \ Linear!IndexerShards
            PROVE  x.suffix \in r.marker[j]
        <5>1. Linear!Span(x) \in Seq(Linear!Shards)
          BY <4>2, TensorFacts
        <5>2. j \in Linear!Shards
          BY <5>1, LenProperties DEF Spanned, ToSet
        <5>3. QED
          BY <3>5, <4>1, <4>2, <5>2
      <4>3. QED
        BY <4>2 DEF Marked
    <3>7. ASSUME t.suffix \in Codebooks, NEW m \in 1..i, span[m] \notin Linear!IndexerShards
          PROVE  t.suffix \in r.marker[span[m]]
      <4>1. CASE m = i
        BY <3>5, <3>7, <4>1
      <4>2. CASE m # i
        <5>1. m \in 1..(i - 1) /\ span[m] \in Linear!Shards
          BY <1>2, <4>2
        <5>2. QED
          BY <3>2, <3>3, <3>5, <3>7, <5>1
      <4>3. QED
        BY <4>1, <4>2
    <3>8. QED
      BY <3>3, <3>5, <3>6, <3>7
  <2> HIDE DEF Good
  <2>4. 0 \in S /\ \A i \in 1..Len(span) : i - 1 \in S => i \in S
    <3>1. 0 \in 0..Len(span) /\ \A i \in 1..Len(span) : i \in 0..Len(span)
      BY <1>1
    <3>2. \A i \in 1..Len(span) : h[i] = Linear!Refused => Good(i)
      BY DEF Good
    <3>3. QED
      BY <2>2, <2>3, <3>1, <3>2
  <2> HIDE DEF S
  <2>5. Len(span) \in S
    <3>1. PICK n : n = Len(span)
      OBVIOUS
    <3>2. n \in Nat /\ n \in 0..n /\ 0 \in S /\ \A i \in 1..n : i - 1 \in S => i \in S
      BY <1>1, <2>4, <3>1
    <3>3. n \in S
      BY <3>2, StepsInduct
    <3>4. QED
      BY <3>1, <3>3
  <2>6. Good(Len(span))
    BY <2>5 DEF S
  <2>7. PICK r : r = Linear!Loaded(t)
    OBVIOUS
  <2>8. /\ Known(r, E) /\ Marked(r, D)
        /\ t.suffix \in Codebooks => \A m \in 1..Len(span) :
              span[m] \notin Linear!IndexerShards => t.suffix \in r.marker[span[m]]
    BY <2>1, <2>6, <2>7 DEF Good
  <2>9. t.suffix \in Codebooks => \A i \in Spanned(t) \ Linear!IndexerShards : t.suffix \in r.marker[i]
    BY <1>1, <2>8 DEF Spanned, ToSet, span
  <2>10. Marked(r, E)
    BY <2>8, <2>9 DEF Marked
  <2>11. QED
    BY <2>7, <2>8, <2>10
<1>6. QED
  BY <1>4, <1>5

\* A parameter that has what the processing asks for has what the checkpoint has.
LEMMA KnownIsComplete ==
    ASSUME DenseFits, given \subseteq Linear!Checkpoint, Known(param, given), Marked(param, given),
           Linear!MarkersGood, Linear!TrellisesLoaded, Linear!IndexerLoaded, NEW g \in Linear!Groups
    PROVE  /\ Linear!Needed(g) \subseteq given
           /\ g[1] \in Linear!Exl3Shards => Linear!Cardinality(Linear!Markers(g) \cap given) = 1
<1>1. Whole(g) /\ g[1] \in ToSet(g) /\ g[1] \in Linear!Shards /\ layer.codebook[g[1]] \subseteq Codebooks
  BY GroupFacts DEF DenseFits
<1>2. \A suffix, value : Linear!Tensor(suffix, g, value).suffix = suffix
  BY DEF Linear!Tensor
<1>3. ASSUME NEW t \in given, g[1] \in Spanned(t)
      PROVE  /\ t.suffix = "trellis" => t = Linear!Tensor("trellis", g, layer.depth[g[1]])
             /\ t.suffix \in Codebooks => t = Linear!Tensor(t.suffix, g, 0)
             /\ g[1] \in Linear!IndexerShards /\ t.suffix = "weight" => t = Linear!Tensor("weight", g, 0)
  BY <1>3, TensorFacts, GroupFacts
<1>7. ASSUME g[1] \notin Linear!IndexerShards, NEW t \in Linear!TensorsOf(g)
      PROVE  \/ t.suffix = "weight"
             \/ /\ g[1] \notin Linear!ToSet(layer.bf16)
                /\ \/ t = Linear!Tensor("trellis", g, layer.depth[g[1]]) \/ t.suffix \in {"suh", "svh"}
                   \/ t.suffix \in Codebooks /\ t = Linear!Tensor(t.suffix, g, 0)
  <2>1. \A i : Linear!Tensor("weight", <<i>>, 0).suffix = "weight"
    BY DEF Linear!Tensor
  <2>2. CASE g[1] \in Linear!ToSet(layer.bf16)
    BY <1>2, <1>7, <2>2 DEF Linear!TensorsOf
  <2>3. CASE g[1] \notin Linear!ToSet(layer.bf16)
    <3>1. t \in Linear!Exl3Tensors(g) \/ \E i : t = Linear!Tensor("weight", <<i>>, 0)
      BY <1>7, <2>3 DEF Linear!TensorsOf
    <3>2. CASE t \in Linear!Exl3Tensors(g)
      <4>1. \/ t = Linear!Tensor("trellis", g, layer.depth[g[1]])
            \/ t = Linear!Tensor("suh", g, layer.suh[g[1]]) \/ t = Linear!Tensor("svh", g, 0)
            \/ \E kind \in layer.codebook[g[1]] : t = Linear!Tensor(kind, g, 0)
        BY <3>2 DEF Linear!Exl3Tensors
      <4>2. QED
        BY <1>1, <1>2, <2>3, <4>1
    <3>3. QED
      BY <2>1, <3>1, <3>2
  <2>4. QED
    BY <2>2, <2>3
<1>8. "trellis" \notin Codebooks /\ "weight" \notin Codebooks /\ "suh" \notin Codebooks /\ "svh" \notin Codebooks
      /\ "weight_scale" \notin Codebooks
  BY DEF Codebooks
<1>4. ASSUME NEW t \in Linear!Needed(g) PROVE t \in given
  <2>1. t \in Linear!TensorsOf(g) /\
          (t.suffix \in {"trellis", "weight_scale"} \/ (t.suffix = "weight" /\ g[1] \in Linear!IndexerShards))
    BY <1>4 DEF Linear!Needed
  <2>2. CASE g[1] \in Linear!IndexerShards
    <3>1. \/ t = Linear!Tensor("weight", g, 0)
          \/ t.suffix = "weight_scale"
      BY <1>2, <2>1, <2>2 DEF Linear!TensorsOf
    <3>2. CASE t = Linear!Tensor("weight", g, 0)
      <4>1. PICK u \in given : u.suffix = "weight" /\ g[1] \in Spanned(u)
        BY <2>2 DEF Linear!IndexerLoaded, Known
      <4>2. QED
        BY <1>3, <2>2, <3>2, <4>1
    <3>3. CASE t.suffix = "weight_scale"
      <4>1. PICK u \in given : u.suffix = "weight_scale" /\ u.id[1] = g[1]
        BY <2>2 DEF Linear!IndexerLoaded, Known
      <4>2. PICK other \in Linear!Groups : u \in Linear!TensorsOf(other) /\ u.id[1] \in ToSet(other)
        <5>1. u \in Linear!Checkpoint /\ u.id[1] \in Linear!Shards
          BY <1>1, <4>1
        <5>2. QED
          BY <4>1, <5>1, TensorFacts
      <4>3. other = g
        BY <4>1, <4>2, GroupFacts
      <4>4. \A x \in Linear!TensorsOf(g) : x.suffix = "weight_scale" =>
                x = Linear!Tensor("weight_scale", g, IF g[1] \in layer.misscaled THEN 1 ELSE 0)
        BY <1>2, <2>2 DEF Linear!TensorsOf
      <4>5. QED
        BY <2>1, <3>3, <4>1, <4>2, <4>3, <4>4
    <3>4. QED
      BY <3>1, <3>2, <3>3
  <2>3. CASE g[1] \notin Linear!IndexerShards
    <3>1. g[1] \notin Linear!ToSet(layer.bf16) /\ t.suffix = "trellis" /\ t = Linear!Tensor("trellis", g, layer.depth[g[1]])
      BY <1>2, <1>7, <1>8, <2>1, <2>3
    <3>2. PICK u \in given : u.suffix = "trellis" /\ g[1] \in Spanned(u)
      BY <1>1, <2>3, <3>1 DEF Linear!TrellisesLoaded, Linear!Exl3Shards, Known
    <3>3. QED
      BY <1>3, <3>1, <3>2
  <2>4. QED
    BY <2>2, <2>3
<1>5. ASSUME g[1] \in Linear!Exl3Shards PROVE Linear!Cardinality(Linear!Markers(g) \cap given) = 1
  <2>1. g[1] \notin Linear!IndexerShards /\ g[1] \notin Linear!ToSet(layer.bf16)
    BY <1>5 DEF Linear!Exl3Shards
  <2>2. Cardinality(param.marker[g[1]]) = 1
    BY <1>5 DEF Linear!MarkersGood, Linear!Cardinality, Cardinality
  <2>3. PICK kind : param.marker[g[1]] = {kind}
    <3>1. param.marker[g[1]] \subseteq {"mcg", "mul1"}
      BY <1>1 DEF Known, Codebooks
    <3>2. IsFiniteSet({"mcg"}) /\ {"mcg", "mul1"} = {"mcg"} \cup {"mul1"}
      BY FS_Singleton
    <3>3. IsFiniteSet({"mcg", "mul1"})
      BY <3>2, FS_AddElement
    <3>4. IsFiniteSet(param.marker[g[1]])
      BY <3>1, <3>3, FS_Subset
    <3>5. QED
      BY <2>2, <3>4, FS_Singleton
  <2>4. PICK u \in given : kind \in Codebooks /\ u.suffix = kind /\ g[1] \in Spanned(u)
    BY <1>1, <2>3 DEF Known
  <2>5. u = Linear!Tensor(kind, g, 0)
    BY <1>3, <2>4
  <2>6. u \in Linear!Markers(g)
    <3>1. PICK other \in Linear!Groups : u \in Linear!TensorsOf(other) /\ Spanned(u) \subseteq ToSet(other)
      BY TensorFacts, <2>4
    <3>2. other = g
      BY <2>4, <3>1, GroupFacts
    <3>3. QED
      BY <2>4, <3>1, <3>2 DEF Linear!Markers, Codebooks
  <2>7. ASSUME NEW x \in Linear!Markers(g) \cap given PROVE x = u
    <3>1. x \in given /\ x \in Linear!TensorsOf(g) /\ x.suffix \in Codebooks
      BY <2>7 DEF Linear!Markers, Codebooks
    <3>2. Spanned(x) = ToSet(g)
      <4>1. x = Linear!Tensor(x.suffix, g, 0)
        BY <1>2, <1>7, <1>8, <2>1, <3>1
      <4>2. QED
        BY <1>1, <3>1, <4>1, SpanFacts
    <3>3. x.suffix \in param.marker[g[1]]
      BY <1>1, <2>1, <3>1, <3>2 DEF Marked
    <3>4. x.suffix = kind
      BY <2>3, <3>3
    <3>5. x = Linear!Tensor(x.suffix, g, 0)
      BY <1>1, <1>3, <3>1, <3>2
    <3>6. QED
      BY <2>5, <3>4, <3>5
  <2>8. Linear!Markers(g) \cap given = {u}
    BY <2>6, <2>7
  <2>9. Cardinality({u}) = 1
    BY FS_Singleton
  <2>10. Linear!Cardinality({u}) = Cardinality({u})
    BY DEF Linear!Cardinality, Cardinality
  <2>11. QED
    BY <2>8, <2>9, <2>10
<1>6. QED
  BY <1>4, <1>5

LEMMA DenseStarts == LayerInit => DenseInv
<1> SUFFICES ASSUME LayerInit, LoadsLinear(unit) PROVE DenseInv
  BY DEF DenseInv
<1>1. /\ unit \in Units /\ layer = [unit.load EXCEPT !.bf16 = Bf16ShardsOf(unit)]
      /\ stage = "new" /\ given = {}
  BY DEF LayerInit, Linear!LinearInit
<1>2. /\ {"parts", "together", "named", "codebook"} \subseteq DOMAIN unit.load
      /\ unit.load.parts \in Seq(Nat) /\ unit.load.parts # <<>>
      /\ unit.load.together \in Seq(DOMAIN unit.load.parts)
      /\ \A i \in DOMAIN unit.load.parts : unit.load.codebook[i] \subseteq Codebooks
      /\ ~unit.load.named /\ Len(unit.load.together) > 1 => ToSet(unit.load.together) = DOMAIN unit.load.parts
  BY <1>1, DenseAssumption DEF Codebooks, Range, ToSet
<1>3. /\ layer.parts = unit.load.parts /\ layer.together = unit.load.together /\ layer.named = unit.load.named
      /\ layer.codebook = unit.load.codebook
  BY <1>1, <1>2
<1>4. Linear!NumShards \in Nat \ {0} /\ Linear!Shards = DOMAIN layer.parts
  BY <1>2, <1>3, EmptySeq, LenProperties DEF Linear!NumShards, Linear!Shards
<1>5. layer.together = <<>> \/ Whole(layer.together)
  <2>1. layer.together \in Seq(Linear!Shards) /\ Len(layer.together) \in Nat
        /\ (layer.together # <<>> => Len(layer.together) # 0)
    BY <1>2, <1>3, <1>4, EmptySeq, LenProperties
  <2>2. CASE layer.together # <<>> /\ Len(layer.together) = 1
    BY <2>1, <2>2 DEF Whole
  <2>3. CASE layer.together # <<>> /\ Len(layer.together) > 1
    <3>1. layer.named \/ ToSet(layer.together) = Linear!Shards
      <4>1. unit.load.named \/ ToSet(layer.together) = Linear!Shards
        BY <1>2, <1>3, <1>4, <2>3
      <4>2. QED
        BY <1>3, <4>1, Zenon
    <3>2. QED
      BY <2>1, <2>3, <3>1 DEF Whole
  <2>4. PICK l : l = Len(layer.together)
    OBVIOUS
  <2>5. ASSUME layer.together # <<>> PROVE l = 1 \/ l > 1
    <3>1. l \in Nat /\ l # 0
      BY <2>1, <2>4, <2>5, Zenon
    <3>2. QED
      BY <3>1
  <2>6. QED
    BY <2>2, <2>3, <2>4, <2>5
<1>6. DenseFits
  BY <1>2, <1>3, <1>4, <1>5 DEF DenseFits
<1>7. QED
  BY <1>1, <1>6 DEF DenseInv, Linear!LinearAcceptedIsComplete

\* The layer stays as it was.
LEMMA DenseSame ==
    ASSUME UNCHANGED layer
    PROVE  /\ Linear!Checkpoint' = Linear!Checkpoint /\ Linear!Shards' = Linear!Shards
           /\ Linear!IndexerShards' = Linear!IndexerShards /\ Linear!Exl3Shards' = Linear!Exl3Shards
           /\ Linear!Groups' = Linear!Groups /\ (DenseFits => DenseFits')
           /\ \A t : Spanned(t)' = Spanned(t)
           /\ \A g : Linear!Needed(g)' = Linear!Needed(g) /\ Linear!Markers(g)' = Linear!Markers(g)
<1>1. /\ Linear!Shards' = Linear!Shards /\ Linear!NumShards' = Linear!NumShards
      /\ Linear!IndexerShards' = Linear!IndexerShards
  BY DEF Linear!Shards, Linear!NumShards, Linear!IndexerShards
<1>2. Linear!Exl3Shards' = Linear!Exl3Shards /\ Linear!Groups' = Linear!Groups
  BY <1>1 DEF Linear!Exl3Shards, Linear!Groups
<1>3. Linear!Total' = Linear!Total /\ Linear!Sizes' = Linear!Sizes
  BY <1>1 DEF Linear!Total, Linear!Sizes
<1>4. \A t : Spanned(t)' = Spanned(t)
  BY <1>1, <1>3 DEF Spanned, Linear!Span
<1>5. \A s, g, v : Linear!Tensor(s, g, v)' = Linear!Tensor(s, g, v)
  BY DEF Linear!Tensor, Linear!ColumnsOf, Linear!From, Linear!AllIns, Linear!InSize, Linear!NumShards
<1>6. \A g : Linear!TensorsOf(g)' = Linear!TensorsOf(g)
  BY <1>1, <1>5 DEF Linear!TensorsOf, Linear!Exl3Tensors
<1>7. Linear!Checkpoint' = Linear!Checkpoint
  BY <1>2, <1>6 DEF Linear!Checkpoint
<1>8. \A g : Linear!Needed(g)' = Linear!Needed(g) /\ Linear!Markers(g)' = Linear!Markers(g)
  BY <1>1, <1>6 DEF Linear!Needed, Linear!Markers
<1>9. \A g : Whole(g)' = Whole(g)
  BY <1>1 DEF Whole
<1>10. DenseFits => DenseFits'
  BY <1>1, <1>9 DEF DenseFits
<1>11. QED
  BY <1>1, <1>2, <1>4, <1>7, <1>8, <1>10

LEMMA KnownSame ==
    ASSUME UNCHANGED layer, NEW p, NEW D, Known(p, D), Marked(p, D), param' = p, given' = D
    PROVE  Known(param, given)' /\ Marked(param, given)'
<1>1. /\ Linear!Shards' = Linear!Shards /\ Linear!IndexerShards' = Linear!IndexerShards
      /\ \A t : Spanned(t)' = Spanned(t)
  BY DenseSame
<1>2. QED
  BY <1>1 DEF Known, Marked, ShapeFits, Linear!Missing

LEMMA DenseSteps == DenseInv /\ [LayerNext]_layerVars => DenseInv'
<1> SUFFICES ASSUME DenseInv, [LayerNext]_layerVars, LoadsLinear(unit) PROVE DenseInv'
  BY DEF DenseInv, LoadsLinear, Loads, LayerNext, LoadExperts, LoadLinear, LoadTable, LoadStore, layerVars
<1>1. /\ DenseFits /\ given \subseteq Linear!Checkpoint /\ Linear!LinearAcceptedIsComplete
      /\ stage = "new" => given = {}
      /\ stage = "loading" => Known(param, given) /\ Marked(param, given)
  BY DEF DenseInv
<1>2. UNCHANGED layer
  BY DEF LayerNext, LoadExperts, LoadLinear, LoadTable, LoadStore, layerVars, denseVars, Linear!LinearNext,
         Linear!Create, Linear!ProcessLinear, Linear!Deliver
<1>3. Linear!Checkpoint' = Linear!Checkpoint /\ DenseFits'
  BY <1>1, <1>2, DenseSame
<1>4. ASSUME UNCHANGED <<stage, given>> PROVE Linear!LinearAcceptedIsComplete'
  BY <1>1, <1>2, <1>4, DenseSame DEF Linear!LinearAcceptedIsComplete
<1>5. CASE UNCHANGED denseVars
  <2>1. UNCHANGED <<layer, stage, param, linears, given>>
    BY <1>5 DEF denseVars
  <2>2. stage = "loading" => Known(param, given)' /\ Marked(param, given)'
    BY <1>1, <2>1, KnownSame
  <2>3. QED
    BY <1>1, <1>3, <1>4, <2>1, <2>2 DEF DenseInv
<1>6. CASE Linear!Create
  <2>1. stage = "new" /\ UNCHANGED given /\ given = {} /\ stage' \in {"failed", "loading"}
    BY <1>1, <1>6 DEF Linear!Create
  <2>2. ASSUME stage' = "loading" PROVE Known(param, given)' /\ Marked(param, given)'
    <3>1. PICK p : p = Linear!EmptyParam
      OBVIOUS
    <3>2. param' = p
      BY <1>6, <2>2, <3>1 DEF Linear!Create
    <3>3. Known(p, {}) /\ Marked(p, {})
      BY <3>1 DEF Known, ShapeFits, Marked, Linear!EmptyParam
    <3>4. QED
      BY <1>2, <2>1, <3>2, <3>3, KnownSame
  <2>3. Linear!LinearAcceptedIsComplete'
    BY <2>1 DEF Linear!LinearAcceptedIsComplete
  <2>4. QED
    BY <1>3, <2>1, <2>2, <2>3 DEF DenseInv
<1>7. CASE Linear!ProcessLinear
  <2>1. stage = "loading" /\ UNCHANGED given /\ stage' \in {"failed", "ready"}
    BY <1>7 DEF Linear!ProcessLinear
  <2>2. ASSUME stage' = "ready", NEW g \in Linear!Groups
        PROVE  /\ Linear!Needed(g) \subseteq given
               /\ g[1] \in Linear!Exl3Shards => Linear!Cardinality(Linear!Markers(g) \cap given) = 1
    <3>1. Linear!MarkersGood /\ Linear!TrellisesLoaded /\ Linear!IndexerLoaded
      BY <1>7, <2>2 DEF Linear!ProcessLinear, Linear!IndexerGood
    <3>2. QED
      BY <1>1, <2>1, <3>1, KnownIsComplete
  <2>3. Linear!LinearAcceptedIsComplete'
    BY <1>2, <2>1, <2>2, DenseSame DEF Linear!LinearAcceptedIsComplete
  <2>4. QED
    BY <1>1, <1>3, <2>1, <2>3 DEF DenseInv
<1>8. ASSUME NEW t \in Linear!Checkpoint \ given, Linear!Deliver(t) PROVE DenseInv'
  <2>1. stage = "loading" /\ given' = given \cup {t} /\ stage' \in {"failed", "loading"}
    BY <1>8 DEF Linear!Deliver
  <2>2. ASSUME stage' = "loading" PROVE Known(param, given)' /\ Marked(param, given)'
    <3>1. Linear!Loaded(t) # Linear!Refused /\ param' = Linear!Loaded(t)
      BY <1>8, <2>1, <2>2 DEF Linear!Deliver
    <3>2. Known(Linear!Loaded(t), given \cup {t}) /\ Marked(Linear!Loaded(t), given \cup {t})
      BY <1>1, <2>1, <3>1, LoadedKnown
    <3>3. QED
      BY <1>2, <2>1, <3>1, <3>2, KnownSame
  <2>3. Linear!LinearAcceptedIsComplete'
    BY <2>1 DEF Linear!LinearAcceptedIsComplete
  <2>4. QED
    BY <1>1, <1>3, <2>1, <2>2, <2>3 DEF DenseInv
<1>9. QED
  BY <1>5, <1>6, <1>7, <1>8 DEF LayerNext, LoadExperts, LoadLinear, LoadTable, LoadStore, layerVars, Linear!LinearNext

-----------------------------------------------------------------------------
(* The layers of a model.                                                  *)

LayerInv == LoadInv /\ DenseInv /\ TableInv /\ StoreInv

\* Every reachable state of the load of every layer satisfies the invariants of the four
\* loads.
THEOREM LayerCorrect == LayerSpec => []LayerInv
<1>1. LayerSpec => []LoadInv
  BY LayerIsLoad, LoadCorrect, PTL
<1>2. LayerSpec => []DenseInv
  BY DenseStarts, DenseSteps, PTL DEF LayerSpec
<1>3. LayerSpec => []TableInv
  BY TableStarts, TableSteps, PTL DEF LayerSpec
<1>4. LayerSpec => []StoreInv
  BY StoreStarts, StoreSteps, PTL DEF LayerSpec
<1>5. LayerInv <=> LoadInv /\ DenseInv /\ TableInv /\ StoreInv
  BY DEF LayerInv
<1>6. QED
  BY <1>1, <1>2, <1>3, <1>4, <1>5, PTL

\* Whatever a layer is, routed experts with or without arenas, a dense layer of several
\* shards, an n-gram table or a store of single tensors, and in whatever order its tensors
\* came: it is accepted only with all of them (the checks of process_weights_after_loading
\* of the four methods).
THEOREM AcceptedLayers ==
    ASSUME OneMarkerPacks
    PROVE  LayerSpec => []AcceptedIsComplete
<1>1. LayerInv => AcceptedIsComplete
  <2> SUFFICES ASSUME LayerInv PROVE AcceptedIsComplete
    OBVIOUS
  <2>1. LoadInv /\ DenseInv /\ TableInv /\ StoreInv
    BY DEF LayerInv
  <2>2. ReadyIsLoadedUnplanned
    BY <2>1 DEF LoadInv, HandlesFit, ReadyIsLoadedUnplanned, ReadyIsLoaded
  <2>3. Bank!StoreAcceptedIsComplete
    BY <2>1, StoreComplete
  <2>4. LoadsTable(unit) => Table!TableAcceptedIsComplete
    BY <2>1 DEF TableInv, TableFits, Table!TableAcceptedIsComplete
  <2>5. QED
    BY <2>1, <2>2, <2>3, <2>4 DEF AcceptedIsComplete, DenseInv
<1>2. QED
  BY <1>1, LayerCorrect, PTL

\* A route of an expert is served with the tensors of that expert of the checkpoint: of a
\* layer with arenas or without in the version delivered last, of a store of single tensors
\* under a placement that is compared at every forward (_load_exl3, the packing, LoadKey,
\* build_inners, group_layouts, check_expert_map).
THEOREM ExpertsOwn ==
    ASSUME OneMarkerPacks
    PROVE  LayerSpec => []ExpertsServeOwn
<1>1. StoreInv => Bank!StoreServesOwn
  BY StoreOwn
<1>2. LayerSpec => []ServesLatest
  BY LayerIsLoad, LatestServed, PTL
<1>3. ServesLatest /\ Bank!StoreServesOwn => ExpertsServeOwn
  BY DEF ExpertsServeOwn
<1>4. LayerInv => StoreInv
  BY DEF LayerInv
<1>5. QED
  BY <1>1, <1>2, <1>3, <1>4, LayerCorrect, PTL

\* What a layer serves are the bytes of its own checkpoint tensors in the version delivered
\* last: experts with arenas, without, or tensor by tensor, and each place of a looked-up
\* batch, whose row, head and bias are those of its own id, from the device or the disk
\* (process_weights_after_loading, _embedding_impl, _embedding_impl_disk).
THEOREM OwnServed ==
    ASSUME OneMarkerPacks
    PROVE  LayerSpec => []ServesOwn
<1>1. LayerInv => LooksUpOwnRow
  BY LookupsOwn DEF LayerInv
<1>2. LayerSpec => []ExpertsServeOwn
  BY ExpertsOwn
<1>3. LooksUpOwnRow /\ ExpertsServeOwn => ServesOwn
  BY DEF ServesOwn
<1>4. QED
  BY <1>1, <1>2, <1>3, LayerCorrect, PTL

\* The load of experts or of a table ends in an error only for what is wrong with the
\* checkpoint or cannot be had, see OnlyBadRejected and TableRejectedIsBad.
THEOREM OnlyBadLayersRejected ==
    LayerSpec => [][/\ RejectedIsBad
                    /\ tstage' = "failed" /\ tstage # "failed" => Table!TableRejectedIsBad]_<<phase, tstage>>
<1>1. LayerSpec => [][RejectedIsBad]_vars
  BY LayerIsLoad, OnlyBadRejected, PTL
<1>2. ASSUME [LayerNext]_layerVars
      PROVE  tstage' = "failed" /\ tstage # "failed" => Table!TableRejectedIsBad
  <2> SUFFICES ASSUME tstage' = "failed", tstage # "failed" PROVE Table!TableRejectedIsBad
    OBVIOUS
  <2>1. Table!TableNext
    BY <1>2 DEF LayerNext, LoadExperts, LoadLinear, LoadTable, LoadStore, layerVars, tableVars
  <2>2. ASSUME NEW p, NEW v, Table!LoadPart(p, v) PROVE table.misshaped # {}
    BY <2>2 DEF Table!LoadPart
  <2>3. ~Table!MoveParameters
    BY DEF Table!MoveParameters
  <2>4. ASSUME Table!ProcessTable
        PROVE  Table!Missing # {} \/ ~aliased \/ ~Table!LayoutGood \/ Table!GraphsRefused
    BY <2>4 DEF Table!ProcessTable
  <2>5. QED
    BY <2>1, <2>2, <2>3, <2>4 DEF Table!TableNext, Table!TableRejectedIsBad
<1>3. [LayerNext]_layerVars /\ [RejectedIsBad]_vars =>
          [/\ RejectedIsBad
           /\ tstage' = "failed" /\ tstage # "failed" => Table!TableRejectedIsBad]_<<phase, tstage>>
  BY <1>2 DEF RejectedIsBad, vars
<1>4. QED
  BY <1>1, <1>3, PTL DEF LayerSpec

=============================================================================
