------------------------- MODULE GcodeParser_proofs -------------------------
(***************************************************************************)
(* GcodeParser: the offsets of the parser and of its planned moves agree   *)
(* with the store, for any program, any number of systems and slots, and   *)
(* stops, resets and power losses anywhere.                                *)
(***************************************************************************)
EXTENDS GcodeParser, TLAPS

-----------------------------------------------------------------------------
\* Types of the operators

LEMMA ValueType == ASSUME NEW w \in SUBSET Int, w # {} PROVE Value(w) \in Int
  BY DEF Value

LEMMA SystemsAreStored == Systems \subseteq Stored /\ "G28" \in Stored /\ "G92" \in Stored
  BY DEF Stored

LEMMA BlockIsWords == ASSUME NEW b \in Blocks PROVE b \in Words
  BY BlocksAssumption

LEMMA ColdType ==
  ASSUME NEW store \in [Stored -> Int] PROVE Cold(store) \in ParserState
<1>1. /\ store[Default] \in Int /\ store["G92"] \in Int
      /\ [ZeroSlots EXCEPT ![0] = store["G92"]] \in [0..(Slots - 1) -> Int]
      /\ 0 \in 0..(Slots - 1)
  BY SystemsAssumption, ParametersAssumption, SystemsAreStored DEF ZeroSlots
<1> QED
  BY <1>1, SystemsAssumption DEF Cold, ParserState

LEMMA WarmType ==
  ASSUME NEW store \in [Stored -> Int], NEW keep \in BOOLEAN, gc \in ParserState
  PROVE  Warm(keep, store) \in ParserState
<1> DEFINE cs == IF keep THEN gc.cs ELSE Default
<1>1. cs \in Systems
  BY SystemsAssumption DEF ParserState
<1>2. store[cs] \in Int
  BY <1>1, SystemsAreStored
<1>3. ZeroSlots \in [0..(Slots - 1) -> Int]
  BY DEF ZeroSlots
<1>4. Cold(store) \in ParserState
  BY ColdType
<1> QED
  BY <1>1, <1>2, <1>3, <1>4 DEF Warm, ParserState

LEMMA NoG92Type ==
  ASSUME NEW g \in ParserState PROVE [g EXCEPT !.g92 = 0] \in ParserState
  BY DEF ParserState

LEMMA ModalType ==
  ASSUME NEW b \in Blocks, gc \in ParserState, nvs \in [Stored -> Int]
  PROVE  Modal(b) \in ModalState
<1>1. b \in Words
  BY BlockIsWords
<1>2. b.cs # "same" => nvs[b.cs] \in Int
  BY <1>1, SystemsAreStored DEF Words
<1> QED
  BY <1>1, <1>2 DEF Modal, ModalState, ParserState, Words

LEMMA FeedType ==
  ASSUME NEW b \in Blocks, NEW m \in ModalState, gc \in ParserState
  PROVE  /\ KeptFeed(b, m) \in {"none", "inverse", "perMin"}
         /\ BlockFeed(b, m) \in {"none", "inverse", "perMin"}
  BY DEF KeptFeed, BlockFeed, ModalState, ParserState

LEMMA PlaceType ==
  ASSUME NEW b \in Blocks, NEW m \in ModalState, gc \in ParserState
  PROVE  /\ Target(b, m) \in Int /\ Retract(b, m) \in Int /\ Depth(b, m) \in Int
         /\ b.axis # {} => NewOffset(b, m) \in Int
<1>1. b \in Words
  BY BlockIsWords
<1>2. /\ b.axis # {} => Value(b.axis) \in Int
      /\ b.r # {} => Value(b.r) \in Int
  BY <1>1, ValueType DEF Words
<1>3. gc.pos \in Int /\ gc.g92 \in Int /\ gc.tlo \in Int /\ gc.retract \in Int
      /\ gc.depth \in Int /\ m.data \in Int
  BY DEF ParserState, ModalState
<1>4. Offset(m) \in Int
  BY <1>3 DEF Offset
<1>5. Target(b, m) \in Int
  BY <1>2, <1>3, <1>4 DEF Target
<1>6. Retract(b, m) \in Int
  BY <1>2, <1>3, <1>4 DEF Retract
<1>7. Depth(b, m) \in Int
  BY <1>3, <1>5, <1>6 DEF Depth
<1>8. b.axis # {} => NewOffset(b, m) \in Int
  BY <1>2, <1>3 DEF NewOffset
<1> QED
  BY <1>5, <1>6, <1>7, <1>8

LEMMA CheckedType ==
  ASSUME NEW b \in Blocks, NEW m \in ModalState, gc \in ParserState
  PROVE  Checked(b, m) \in ParserState
  BY FeedType, PlaceType DEF Checked, ParserState

LEMMA MovesType ==
  ASSUME NEW b, NEW m, gc \in ParserState, blk \in InStep4
  PROVE  Moves(b, m) \in Seq(Int)
<1> DEFINE top == IF gc.pos < gc.retract THEN gc.retract ELSE gc.pos
<1>1. /\ gc.pos \in Int /\ gc.retract \in Int /\ gc.depth \in Int
      /\ blk.xyz \in Int /\ blk.home \in Int
  BY DEF ParserState, InStep4
<1>2. top \in Int
  BY <1>1
<1>3. /\ <<>> \in Seq(Int) /\ <<blk.xyz>> \in Seq(Int) /\ <<blk.home>> \in Seq(Int)
      /\ <<top, gc.retract>> \in Seq(Int) /\ <<gc.depth, top>> \in Seq(Int)
  BY <1>1, <1>2
<1>4. /\ (IF b.axis = {} THEN <<>> ELSE <<blk.xyz>>) \o <<blk.home>> \in Seq(Int)
      /\ <<top, gc.retract>> \o (IF gc.depth < gc.retract THEN <<gc.depth, top>> ELSE <<>>)
            \in Seq(Int)
  BY <1>3
<1> QED
  BY <1>3, <1>4 DEF Moves

LEMMA AddOffsetType ==
  ASSUME NEW g \in ParserState, NEW v \in Int
  PROVE  AddOffset(g, v) \in ParserState
<1>1. (g.slot + 1) % Slots \in 0..(Slots - 1)
  BY ParametersAssumption DEF ParserState
<1>2. [g.slots EXCEPT ![(g.slot + 1) % Slots] = v] \in [0..(Slots - 1) -> Int]
  BY DEF ParserState
<1> QED
  BY <1>1, <1>2 DEF AddOffset, ParserState

LEMMA NonModalType ==
  ASSUME NEW g \in ParserState, NEW b, NEW m, blk \in InStep4, nvs \in [Stored -> Int]
  PROVE  NonModal(g, b, m) \in ParserState
<1>1. blk.new \in Int /\ nvs["G92"] \in Int /\ 0 \in Int
  BY SystemsAreStored DEF InStep4
<1>2. \A v \in Int : AddOffset(g, v) \in ParserState
  BY AddOffsetType
<1>3. [g EXCEPT !.data = blk.new] \in ParserState
  BY <1>1 DEF ParserState
<1> QED
  BY <1>1, <1>2, <1>3 DEF NonModal

-----------------------------------------------------------------------------
\* The inductive invariant

\* what the check of a block has settled still holds while it is executed
BlockFits ==
    blk # NoBlock =>
        /\ blk.b.tool = "G43.1" => blk.b.axis # {}
        /\ blk.stage \in {"dwell", "apply"} /\ blk.b.cs # "same" => blk.m.data = nvs[blk.m.cs]

\* how far the ring of G92 offsets has moved on from a slot
Distance(s) == IF s <= gc.slot THEN gc.slot - s ELSE gc.slot - s + Slots

\* the slot of the block in step 4, and of the moves it is going to plan
SlotFits ==
    blk # NoBlock /\ ~cancel =>
        \/ gc.slot = blk.slot
        \/ /\ blk.stage \in {"moves", "end"} /\ blk.b.nonModal \in NewG92
           /\ gc.slot = (blk.slot + 1) % Slots

\* the ring has moved on at most as often as an offset has been set
Aging == \A i \in 1..Len(queue) : Distance(queue[i].slot) <= queue[i].age

IInv == /\ TypeOK /\ SystemAgrees /\ G92Agrees /\ BlockFits
        /\ SlotFits /\ Aging /\ SlotsAgree

-----------------------------------------------------------------------------
\* Types

LEMMA TypeInit == Init => TypeOK
<1> SUFFICES ASSUME Init PROVE TypeOK
  OBVIOUS
<1>1. nvs \in [Stored -> Int]
  BY DEF Init
<1>2. gc \in ParserState
  BY <1>1, ColdType DEF Init
<1>3. queue \in Seq(Move) /\ actual \in Int /\ blk = NoBlock
  BY DEF Init
<1>4. cancel \in BOOLEAN
  BY DEF Init
<1>5. blocks \in 0..MaxBlocks /\ interrupts \in 0..MaxInterrupts
  BY ParametersAssumption DEF Init
<1> QED
  BY <1>1, <1>2, <1>3, <1>4, <1>5 DEF TypeOK

LEMMA AcceptType ==
  ASSUME TypeOK, NEW b \in Blocks, Accept(b) PROVE TypeOK'
<1> DEFINE m == Modal(b)
<1>1. m \in ModalState /\ Checked(b, m) \in ParserState
      /\ BlockFeed(b, m) \in {"none", "inverse", "perMin"} /\ Target(b, m) \in Int
      /\ (b.axis # {} => NewOffset(b, m) \in Int)
  BY ModalType, CheckedType, FeedType, PlaceType DEF TypeOK
<1> HIDE DEF m
<1>2. gc' \in ParserState
  BY <1>1 DEF Accept, m, ParserState, ModalState
<1>3. nvs["G28"] \in Int
  BY SystemsAreStored DEF TypeOK
<1>4. (IF b.jog THEN <<Target(b, m)>> ELSE <<>>) \in Seq(Int)
  BY <1>1
<1>5. (IF b.axis = {} THEN 0 ELSE NewOffset(b, m)) \in Int
  BY <1>1
<1>6. gc.slot \in 0..(Slots - 1) /\ gc.g92 \in Int /\ gc.pos \in Int
  BY DEF TypeOK, ParserState
<1>7. blk' \in InStep4
  BY <1>1, <1>3, <1>4, <1>5, <1>6 DEF Accept, m, InStep4
<1>8. blocks' \in 0..MaxBlocks
  BY ParametersAssumption DEF Accept, NewBlock, TypeOK
<1> QED
  BY <1>2, <1>7, <1>8 DEF Accept, TypeOK

LEMMA RejectType ==
  ASSUME TypeOK, NEW b \in Blocks, Reject(b) PROVE TypeOK'
<1>1. Modal(b) \in ModalState
  BY ModalType DEF TypeOK
<1>2. /\ Checked(b, Modal(b)) \in ParserState
      /\ KeptFeed(b, Modal(b)) \in {"none", "inverse", "perMin"}
  BY <1>1, CheckedType, FeedType DEF TypeOK
<1>3. gc' \in ParserState
  BY <1>2 DEF Reject, ParserState, TypeOK
<1>4. blocks' \in 0..MaxBlocks
  BY ParametersAssumption DEF Reject, NewBlock, TypeOK
<1> QED
  BY <1>3, <1>4 DEF Reject, TypeOK

LEMMA ApplyType ==
  ASSUME TypeOK, BlockFits, Apply PROVE TypeOK'
<1> DEFINE b == blk.b
           m == blk.m
           tool == [gc EXCEPT !.tool = IF b.tool = "same" THEN @ ELSE b.tool,
                              !.tlo = CASE b.tool = "G49" -> 0
                                        [] b.tool = "G43.1" -> Value(b.axis)
                                        [] OTHER -> @]
           system == IF b.cs = "same" THEN tool
                     ELSE [tool EXCEPT !.cs = m.cs, !.data = m.data]
           dist == [system EXCEPT !.inc = IF b.dist = "same" THEN @ ELSE m.inc]
           g == NonModal(dist, b, m)
           moves == Moves(b, m)
<1>1. blk \in InStep4 /\ blk # NoBlock /\ gc \in ParserState /\ nvs \in [Stored -> Int]
  BY DEF Apply, TypeOK, NoBlock
<1>2. b \in Blocks /\ b \in Words /\ m \in ModalState
  BY <1>1, BlockIsWords DEF InStep4
<1>3. b.tool = "G43.1" => Value(b.axis) \in Int
  BY <1>1, <1>2, ValueType DEF BlockFits, Words
<1>4. tool \in ParserState
  <2>1. /\ (IF b.tool = "same" THEN gc.tool ELSE b.tool) \in {"G49", "G43.1"}
        /\ (CASE b.tool = "G49" -> 0 [] b.tool = "G43.1" -> Value(b.axis)
              [] OTHER -> gc.tlo) \in Int
    BY <1>1, <1>2, <1>3 DEF ParserState, Words
  <2> QED
    BY <1>1, <2>1 DEF ParserState
<1>5. system \in ParserState
  BY <1>2, <1>4 DEF ParserState, ModalState
<1>6. dist \in ParserState
  <2> HIDE DEF system
  <2>1. (IF b.dist = "same" THEN system.inc ELSE m.inc) \in BOOLEAN
    BY <1>2, <1>5, Zenon DEF ParserState, ModalState
  <2> QED
    BY <1>5, <2>1 DEF ParserState
<1>7. g \in ParserState
  BY <1>1, <1>6, NonModalType
<1>8. moves \in Seq(Int)
  BY <1>1, MovesType
<1>9. gc' = IF b.nonModal = "home" THEN g
            ELSE [g EXCEPT !.motion = m.motion, !.canned = m.canned,
                           !.pos = IF m.motion = "drill" /\ moves # <<>>
                                   THEN Head(moves) ELSE @]
  BY DEF Apply
<1>10. gc' \in ParserState
  <2> HIDE DEF g, moves
  <2>1. moves # <<>> => Head(moves) \in Int
    BY <1>8
  <2> QED
    BY <1>2, <1>7, <1>9, <2>1 DEF ParserState, ModalState
<1>11. nvs' \in [Stored -> Int]
  <2>1. About(b, m) \in Stored
    BY <1>2, SystemsAreStored DEF About, Words, ModalState
  <2>2. blk.new \in Int /\ gc.pos \in Int
    BY <1>1 DEF InStep4, ParserState
  <2> QED
    BY <1>1, <2>1, <2>2, SystemsAreStored DEF Apply
<1>12. queue' \in Seq(Move)
  <2>1. \A i \in 1..Len(queue) : queue[i] \in Move
    BY DEF TypeOK
  <2>2. \A i \in 1..Len(queue) : [queue[i] EXCEPT !.age = @ + 1] \in Move
    BY <2>1 DEF Move
  <2>3. Aged \in [1..Len(queue) -> Move] /\ Len(queue) \in Nat
    BY <2>2 DEF Aged, TypeOK
  <2>4. Aged \in Seq(Move)
    BY <2>3
  <2> QED
    BY <2>4 DEF Apply, TypeOK
<1>13. blk' \in InStep4
  <2> HIDE DEF moves
  <2>1. blk' = [blk EXCEPT !.stage = "moves", !.moves = IF cancel THEN <<>> ELSE moves]
    BY DEF Apply, moves
  <2>2. (IF cancel THEN <<>> ELSE moves) \in Seq(Int)
    BY <1>8
  <2> QED
    BY <1>1, <2>1, <2>2 DEF InStep4
<1> QED
  BY <1>10, <1>11, <1>12, <1>13 DEF Apply, TypeOK

LEMMA PlanMoveType ==
  ASSUME TypeOK, PlanMove PROVE TypeOK'
<1>1. blk \in InStep4 /\ gc \in ParserState
  BY DEF PlanMove, TypeOK, NoBlock
<1>2. blk.moves \in Seq(Int) /\ blk.moves # <<>>
  BY <1>1 DEF PlanMove, InStep4
<1>3. Head(blk.moves) \in Int /\ Tail(blk.moves) \in Seq(Int)
      /\ (Tail(blk.moves) # <<>> => Head(Tail(blk.moves)) \in Int)
  BY <1>2
<1>4. gc' \in ParserState
  BY <1>1, <1>3 DEF PlanMove, ParserState
<1>5. blk' \in InStep4
  BY <1>1, <1>3 DEF PlanMove, InStep4
<1> DEFINE e == [target |-> Head(blk.moves), jog |-> blk.b.jog,
                 slot |-> blk.slot, g92 |-> blk.g92,
                 age |-> IF blk.b.nonModal \in NewG92 THEN 1 ELSE 0,
                 kept |-> gc.slots[blk.slot] = blk.g92,
                 feed |-> IF Rapid(blk.b, blk.m) THEN "rapid" ELSE blk.feed,
                 mode |-> blk.m.feedMode]
<1>6. e \in Move
  <2>1. blk.b \in Words /\ blk.m \in ModalState
    BY <1>1, BlockIsWords DEF InStep4
  <2> QED
    BY <1>1, <1>3, <2>1 DEF Move, InStep4, ModalState, Words
<1>7. queue' = queue \/ queue' = Append(queue, e)
  BY DEF PlanMove
<1>8. queue' \in Seq(Move)
  <2> HIDE DEF e
  <2> QED
    BY <1>6, <1>7 DEF TypeOK
<1> QED
  BY <1>4, <1>5, <1>8 DEF PlanMove, TypeOK

LEMMA HaltType ==
  ASSUME TypeOK, NEW g \in ParserState, Halt(g)
  PROVE  actual' \in Int /\ gc' \in ParserState /\ queue' = <<>> /\ queue' \in Seq(Move)
<1>1. \A i \in 1..Len(queue) : queue[i].target \in Int
  <2>1. \A i \in 1..Len(queue) : queue[i] \in Move
    BY DEF TypeOK
  <2> QED
    BY <2>1 DEF Move
<1>2. PICK p \in {actual} \cup {queue[i].target : i \in 1..(IF queue = <<>> THEN 0 ELSE 1)} :
         actual' = p /\ gc' = [g EXCEPT !.pos = p] /\ queue' = <<>>
  BY DEF Halt
<1>3. p \in Int
  <2>1. queue # <<>> => 1 \in 1..Len(queue)
    BY DEF TypeOK
  <2> QED
    BY <1>1, <1>2, <2>1 DEF TypeOK
<1> QED
  BY <1>2, <1>3 DEF ParserState

LEMMA TypeNext == TypeOK /\ BlockFits /\ [Next]_vars => TypeOK'
<1> SUFFICES ASSUME TypeOK, BlockFits, [Next]_vars PROVE TypeOK'
  OBVIOUS
<1> USE ParametersAssumption
<1>1. ASSUME NEW b \in Blocks, Accept(b) PROVE TypeOK'
  BY <1>1, AcceptType
<1>2. ASSUME NEW b \in Blocks, Reject(b) PROVE TypeOK'
  BY <1>2, RejectType
<1>3. CASE DwellEnds
  <2>1. blk \in InStep4
    BY <1>3 DEF DwellEnds, TypeOK, NoBlock
  <2>2. blk' \in InStep4
    BY <1>3, <2>1 DEF DwellEnds, InStep4
  <2> QED
    BY <1>3, <2>2 DEF DwellEnds, TypeOK
<1>4. CASE Apply
  BY <1>4, ApplyType
<1>5. CASE PlanMove
  BY <1>5, PlanMoveType
<1>6. CASE MovesEnd
  <2>1. blk \in InStep4 /\ gc \in ParserState
    BY <1>6 DEF MovesEnd, TypeOK, NoBlock
  <2>2. blk.xyz \in Int /\ blk.home \in Int /\ blk.m \in ModalState
    BY <2>1 DEF InStep4
  <2>3. gc' \in ParserState
    BY <1>6, <2>1, <2>2 DEF MovesEnd, ParserState, ModalState
  <2>4. blk' = NoBlock \/ blk' \in InStep4
    BY <1>6, <2>1 DEF MovesEnd, InStep4
  <2>5. cancel' \in BOOLEAN
    BY <1>6 DEF MovesEnd, TypeOK
  <2> QED
    BY <1>6, <2>3, <2>4, <2>5 DEF MovesEnd, TypeOK
<1>7. CASE ProgramEnd
  <2>1. gc \in ParserState /\ nvs \in [Stored -> Int]
    BY DEF TypeOK
  <2>2. nvs[Default] \in Int
    BY <2>1, SystemsAssumption, SystemsAreStored
  <2>3. gc' \in ParserState
    BY <1>7, <2>1, <2>2, SystemsAssumption DEF ProgramEnd, ParserState
  <2>4. nvs' \in [Stored -> Int]
    BY <1>7, <2>1 DEF ProgramEnd, ParserState
  <2> QED
    BY <1>7, <2>3, <2>4 DEF ProgramEnd, TypeOK
<1>8. CASE Execute
  <2>1. Head(queue) \in Move /\ Tail(queue) \in Seq(Move)
    BY <1>8 DEF Execute, TypeOK
  <2>2. Head(queue).target \in Int
    BY <2>1 DEF Move
  <2> QED
    BY <1>8, <2>1, <2>2 DEF Execute, TypeOK
<1>9. CASE Stop
  <2>1. Warm(TRUE, nvs) \in ParserState
    BY WarmType DEF TypeOK
  <2>2. actual' \in Int /\ gc' \in ParserState /\ queue' \in Seq(Move)
    BY <1>9, <2>1, HaltType DEF Stop
  <2> QED
    BY <1>9, <2>2 DEF Stop, Request, Idle, TypeOK
<1>10. CASE Reset
  <2>1. Warm(KeepOffsets, nvs) \in ParserState
    BY WarmType DEF TypeOK
  <2>2. actual' \in Int /\ gc' \in ParserState /\ queue' \in Seq(Move)
    BY <1>10, <2>1, HaltType DEF Reset
  <2>3. cancel' \in BOOLEAN /\ blk' = NoBlock
    BY <1>10 DEF Reset
  <2> QED
    BY <1>10, <2>2, <2>3 DEF Reset, Request, TypeOK
<1>11. CASE Restore
  <2>1. nvs' \in [Stored -> Int]
    BY <1>11 DEF Restore
  <2>2. Warm(KeepOffsets, nvs') \in ParserState
    BY <2>1, WarmType DEF TypeOK
  <2>3. [Warm(KeepOffsets, nvs') EXCEPT !.g92 = 0] \in ParserState
    BY <2>2, NoG92Type
  <2>4. actual' \in Int /\ gc' \in ParserState /\ queue' \in Seq(Move)
    BY <1>11, <2>3, HaltType DEF Restore
  <2> QED
    BY <1>11, <2>1, <2>4 DEF Restore, Request, TypeOK
<1>12. CASE PowerUp
  <2>1. Cold(nvs) \in ParserState
    BY ColdType DEF TypeOK
  <2>2. cancel' \in BOOLEAN /\ blk' = NoBlock
    BY <1>12 DEF PowerUp
  <2>3. queue' \in Seq(Move)
    BY <1>12 DEF PowerUp
  <2>4. interrupts' \in 0..MaxInterrupts
    BY <1>12 DEF PowerUp, TypeOK
  <2> QED
    BY <1>12, <2>1, <2>2, <2>3, <2>4 DEF PowerUp, TypeOK
<1>13. CASE UNCHANGED vars
  BY <1>13 DEF vars, TypeOK
<1> QED
  BY <1>1, <1>2, <1>3, <1>4, <1>5, <1>6, <1>7, <1>8, <1>9, <1>10, <1>11, <1>12, <1>13
     DEF Next, Step

-----------------------------------------------------------------------------
\* What the actions do to the offsets

SameOffsets == /\ gc'.cs = gc.cs /\ gc'.data = gc.data /\ gc'.g92 = gc.g92
               /\ gc'.slot = gc.slot /\ gc'.slots = gc.slots
               /\ nvs' = nvs

LEMMA CheckKeeps ==
  ASSUME TypeOK, NEW b \in Blocks, Accept(b) \/ Reject(b) PROVE SameOffsets
<1>1. gc \in ParserState
  BY DEF TypeOK
<1>2. CASE Accept(b)
  BY <1>1, <1>2 DEF Accept, Checked, SameOffsets, ParserState
<1>3. CASE Reject(b)
  BY <1>1, <1>3 DEF Reject, Checked, SameOffsets, ParserState
<1> QED
  BY <1>2, <1>3

LEMMA MotionKeeps ==
  ASSUME TypeOK, PlanMove \/ MovesEnd PROVE SameOffsets
<1>1. gc \in ParserState
  BY DEF TypeOK
<1>2. CASE PlanMove
  BY <1>1, <1>2 DEF PlanMove, SameOffsets, ParserState
<1>3. CASE MovesEnd
  BY <1>1, <1>3 DEF MovesEnd, SameOffsets, ParserState
<1> QED
  BY <1>2, <1>3

LEMMA ApplyEffect ==
  ASSUME TypeOK, Apply
  PROVE  LET b == blk.b
             m == blk.m
             next == (gc.slot + 1) % Slots
         IN  /\ gc'.cs = IF b.cs = "same" THEN gc.cs ELSE m.cs
             /\ gc'.data = IF b.nonModal \in {"set", "setHere"} /\ About(b, m) = gc'.cs
                           THEN blk.new ELSE IF b.cs = "same" THEN gc.data ELSE m.data
             /\ gc'.g92 = CASE b.nonModal = "offset" -> blk.new
                            [] b.nonModal \in {"reset", "clear"} -> 0
                            [] b.nonModal = "restore" -> nvs["G92"]
                            [] OTHER -> gc.g92
             /\ gc'.slot = IF b.nonModal \in NewG92 THEN next ELSE gc.slot
             /\ gc'.slots = IF b.nonModal \in NewG92
                            THEN [gc.slots EXCEPT ![next] = gc'.g92] ELSE gc.slots
<1> DEFINE b == blk.b
           m == blk.m
           next == (gc.slot + 1) % Slots
           tool == [gc EXCEPT !.tool = IF b.tool = "same" THEN @ ELSE b.tool,
                              !.tlo = CASE b.tool = "G49" -> 0
                                        [] b.tool = "G43.1" -> Value(b.axis)
                                        [] OTHER -> @]
           system == IF b.cs = "same" THEN tool
                     ELSE [tool EXCEPT !.cs = m.cs, !.data = m.data]
           dist == [system EXCEPT !.inc = IF b.dist = "same" THEN @ ELSE m.inc]
           g == NonModal(dist, b, m)
           moves == Moves(b, m)
           Shape(x) == DOMAIN x = DOMAIN gc
<1>1. gc \in ParserState
  BY DEF TypeOK
<1>2. /\ {"cs", "data", "g92", "slot", "slots", "tool", "tlo", "inc", "motion", "canned",
          "pos"} \subseteq DOMAIN gc
  BY <1>1 DEF ParserState
<1>3. /\ Shape(tool) /\ tool.cs = gc.cs /\ tool.data = gc.data /\ tool.g92 = gc.g92
      /\ tool.slot = gc.slot /\ tool.slots = gc.slots
  BY <1>2
<1>4. /\ Shape(system)
      /\ system.cs = (IF b.cs = "same" THEN gc.cs ELSE m.cs)
      /\ system.data = (IF b.cs = "same" THEN gc.data ELSE m.data)
      /\ system.g92 = gc.g92 /\ system.slot = gc.slot /\ system.slots = gc.slots
  <2> HIDE DEF tool
  <2> QED
    BY <1>2, <1>3
<1>5. /\ Shape(dist) /\ dist.cs = system.cs /\ dist.data = system.data
      /\ dist.g92 = gc.g92 /\ dist.slot = gc.slot /\ dist.slots = gc.slots
  <2> HIDE DEF system
  <2> QED
    BY <1>2, <1>4
<1>6. gc' = IF b.nonModal = "home" THEN g
            ELSE [g EXCEPT !.motion = m.motion, !.canned = m.canned,
                           !.pos = IF m.motion = "drill" /\ moves # <<>>
                                   THEN Head(moves) ELSE @]
  BY DEF Apply
<1>7. Shape(g) => /\ gc'.cs = g.cs /\ gc'.data = g.data /\ gc'.g92 = g.g92
                  /\ gc'.slot = g.slot /\ gc'.slots = g.slots
  <2> HIDE DEF g, moves
  <2> QED
    BY <1>2, <1>6
<1> HIDE DEF dist, g
<1>8. \A v : LET a == AddOffset(dist, v)
             IN  /\ Shape(a) /\ a.cs = dist.cs /\ a.data = dist.data /\ a.g92 = v
                 /\ a.slot = next /\ a.slots = [gc.slots EXCEPT ![next] = v]
  BY <1>2, <1>5 DEF AddOffset
<1>9. CASE b.nonModal \in NewG92
  <2>1. \E v : g = AddOffset(dist, v) /\ v = CASE b.nonModal = "offset" -> blk.new
                            [] b.nonModal \in {"reset", "clear"} -> 0
                            [] b.nonModal = "restore" -> nvs["G92"]
                            [] OTHER -> gc.g92
    BY <1>9 DEF NonModal, NewG92, g
  <2> QED
    BY <1>4, <1>5, <1>7, <1>8, <1>9, <2>1 DEF NewG92
<1>10. CASE b.nonModal \in {"set", "setHere"}
  <2>1. g = IF About(b, m) = dist.cs THEN [dist EXCEPT !.data = blk.new] ELSE dist
    BY <1>10 DEF NonModal, g
  <2> QED
    BY <1>2, <1>4, <1>5, <1>7, <1>10, <2>1 DEF NewG92
<1>11. CASE b.nonModal \notin NewG92 \cup {"set", "setHere"}
  <2>1. g = dist
    BY <1>11 DEF NonModal, NewG92, g
  <2> QED
    BY <1>4, <1>5, <1>7, <1>11, <2>1 DEF NewG92
<1> QED
  BY <1>9, <1>10, <1>11

LEMMA ApplyFeed ==
  ASSUME TypeOK, Apply PROVE gc'.feed = gc.feed /\ gc'.feedMode = gc.feedMode
<1>1. gc \in ParserState
  BY DEF TypeOK
<1> QED
  BY <1>1 DEF Apply, NonModal, AddOffset, ParserState

LEMMA RestartEffect ==
  ASSUME TypeOK, NEW g \in ParserState, Halt(g)
  PROVE  gc'.cs = g.cs /\ gc'.data = g.data /\ gc'.g92 = g.g92 /\ queue' = <<>>
  BY DEF Halt, ParserState

LEMMA WarmEffect ==
  ASSUME TypeOK, NEW keep \in BOOLEAN, NEW store \in [Stored -> Int]
  PROVE  LET w == Warm(keep, store)
         IN  w.data = store[w.cs] /\ w.g92 = gc.g92 /\ w.cs \in Systems
  BY SystemsAssumption DEF Warm, Cold, TypeOK, ParserState

-----------------------------------------------------------------------------
\* The offsets agree with the store

LEMMA AgreeNext ==
  IInv /\ [Next]_vars => (SystemAgrees /\ G92Agrees)'
<1> SUFFICES ASSUME IInv, [Next]_vars PROVE SystemAgrees' /\ G92Agrees'
  OBVIOUS
<1>t. TypeOK /\ SystemAgrees /\ G92Agrees /\ gc \in ParserState /\ nvs \in [Stored -> Int]
  BY DEF IInv, TypeOK
<1>k. ASSUME SameOffsets PROVE SystemAgrees' /\ G92Agrees'
  BY <1>t, <1>k DEF SameOffsets, SystemAgrees, G92Agrees
<1>1. ASSUME NEW b \in Blocks, Accept(b) \/ Reject(b) PROVE SystemAgrees' /\ G92Agrees'
  BY <1>1, <1>t, <1>k, CheckKeeps
<1>2. CASE PlanMove \/ MovesEnd
  BY <1>2, <1>t, <1>k, MotionKeeps
<1>3. CASE DwellEnds \/ Execute \/ UNCHANGED vars
  BY <1>3, <1>k DEF DwellEnds, Execute, vars, SameOffsets
<1>4. CASE Apply
  <2> DEFINE b == blk.b
             m == blk.m
  <2>1. blk \in InStep4 /\ blk # NoBlock /\ blk.stage = "apply"
    BY <1>4 DEF Apply, IInv, TypeOK, NoBlock
  <2>2. b \in Words /\ m.cs \in Systems
    BY <2>1, BlockIsWords DEF InStep4, ModalState
  <2>3. b.cs # "same" => m.data = nvs[m.cs]
    BY <2>1 DEF IInv, BlockFits
  <2>4. gc.cs \in Systems /\ gc.data = nvs[gc.cs] /\ gc.g92 \in {0, nvs["G92"]}
    BY <1>t DEF SystemAgrees, G92Agrees, ParserState
  <2>5. About(b, m) \in Systems
    BY <2>2 DEF About, Words
  <2>6. nvs' = CASE b.nonModal \in {"set", "setHere"} -> [nvs EXCEPT ![About(b, m)] = blk.new]
                 [] b.nonModal = "setHome" -> [nvs EXCEPT !["G28"] = gc.pos]
                 [] b.nonModal = "offset" -> [nvs EXCEPT !["G92"] = blk.new]
                 [] b.nonModal = "reset" -> [nvs EXCEPT !["G92"] = 0]
                 [] OTHER -> nvs
    BY <1>4 DEF Apply
  <2>7. gc'.cs \in Systems
    BY <1>4, <1>t, <2>2, <2>4, ApplyEffect
  <2>8. /\ "G28" \notin Systems /\ "G92" \notin Systems /\ "G28" # "G92"
        /\ {"G28", "G92"} \subseteq Stored /\ Systems \subseteq Stored
    BY SystemsAssumption, SystemsAreStored
  <2>9. gc'.data = IF b.nonModal \in {"set", "setHere"} /\ About(b, m) = gc'.cs
                   THEN blk.new ELSE nvs[gc'.cs]
    BY <1>4, <1>t, <2>3, <2>4, ApplyEffect
  <2>10. SystemAgrees'
    BY <1>t, <2>5, <2>6, <2>7, <2>8, <2>9 DEF SystemAgrees
  <2>11. gc'.g92 = CASE b.nonModal = "offset" -> blk.new
                     [] b.nonModal \in {"reset", "clear"} -> 0
                     [] b.nonModal = "restore" -> nvs["G92"]
                     [] OTHER -> gc.g92
    BY <1>4, <1>t, ApplyEffect
  <2>12. G92Agrees'
    BY <1>t, <2>4, <2>5, <2>6, <2>8, <2>11 DEF G92Agrees
  <2> QED
    BY <2>10, <2>12
<1>5. CASE ProgramEnd
  <2>1. gc'.cs = Default /\ gc'.data = nvs[Default] /\ gc'.g92 = gc.g92
    BY <1>5, <1>t DEF ProgramEnd, ParserState
  <2>2. nvs' = [nvs EXCEPT !["G92"] = gc.g92]
    BY <1>5 DEF ProgramEnd
  <2> QED
    BY <1>t, <2>1, <2>2, SystemsAssumption, SystemsAreStored DEF SystemAgrees, G92Agrees
<1>6. CASE Stop
  <2>1. Halt(Warm(TRUE, nvs)) /\ nvs' = nvs
    BY <1>6 DEF Stop
  <2>2. Warm(TRUE, nvs) \in ParserState
    BY <1>t, WarmType
  <2> QED
    BY <1>t, <2>1, <2>2, RestartEffect, WarmEffect DEF SystemAgrees, G92Agrees
<1>7. CASE Reset
  <2>1. Halt(Warm(KeepOffsets, nvs)) /\ nvs' = nvs
    BY <1>7 DEF Reset
  <2>2. Warm(KeepOffsets, nvs) \in ParserState
    BY <1>t, ParametersAssumption, WarmType
  <2> QED
    BY <1>t, <2>1, <2>2, ParametersAssumption, RestartEffect, WarmEffect
       DEF SystemAgrees, G92Agrees
<1>8. CASE Restore
  <2> DEFINE w == Warm(KeepOffsets, nvs')
             g == [w EXCEPT !.g92 = 0]
  <2>1. Halt(g) /\ nvs' = [s \in Stored |-> 0]
    BY <1>8 DEF Restore
  <2>2. nvs' \in [Stored -> Int]
    BY <2>1
  <2>3. w \in ParserState
    BY <1>t, <2>2, ParametersAssumption, WarmType
  <2>4. w.data = nvs'[w.cs]
    BY <1>t, <2>2, ParametersAssumption, WarmEffect
  <2> HIDE DEF w
  <2>5. g \in ParserState
    BY <2>3, NoG92Type
  <2>6. g.cs = w.cs /\ g.data = w.data /\ g.g92 = 0
    BY <2>3 DEF ParserState
  <2> HIDE DEF g
  <2>7. gc'.cs = g.cs /\ gc'.data = g.data /\ gc'.g92 = g.g92
    BY <1>t, <2>1, <2>5, RestartEffect
  <2> QED
    BY <2>4, <2>6, <2>7 DEF SystemAgrees, G92Agrees
<1>9. CASE PowerUp
  BY <1>9 DEF PowerUp, Cold, SystemAgrees, G92Agrees
<1> QED
  BY <1>1, <1>2, <1>3, <1>4, <1>5, <1>6, <1>7, <1>8, <1>9 DEF Next, Step

LEMMA FitsNext == IInv /\ [Next]_vars => BlockFits'
<1> SUFFICES ASSUME IInv, [Next]_vars PROVE BlockFits'
  OBVIOUS
<1>t. TypeOK /\ SystemAgrees /\ BlockFits /\ gc \in ParserState
  BY DEF IInv, TypeOK
<1>i. blk # NoBlock => blk \in InStep4
  BY <1>t DEF TypeOK
<1>n. Idle => blk = NoBlock
  BY <1>i DEF Idle, InStep4
<1>1. ASSUME NEW b \in Blocks, Accept(b) PROVE BlockFits'
  <2>1. blk'.b = b /\ blk'.m = Modal(b) /\ nvs' = nvs /\ ~EarlyError(b, Modal(b))
    BY <1>1 DEF Accept
  <2>2. b.tool = "G43.1" => b.axis # {}
    BY <2>1 DEF EarlyError
  <2>3. b.cs # "same" => Modal(b).data = nvs[Modal(b).cs]
    BY <1>t DEF Modal, SystemAgrees
  <2> QED
    BY <2>1, <2>2, <2>3 DEF BlockFits
<1>2. ASSUME NEW b \in Blocks, Reject(b) PROVE BlockFits'
  BY <1>2, <1>t DEF Reject, BlockFits
<1>3. CASE DwellEnds
  <2>1. blk \in InStep4
    BY <1>3, <1>i DEF DwellEnds, NoBlock
  <2>2. blk'.b = blk.b /\ blk'.m = blk.m /\ nvs' = nvs /\ blk.stage = "dwell" /\ blk # NoBlock
    BY <1>3, <2>1 DEF DwellEnds, InStep4, NoBlock
  <2> QED
    BY <1>t, <2>2 DEF BlockFits
<1>4. CASE Apply \/ PlanMove \/ MovesEnd
  <2>1. blk \in InStep4 /\ blk # NoBlock
    BY <1>4, <1>i DEF Apply, PlanMove, MovesEnd, NoBlock
  <2>2. blk' = NoBlock \/ (blk'.b = blk.b /\ blk'.stage \in {"moves", "end"})
    BY <1>4, <2>1 DEF Apply, PlanMove, MovesEnd, InStep4
  <2> QED
    BY <1>t, <2>1, <2>2 DEF BlockFits
<1>5. CASE ProgramEnd \/ Reset \/ PowerUp
  BY <1>5 DEF ProgramEnd, Reset, PowerUp, BlockFits
<1>6. CASE Execute \/ Stop \/ UNCHANGED vars
  BY <1>6, <1>t DEF Execute, Stop, vars, BlockFits
<1>7. CASE Restore
  BY <1>7, <1>n DEF Restore, BlockFits
<1> QED
  BY <1>1, <1>2, <1>3, <1>4, <1>5, <1>6, <1>7 DEF Next, Step

-----------------------------------------------------------------------------
\* The slots of planned moves

LEMMA NextSlot ==
  ASSUME NEW s \in 0..(Slots - 1)
  PROVE  (s + 1) % Slots = IF s + 1 = Slots THEN 0 ELSE s + 1
<1>1. CASE s + 1 = Slots
  BY <1>1, ParametersAssumption
<1>2. CASE s + 1 < Slots
  BY <1>2, ParametersAssumption
<1> QED
  BY <1>1, <1>2, ParametersAssumption

\* The slot of a move is reached again only after Slots - 1 further offsets.
LEMMA DistanceGrows ==
  ASSUME TypeOK, gc'.slot = (gc.slot + 1) % Slots, NEW s \in 0..(Slots - 1)
  PROVE  /\ (IF s <= gc'.slot THEN gc'.slot - s ELSE gc'.slot - s + Slots) <= Distance(s) + 1
         /\ gc'.slot = s => Distance(s) + 1 >= Slots
<1>1. gc.slot \in 0..(Slots - 1) /\ Slots \in Nat \ {0}
  BY ParametersAssumption DEF TypeOK, ParserState
<1>2. gc'.slot = IF gc.slot + 1 = Slots THEN 0 ELSE gc.slot + 1
  BY <1>1, NextSlot
<1> QED
  BY <1>1, <1>2 DEF Distance

LEMMA SlotFitsNext == IInv /\ [Next]_vars => SlotFits'
<1> SUFFICES ASSUME IInv, [Next]_vars PROVE SlotFits'
  OBVIOUS
<1>t. TypeOK /\ SlotFits /\ gc \in ParserState
  BY DEF IInv, TypeOK
<1>i. blk # NoBlock => blk \in InStep4
  BY <1>t DEF TypeOK
<1>n. Idle <=> blk = NoBlock
  BY <1>i DEF Idle, InStep4, NoBlock
<1>1. ASSUME NEW b \in Blocks, Accept(b) PROVE SlotFits'
  <2>1. blk'.slot = gc.slot /\ gc'.slot = gc.slot
    BY <1>1, <1>t, CheckKeeps DEF Accept, SameOffsets
  <2> QED
    BY <2>1 DEF SlotFits
<1>2. ASSUME NEW b \in Blocks, Reject(b) PROVE SlotFits'
  <2>1. gc'.slot = gc.slot /\ blk' = blk /\ cancel' = cancel
    BY <1>2, <1>t, CheckKeeps DEF Reject, SameOffsets
  <2> QED
    BY <1>t, <2>1 DEF SlotFits
<1>3. CASE DwellEnds
  <2>1. blk \in InStep4 /\ blk # NoBlock
    BY <1>3, <1>i DEF DwellEnds, NoBlock
  <2>2. /\ blk'.slot = blk.slot /\ gc'.slot = gc.slot /\ cancel' = cancel
        /\ blk.stage = "dwell"
    BY <1>3, <2>1 DEF DwellEnds, InStep4
  <2> QED
    BY <1>t, <2>1, <2>2 DEF SlotFits
<1>4. CASE Apply
  <2>1. blk \in InStep4 /\ blk # NoBlock
    BY <1>4, <1>i DEF Apply, NoBlock
  <2>2. /\ blk'.slot = blk.slot /\ blk'.b = blk.b /\ cancel' = cancel
        /\ blk.stage = "apply" /\ blk'.stage = "moves"
    BY <1>4, <2>1 DEF Apply, InStep4
  <2>3. gc'.slot = IF blk.b.nonModal \in NewG92 THEN (gc.slot + 1) % Slots ELSE gc.slot
    BY <1>4, <1>t, ApplyEffect
  <2> QED
    BY <1>t, <2>1, <2>2, <2>3 DEF SlotFits
<1>5. CASE PlanMove \/ MovesEnd
  <2>1. blk \in InStep4 /\ blk # NoBlock
    BY <1>5, <1>i DEF PlanMove, MovesEnd, NoBlock
  <2>3. gc'.slot = gc.slot
    BY <1>5, <1>t, MotionKeeps DEF SameOffsets
  <2>2. \/ blk' = NoBlock
        \/ /\ blk'.slot = blk.slot /\ blk'.b = blk.b /\ cancel' = cancel
           /\ blk'.stage \in {"moves", "end"} /\ blk.stage = "moves"
    BY <1>5, <2>1 DEF PlanMove, MovesEnd, InStep4
  <2> QED
    BY <1>t, <2>1, <2>2, <2>3 DEF SlotFits
<1>6. CASE ProgramEnd \/ Reset \/ PowerUp
  BY <1>6 DEF ProgramEnd, Reset, PowerUp, SlotFits
<1>7. CASE Execute \/ UNCHANGED vars
  BY <1>7, <1>t DEF Execute, vars, SlotFits
<1>8. CASE Stop
  BY <1>8, <1>n DEF Stop, SlotFits
<1>9. CASE Restore
  BY <1>9, <1>n DEF Restore, SlotFits
<1> QED
  BY <1>1, <1>2, <1>3, <1>4, <1>5, <1>6, <1>7, <1>8, <1>9 DEF Next, Step

LEMMA AgingNext == IInv /\ [Next]_vars => (Aging /\ SlotsAgree)'
<1> SUFFICES ASSUME IInv, [Next]_vars PROVE Aging' /\ SlotsAgree'
  OBVIOUS
<1>t. TypeOK /\ SlotFits /\ Aging /\ SlotsAgree /\ gc \in ParserState /\ queue \in Seq(Move)
  BY DEF IInv, TypeOK
<1>m. \A i \in 1..Len(queue) : queue[i] \in Move
  BY <1>t
<1>i. blk # NoBlock => blk \in InStep4
  BY <1>t DEF TypeOK
<1>k. ASSUME SameOffsets, queue' = queue PROVE Aging' /\ SlotsAgree'
  BY <1>t, <1>k DEF SameOffsets, Aging, Distance, SlotsAgree
<1>e. ASSUME queue' = <<>> PROVE Aging' /\ SlotsAgree'
  BY <1>e DEF Aging, SlotsAgree
<1>1. ASSUME NEW b \in Blocks, Accept(b) \/ Reject(b) PROVE Aging' /\ SlotsAgree'
  BY <1>1, <1>t, <1>k, CheckKeeps DEF Accept, Reject
<1>2. CASE DwellEnds \/ UNCHANGED vars
  BY <1>2, <1>k DEF DwellEnds, vars, SameOffsets
<1>3. CASE MovesEnd
  BY <1>3, <1>t, <1>k, MotionKeeps DEF MovesEnd
<1>4. CASE ProgramEnd
  BY <1>4, <1>t DEF ProgramEnd, ParserState, Aging, Distance, SlotsAgree
<1>5. CASE Stop \/ Reset \/ Restore \/ PowerUp
  BY <1>5, <1>e DEF Stop, Reset, Restore, PowerUp, Halt
<1>6. CASE Execute
  <2>1. queue' = Tail(queue) /\ gc' = gc /\ queue # <<>>
    BY <1>6 DEF Execute
  <2>2. Len(queue') = Len(queue) - 1 /\ \A i \in 1..Len(queue') : queue'[i] = queue[i + 1]
    BY <1>t, <2>1
  <2>3. \A i \in 1..Len(queue') : i + 1 \in 1..Len(queue)
    BY <1>t, <2>2
  <2> QED
    BY <1>t, <2>1, <2>2, <2>3 DEF Aging, Distance, SlotsAgree
<1>7. CASE PlanMove
  <2>1. blk \in InStep4 /\ blk # NoBlock /\ ~cancel /\ SameOffsets
    BY <1>7, <1>t, <1>i, MotionKeeps DEF PlanMove, NoBlock
  <2> DEFINE e == [target |-> Head(blk.moves), jog |-> blk.b.jog,
                   slot |-> blk.slot, g92 |-> blk.g92,
                   age |-> IF blk.b.nonModal \in NewG92 THEN 1 ELSE 0,
                   kept |-> gc.slots[blk.slot] = blk.g92,
                   feed |-> IF Rapid(blk.b, blk.m) THEN "rapid" ELSE blk.feed,
                   mode |-> blk.m.feedMode]
  <2>2. queue' = queue \/ queue' = Append(queue, e)
    BY <1>7 DEF PlanMove
  <2>3. e.slot \in 0..(Slots - 1)
    BY <2>1 DEF InStep4
  <2>4. Distance(e.slot) <= e.age
    <3>1. gc.slot = blk.slot \/ (blk.b.nonModal \in NewG92 /\ gc.slot = (blk.slot + 1) % Slots)
      BY <1>t, <2>1 DEF SlotFits
    <3>2. blk.slot \in 0..(Slots - 1) /\ Slots \in Nat \ {0}
      BY <2>1, ParametersAssumption DEF InStep4
    <3>3. (blk.slot + 1) % Slots = IF blk.slot + 1 = Slots THEN 0 ELSE blk.slot + 1
      BY <3>2, NextSlot
    <3>4. CASE gc.slot = blk.slot
      BY <3>2, <3>4 DEF Distance
    <3>5. CASE blk.b.nonModal \in NewG92 /\ gc.slot = (blk.slot + 1) % Slots
      BY <3>2, <3>3, <3>5 DEF Distance
    <3> QED
      BY <3>1, <3>4, <3>5
  <2>5. e.kept => gc.slots[e.slot] = e.g92
    OBVIOUS
  <2> HIDE DEF e
  <2>6. ASSUME queue' = Append(queue, e) PROVE Aging' /\ SlotsAgree'
    <3>1. Len(queue') = Len(queue) + 1 /\ queue'[Len(queue) + 1] = e
          /\ \A i \in 1..Len(queue) : queue'[i] = queue[i]
      BY <1>t, <2>6
    <3>2. \A i \in 1..Len(queue') : i \in 1..Len(queue) \/ i = Len(queue) + 1
      BY <1>t, <3>1
    <3>3. \A s : Distance(s)' = Distance(s)
      BY <2>1 DEF SameOffsets, Distance
    <3> QED
      BY <1>t, <2>1, <2>4, <2>5, <3>1, <3>2, <3>3 DEF Aging, SlotsAgree, SameOffsets
  <2> QED
    BY <1>k, <2>1, <2>2, <2>6
<1>8. CASE Apply
  <2> DEFINE next == (gc.slot + 1) % Slots
  <2>1. CASE blk.b.nonModal \notin NewG92
    <3>1. queue' = queue /\ gc'.slot = gc.slot /\ gc'.slots = gc.slots
      BY <1>8, <1>t, <2>1, ApplyEffect DEF Apply
    <3> QED
      BY <1>t, <3>1 DEF Aging, Distance, SlotsAgree
  <2>2. CASE blk.b.nonModal \in NewG92
    <3>1. /\ queue' = Aged /\ gc'.slot = next
          /\ gc'.slots = [gc.slots EXCEPT ![next] = gc'.g92]
      BY <1>8, <1>t, <2>2, ApplyEffect DEF Apply
    <3>2. /\ Len(queue') = Len(queue)
          /\ \A i \in 1..Len(queue) : queue'[i] = [queue[i] EXCEPT !.age = @ + 1]
      BY <1>t, <3>1 DEF Aged
    <3>3. \A s \in 0..(Slots - 1) :
             /\ (IF s <= gc'.slot THEN gc'.slot - s ELSE gc'.slot - s + Slots)
                   <= Distance(s) + 1
             /\ gc'.slot = s => Distance(s) + 1 >= Slots
      BY <1>t, <3>1, DistanceGrows
    <3>4. ASSUME NEW i \in 1..Len(queue)
          PROVE  /\ Distance(queue[i].slot)' <= (queue[i].age)'
                 /\ (queue[i].kept /\ queue[i].age < Slots
                       => gc.slots[queue[i].slot] = queue[i].g92)'
      <4> DEFINE s == queue[i].slot
                 n == queue[i].age
      <4>1. queue[i] \in Move
        BY <1>m
      <4>2. /\ queue'[i].slot = s /\ queue'[i].g92 = queue[i].g92
            /\ queue'[i].kept = queue[i].kept /\ queue'[i].age = n + 1
            /\ s \in 0..(Slots - 1) /\ n \in Nat
        BY <3>2, <4>1 DEF Move
      <4>3. Distance(s) <= n
        BY <1>t DEF Aging
      <4>4. queue[i].kept /\ n < Slots => gc.slots[s] = queue[i].g92
        BY <1>t DEF SlotsAgree
      <4>5. /\ gc.slot \in 0..(Slots - 1) /\ gc'.slot \in 0..(Slots - 1)
            /\ gc.slots \in [0..(Slots - 1) -> Int] /\ Slots \in Nat
        BY <1>t, <3>1, ParametersAssumption DEF ParserState
      <4> HIDE DEF s, n
      <4>9. Distance(s) \in Int
        BY <4>2, <4>5 DEF Distance
      <4>6. (IF s <= gc'.slot THEN gc'.slot - s ELSE gc'.slot - s + Slots) <= n + 1
        <5>1. (IF s <= gc'.slot THEN gc'.slot - s ELSE gc'.slot - s + Slots) <= Distance(s) + 1
          BY <3>3, <4>2
        <5> QED
          BY <4>2, <4>3, <4>5, <4>9, <5>1
      <4>7. Distance(queue[i].slot)' <= (queue[i].age)'
        BY <4>2, <4>6 DEF Distance, s
      <4>8. queue[i].kept /\ n + 1 < Slots => gc'.slots[s] = queue[i].g92
        <5>1. n + 1 < Slots => gc'.slot # s
          BY <3>3, <4>2, <4>3, <4>5, <4>9
        <5>2. n + 1 < Slots => n < Slots
          BY <4>2, <4>5
        <5> QED
          BY <3>1, <4>2, <4>4, <4>5, <5>1, <5>2
      <4> QED
        BY <4>2, <4>7, <4>8 DEF s
    <3> QED
      BY <3>2, <3>4 DEF Aging, SlotsAgree
  <2> QED
    BY <2>1, <2>2
<1> QED
  BY <1>1, <1>2, <1>3, <1>4, <1>5, <1>6, <1>7, <1>8 DEF Next, Step

-----------------------------------------------------------------------------
\* The theorems

LEMMA InvInit == Init => IInv
<1> SUFFICES ASSUME Init PROVE IInv
  OBVIOUS
<1>1. TypeOK
  BY TypeInit
<1>2. SystemAgrees /\ G92Agrees
  BY SystemsAssumption DEF Init, Cold, SystemAgrees, G92Agrees
<1>3. BlockFits /\ SlotFits
  BY DEF Init, BlockFits, SlotFits
<1>4. Aging /\ SlotsAgree
  BY DEF Init, Aging, SlotsAgree
<1> QED
  BY <1>1, <1>2, <1>3, <1>4 DEF IInv

LEMMA InvNext == IInv /\ [Next]_vars => IInv'
<1>1. IInv /\ [Next]_vars => TypeOK'
  BY TypeNext DEF IInv
<1> QED
  BY <1>1, AgreeNext, FitsNext, SlotFitsNext, AgingNext DEF IInv

\* gc_state, the store, the planned moves and the block in step 4 keep their
\* types: no index leaves offset_queue, and no word is read that the block
\* does not have.
THEOREM TypeCorrect == Spec => []TypeOK
<1>1. IInv => TypeOK
  BY DEF IInv
<1> QED
  BY InvInit, InvNext, <1>1, PTL DEF Spec

\* After G10, G54 to G59, G92, M2 or $RST=#, and after a stop, a reset or a
\* power loss at any point of a block, gc_state agrees with the stored
\* offsets, and every planned move finds its G92 offset in its slot.
THEOREM OffsetsAreKept == Spec => []OffsetsAgree
<1>1. IInv => OffsetsAgree
  BY DEF IInv, OffsetsAgree
<1> QED
  BY InvInit, InvNext, <1>1, PTL DEF Spec

-----------------------------------------------------------------------------
\* Feed rates: a second invariant, for programs whose M2 stands in a block
\* without an F word.  ProgramEnd sets G94 and keeps the feed rate: after
\* G93 G1 X F M2 an inverse time would be taken for units per minute.

EndsWithoutFeed == \A b \in Blocks : b.end => ~b.f

FeedFits == /\ gc.feed \in {"none", gc.feedMode}
            /\ blk # NoBlock =>
                 /\ blk.b.end => gc.feed # "inverse"
                 /\ blk.stage = "end" => blk.b.end
                 /\ /\ blk.stage \in {"dwell", "apply"} /\ AxisCommand(blk.b) = "motion"
                    /\ blk.m.motion \in {"linear", "drill"}
                    => blk.feed = blk.m.feedMode
                 /\ blk.stage = "moves" /\ blk.moves # <<>>
                    => Rapid(blk.b, blk.m) \/ blk.feed = blk.m.feedMode

FInv == TypeOK /\ FeedFits /\ FeedIsOwn

LEMMA FeedInit == Init => FeedFits /\ FeedIsOwn
  BY DEF Init, Cold, FeedFits, FeedIsOwn, NoBlock

LEMMA FeedAccept ==
  ASSUME EndsWithoutFeed, TypeOK, FeedFits, NEW b \in Blocks, Accept(b)
  PROVE  FeedFits'
<1> DEFINE m == Modal(b)
<1>t. gc \in ParserState /\ b \in Words
  BY BlockIsWords DEF TypeOK
<1>1. m \in ModalState /\ ~EarlyError(b, m) /\ ~LateError(b, m)
  BY ModalType DEF TypeOK, Accept
<1>2. m.feedMode \in {"inverse", "perMin"} /\ gc.feed \in {"none", gc.feedMode}
  BY <1>1 DEF ModalState, FeedFits
<1>3. /\ b.jog => b.f /\ ~b.end
      /\ b.end => ~b.f
  BY <1>1 DEF EarlyError, LateError, JogWords, EndsWithoutFeed
<1>4. /\ BlockFeed(b, m) \in {"none", m.feedMode}
      /\ b.f => BlockFeed(b, m) = m.feedMode
      /\ ~b.f /\ m.feedMode = "inverse" => BlockFeed(b, m) = "none"
  BY <1>2, <1>3 DEF BlockFeed, KeptFeed
<1>5. /\ blk'.b = b /\ blk'.m = m /\ blk'.feed = BlockFeed(b, m)
      /\ blk'.stage # "end" /\ (~b.jog => blk'.stage # "moves")
  BY DEF Accept
<1> HIDE DEF m
<1>6. CASE b.jog
  <2>1. gc'.feed = gc.feed /\ gc'.feedMode = gc.feedMode
    BY <1>t, <1>6 DEF Accept, Checked, KeptFeed, ParserState
  <2> QED
    BY <1>2, <1>3, <1>4, <1>5, <1>6, <2>1 DEF FeedFits
<1>7. CASE ~b.jog
  <2>1. gc'.feed = BlockFeed(b, m) /\ gc'.feedMode = m.feedMode
    BY <1>t, <1>7 DEF Accept, Checked, ParserState, m
  <2>2. AxisCommand(b) = "motion" /\ m.motion \in {"linear", "drill"}
           => BlockFeed(b, m) = m.feedMode
    BY <1>1, <1>4 DEF EarlyError
  <2> QED
    BY <1>2, <1>3, <1>4, <1>5, <1>7, <2>1, <2>2 DEF FeedFits
<1> QED
  BY <1>6, <1>7

LEMMA FeedRestart ==
  ASSUME TypeOK, NEW g \in ParserState, g.feed = "none", Halt(g),
         blk' = NoBlock \/ blk' = blk, FeedFits
  PROVE  FeedFits'
<1>1. gc'.feed = "none"
  BY DEF Halt, ParserState
<1> QED
  BY <1>1 DEF FeedFits

LEMMA WarmFeed ==
  ASSUME TypeOK, NEW keep \in BOOLEAN, NEW store \in [Stored -> Int]
  PROVE  Warm(keep, store).feed = "none"
  BY DEF Warm, Cold

LEMMA FeedNext == EndsWithoutFeed /\ FInv /\ [Next]_vars => FeedFits'
<1> SUFFICES ASSUME EndsWithoutFeed, FInv, [Next]_vars PROVE FeedFits'
  OBVIOUS
<1>t. TypeOK /\ FeedFits /\ gc \in ParserState /\ nvs \in [Stored -> Int]
  BY DEF FInv, TypeOK
<1>i. blk # NoBlock => blk \in InStep4
  BY <1>t DEF TypeOK
<1>1. ASSUME NEW b \in Blocks, Accept(b) PROVE FeedFits'
  BY <1>1, <1>t, FeedAccept
<1>2. ASSUME NEW b \in Blocks, Reject(b) PROVE FeedFits'
  <2>1. blk' = blk /\ blk = NoBlock
    BY <1>2, <1>i DEF Reject, NewBlock, Idle, InStep4
  <2>2. gc'.feedMode = gc.feedMode /\ gc'.feed = KeptFeed(b, Modal(b))
    BY <1>2, <1>t DEF Reject, Checked, ParserState
  <2>3. KeptFeed(b, Modal(b)) \in {"none", gc.feed}
    BY DEF KeptFeed
  <2> QED
    BY <1>t, <2>1, <2>2, <2>3 DEF FeedFits
<1>3. CASE DwellEnds
  <2>1. blk \in InStep4 /\ blk # NoBlock
    BY <1>3, <1>i DEF DwellEnds, NoBlock
  <2>2. /\ gc' = gc /\ blk'.b = blk.b /\ blk'.m = blk.m /\ blk'.feed = blk.feed
        /\ blk.stage = "dwell" /\ blk'.stage = "apply"
    BY <1>3, <2>1 DEF DwellEnds, InStep4
  <2> QED
    BY <1>t, <2>1, <2>2 DEF FeedFits
<1>4. CASE Apply
  <2>1. blk \in InStep4 /\ blk # NoBlock
    BY <1>4, <1>i DEF Apply, NoBlock
  <2>2. /\ blk'.b = blk.b /\ blk'.m = blk.m /\ blk'.feed = blk.feed
        /\ blk.stage = "apply" /\ blk'.stage = "moves"
        /\ blk'.moves # <<>> => Moves(blk.b, blk.m) # <<>>
    BY <1>4, <2>1 DEF Apply, InStep4
  <2>3. gc'.feed = gc.feed /\ gc'.feedMode = gc.feedMode
    BY <1>4, <1>t, ApplyFeed
  <2>4. Moves(blk.b, blk.m) # <<>>
           => \/ Rapid(blk.b, blk.m)
              \/ AxisCommand(blk.b) = "motion" /\ blk.m.motion \in {"linear", "drill"}
    BY DEF Moves, Rapid
  <2> QED
    BY <1>t, <2>1, <2>2, <2>3, <2>4 DEF FeedFits
<1>5. CASE PlanMove \/ MovesEnd
  <2>1. blk \in InStep4 /\ blk # NoBlock /\ blk.stage = "moves"
    BY <1>5, <1>i DEF PlanMove, MovesEnd, NoBlock
  <2>2. gc'.feed = gc.feed /\ gc'.feedMode = gc.feedMode
    <3>1. CASE PlanMove
      BY <1>t, <3>1 DEF PlanMove, ParserState
    <3>2. CASE MovesEnd
      BY <1>t, <3>2 DEF MovesEnd, ParserState
    <3> QED
      BY <1>5, <3>1, <3>2
  <2>3. \/ blk' = NoBlock
        \/ /\ blk'.b = blk.b /\ blk'.m = blk.m /\ blk'.feed = blk.feed
           /\ blk'.stage = "moves" \/ (blk'.stage = "end" /\ blk.b.end)
           /\ blk'.stage = "moves" /\ blk'.moves # <<>> => blk.moves # <<>>
    BY <1>5, <2>1 DEF PlanMove, MovesEnd, InStep4
  <2> QED
    BY <1>t, <2>1, <2>2, <2>3 DEF FeedFits
<1>6. CASE ProgramEnd
  <2>1. blk \in InStep4 /\ blk # NoBlock /\ blk.stage = "end" /\ blk' = NoBlock
    BY <1>6, <1>i DEF ProgramEnd, NoBlock
  <2>2. gc'.feed = gc.feed /\ gc'.feedMode = "perMin"
    BY <1>6, <1>t DEF ProgramEnd, ParserState
  <2>3. blk.b.end
    BY <2>1 DEF FInv, FeedFits
  <2> QED
    BY <1>t, <2>1, <2>2, <2>3 DEF FeedFits, ParserState
<1>7. CASE Execute \/ UNCHANGED vars
  BY <1>7, <1>t DEF Execute, vars, FeedFits
<1>8. CASE Stop \/ Reset
  <2>1. PICK keep \in BOOLEAN : Halt(Warm(keep, nvs)) /\ (blk' = NoBlock \/ blk' = blk)
    BY <1>8, ParametersAssumption DEF Stop, Reset
  <2>2. Warm(keep, nvs) \in ParserState /\ Warm(keep, nvs).feed = "none"
    BY <1>t, WarmType, WarmFeed
  <2> QED
    BY <1>t, <2>1, <2>2, FeedRestart
<1>9. CASE Restore
  <2> DEFINE w == Warm(KeepOffsets, nvs')
             g == [w EXCEPT !.g92 = 0]
  <2>1. Halt(g) /\ nvs' \in [Stored -> Int] /\ blk' = blk
    BY <1>9 DEF Restore
  <2>2. w \in ParserState /\ w.feed = "none"
    BY <1>t, <2>1, ParametersAssumption, WarmType, WarmFeed
  <2> HIDE DEF w
  <2>3. g \in ParserState /\ g.feed = "none"
    BY <2>2, NoG92Type DEF ParserState
  <2> QED
    BY <1>t, <2>1, <2>3, FeedRestart
<1>10. CASE PowerUp
  BY <1>10 DEF PowerUp, Cold, FeedFits
<1> QED
  BY <1>1, <1>2, <1>3, <1>4, <1>5, <1>6, <1>7, <1>8, <1>9, <1>10 DEF Next, Step

LEMMA OwnNext == FInv /\ [Next]_vars => FeedIsOwn'
<1> SUFFICES ASSUME FInv, [Next]_vars PROVE FeedIsOwn'
  OBVIOUS
<1>t. TypeOK /\ FeedFits /\ FeedIsOwn /\ queue \in Seq(Move)
  BY DEF FInv, TypeOK
<1>m. \A i \in 1..Len(queue) : queue[i] \in Move
  BY <1>t
<1>1. CASE queue' = queue
  BY <1>1, <1>t DEF FeedIsOwn
<1>2. CASE queue' = <<>>
  BY <1>2 DEF FeedIsOwn
<1>3. CASE queue' = Aged
  <2>1. /\ Len(queue') = Len(queue)
        /\ \A i \in 1..Len(queue) : queue'[i] = [queue[i] EXCEPT !.age = @ + 1]
    BY <1>t, <1>3 DEF Aged
  <2>2. \A i \in 1..Len(queue) :
           queue'[i].feed = queue[i].feed /\ queue'[i].mode = queue[i].mode
    BY <1>m, <2>1 DEF Move
  <2> QED
    BY <1>t, <2>1, <2>2 DEF FeedIsOwn
<1>4. CASE Execute
  <2>1. queue' = Tail(queue) /\ queue # <<>>
    BY <1>4 DEF Execute
  <2>2. Len(queue') = Len(queue) - 1 /\ \A i \in 1..Len(queue') : queue'[i] = queue[i + 1]
    BY <1>t, <2>1
  <2>3. \A i \in 1..Len(queue') : i + 1 \in 1..Len(queue)
    BY <1>t, <2>2
  <2> QED
    BY <1>t, <2>2, <2>3 DEF FeedIsOwn
<1>5. CASE PlanMove
  <2> DEFINE e == [target |-> Head(blk.moves), jog |-> blk.b.jog,
                   slot |-> blk.slot, g92 |-> blk.g92,
                   age |-> IF blk.b.nonModal \in NewG92 THEN 1 ELSE 0,
                   kept |-> gc.slots[blk.slot] = blk.g92,
                   feed |-> IF Rapid(blk.b, blk.m) THEN "rapid" ELSE blk.feed,
                   mode |-> blk.m.feedMode]
  <2>1. queue' = queue \/ queue' = Append(queue, e)
    BY <1>5 DEF PlanMove
  <2>2. e.feed \in {"rapid", e.mode}
    <3>1. blk # NoBlock /\ blk.stage = "moves" /\ blk.moves # <<>>
      BY <1>5 DEF PlanMove, NoBlock
    <3> QED
      BY <1>t, <3>1 DEF FeedFits
  <2> HIDE DEF e
  <2>3. ASSUME queue' = Append(queue, e) PROVE FeedIsOwn'
    <3>1. Len(queue') = Len(queue) + 1 /\ queue'[Len(queue) + 1] = e
          /\ \A i \in 1..Len(queue) : queue'[i] = queue[i]
      BY <1>t, <2>3
    <3>2. \A i \in 1..Len(queue') : i \in 1..Len(queue) \/ i = Len(queue) + 1
      BY <1>t, <3>1
    <3> QED
      BY <1>t, <2>2, <3>1, <3>2 DEF FeedIsOwn
  <2> QED
    BY <1>1, <2>1, <2>3
<1>6. queue' = queue \/ queue' = <<>> \/ queue' = Aged \/ Execute \/ PlanMove
  BY DEF Next, Step, Accept, Reject, DwellEnds, Apply, MovesEnd, ProgramEnd, Stop, Reset,
         Restore, PowerUp, Halt, vars
<1> QED
  BY <1>1, <1>2, <1>3, <1>4, <1>5, <1>6

\* In such programs a feed rate is only ever used in the mode it was given in:
\* a switch between G93 and G94, a block refused halfway, a stop or a reset
\* leaves no rate of the other mode behind.
THEOREM FeedsAreKept == ASSUME EndsWithoutFeed PROVE Spec => []FeedIsOwn
<1>1. Init => FeedFits /\ FeedIsOwn
  BY FeedInit
<1>2. TypeOK /\ FeedFits /\ FeedIsOwn /\ [Next]_vars => (FeedFits /\ FeedIsOwn)'
  BY EndsWithoutFeed, FeedNext, OwnNext DEF FInv
<1> QED
  BY TypeCorrect, <1>1, <1>2, PTL DEF Spec
=============================================================================
