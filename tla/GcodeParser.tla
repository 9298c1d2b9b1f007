---------------------------- MODULE GcodeParser ----------------------------
(***************************************************************************)
(* The g-code parser (gcode.c) between blocks and inside one: gc_state,    *)
(* the stored offsets it mirrors, and the planned moves that still refer   *)
(* to it.  gc_execute_block() checks a whole block first (step 3) and then *)
(* executes it (step 4), where it may wait - in a dwell, for room in the   *)
(* planner, at the end of the program - and stop and reset requests are    *)
(* served in these waits, by gc_init() among other things.                 *)
(*                                                                         *)
(* One axis stands for all of them and numbers are whole.  Motion is G0,   *)
(* G1 or the drill cycle G81 (with G98); plane, units, spindle, coolant,   *)
(* tool table, probing, arcs, scaling and rotation are left out.           *)
(***************************************************************************)
EXTENDS Integers, Sequences

CONSTANTS Systems,        \* G54, G55, ...
          Default,        \* G54
          Blocks,         \* the blocks and jogs that occur
          Interrupts,     \* the requests that occur
          KeepOffsets,    \* settings.flags.keep_offsets_on_reset
          Slots,          \* MAX_OFFSET_ENTRIES
          MaxQueue,       \* bound: moves the planner holds
          MaxBlocks, MaxInterrupts   \* bounds: how many there are

NonModals == {"none", "dwell", "set", "setHere", "home", "setHome", "machine",
              "offset", "reset", "clear", "restore"}
              \* G4, G10 L2, G10 L20, G28, G28.1, G53, G92, G92.1, G92.2, G92.3

\* The words of a block; "same" where there is none.  An axis or R word is the
\* set of its values.
Words == [jog : BOOLEAN, motion : {"same", "none", "seek", "linear", "drill"},
          feedMode : {"same", "inverse", "perMin"}, f : BOOLEAN,
          dist : {"same", "G90", "G91"}, cs : Systems \cup {"same"},
          tool : {"same", "G49", "G43.1"}, nonModal : NonModals,
          p : Systems \cup {"same"}, axis : SUBSET Int, r : SUBSET Int,
          stray : BOOLEAN, end : BOOLEAN]

ASSUME SystemsAssumption == Default \in Systems /\ "same" \notin Systems
                            /\ {"G28", "G92"} \cap Systems = {}
ASSUME BlocksAssumption == Blocks \subseteq Words
ASSUME ParametersAssumption ==
    /\ Interrupts \subseteq {"stop", "reset", "restore", "power"}
    /\ KeepOffsets \in BOOLEAN /\ Slots \in Nat \ {0}
    /\ MaxQueue \in Nat \ {0} /\ MaxBlocks \in Nat /\ MaxInterrupts \in Nat

VARIABLES gc,          \* gc_state
          nvs,         \* the stored coordinate data
          queue,       \* the planned moves; the first may be executing
          actual,      \* sys.position
          blk,         \* the block in step 4, or NoBlock
          cancel,      \* sys.cancel
          blocks, interrupts    \* how many may still come
vars == <<gc, nvs, queue, actual, blk, cancel, blocks, interrupts>>

NoBlock == [stage |-> "none"]
Idle == blk.stage = "none"
Value(w) == CHOOSE v \in w : TRUE

ZeroSlots == [i \in 0..(Slots - 1) |-> 0]
Stored == Systems \cup {"G28", "G92"}

\* gc_state after power-up, its system read from the store
Cold(store) ==
    [motion |-> "seek", canned |-> FALSE, feedMode |-> "perMin", feed |-> "none",
     inc |-> FALSE, cs |-> Default, data |-> store[Default], tool |-> "G49",
     tlo |-> 0, pos |-> 0, g92 |-> store["G92"], slot |-> 0,
     slots |-> [ZeroSlots EXCEPT ![0] = store["G92"]], retract |-> 0, depth |-> 0]

\* gc_init() later on: tlo and g92 stay, with keep the system and the tool mode too
Warm(keep, store) ==
    LET cs == IF keep THEN gc.cs ELSE Default
    IN  [Cold(store) EXCEPT !.cs = cs, !.data = store[cs],
                            !.tool = IF keep THEN gc.tool ELSE "G49",
                            !.tlo = gc.tlo, !.g92 = gc.g92, !.slots = ZeroSlots]

Init == /\ nvs = [s \in Stored |-> 0]
        /\ gc = Cold(nvs)
        /\ queue = <<>> /\ actual = 0
        /\ blk = NoBlock /\ cancel = FALSE
        /\ blocks = MaxBlocks /\ interrupts = MaxInterrupts

-----------------------------------------------------------------------------
(* Steps 1 to 3: words, and errors                                         *)

AxisCommand(b) ==
    IF b.nonModal \in {"set", "setHere", "home", "offset"} THEN "nonModal"
    ELSE IF b.tool = "G43.1" THEN "tool"
    ELSE IF b.axis # {} \/ b.motion \in {"seek", "linear", "drill"} THEN "motion"
    ELSE "none"

\* the block's copy of the modal state, with its words
Modal(b) ==
    [motion |-> IF b.jog THEN "linear" ELSE IF b.motion = "same" THEN gc.motion ELSE b.motion,
     canned |-> IF b.motion = "same" THEN gc.canned ELSE b.motion = "drill",
     feedMode |-> IF b.jog THEN "perMin"
                  ELSE IF b.feedMode = "same" THEN gc.feedMode ELSE b.feedMode,
     inc |-> IF b.dist = "same" THEN gc.inc ELSE b.dist = "G91",
     cs |-> IF b.cs = "same" THEN gc.cs ELSE b.cs,
     data |-> IF b.cs \in {"same", gc.cs} THEN gc.data ELSE nvs[b.cs]]

\* a switch of the feed mode makes the feed rate undefined, accepted or not
KeptFeedAlways(b, m) == gc.feed
KeptFeed(b, m) == IF ~b.jog /\ m.feedMode # gc.feedMode THEN "none" ELSE gc.feed

BlockFeed(b, m) == IF b.f THEN m.feedMode
                   ELSE IF m.feedMode = "inverse" THEN "none" ELSE KeptFeed(b, m)

Offset(m) == m.data + gc.g92 + gc.tlo

Target(b, m) ==
    IF b.axis = {} THEN gc.pos
    ELSE IF b.nonModal = "machine" THEN Value(b.axis)
    ELSE Value(b.axis) + (IF m.inc THEN gc.pos ELSE Offset(m))

\* the value G92 and G10 are about to set
OffsetForgetsTool(b, m) ==
    CASE b.nonModal = "offset" -> gc.pos - m.data - Value(b.axis)
      [] b.nonModal = "setHere" -> gc.pos - Value(b.axis) - gc.g92 - gc.tlo
      [] OTHER -> Value(b.axis)
NewOffset(b, m) ==
    CASE b.nonModal = "offset" -> gc.pos - m.data - Value(b.axis) - gc.tlo
      [] b.nonModal = "setHere" -> gc.pos - Value(b.axis) - gc.g92 - gc.tlo
      [] OTHER -> Value(b.axis)

Drills(b, m) == AxisCommand(b) = "motion" /\ m.motion \notin {"none", "seek"} /\ m.canned

EarlyError(b, m) ==
    \/ (b.jog /\ ~b.f)
    \/ /\ AxisCommand(b) = "motion" /\ m.motion \in {"linear", "drill"}
       /\ BlockFeed(b, m) = "none"
    \/ b.axis = {} /\ (b.nonModal \in {"set", "setHere", "offset"} \/ b.tool = "G43.1")
    \/ b.axis # {} /\ m.motion = "none" /\ AxisCommand(b) # "nonModal"
    \/ b.nonModal = "machine" /\ m.motion \notin {"seek", "linear"}
    \/ /\ b.motion = "drill" /\ gc.motion # "drill"
       /\ gc.feedMode = "inverse" \/ b.r = {} \/ b.axis = {}

\* the canned cycle's parameters are those of gc_state, even for a jog
Retract(b, m) == IF Drills(b, m) /\ b.r # {}
                 THEN Value(b.r) + (IF m.inc THEN gc.pos ELSE Offset(m)) ELSE gc.retract
Depth(b, m) == IF ~Drills(b, m) \/ b.axis = {} THEN gc.depth
               ELSE IF m.inc THEN Retract(b, m) + Target(b, m) - gc.pos ELSE Target(b, m)

\* a jog has axis words, a feed rate, G53 and a distance mode only
JogWords(b) == /\ {b.motion, b.feedMode, b.cs, b.tool} = {"same"}
               /\ b.nonModal \in {"none", "machine"} /\ ~b.end

LateError(b, m) == \/ Drills(b, m) /\ Retract(b, m) < Depth(b, m)
                   \/ b.stray
                   \/ b.r # {} /\ ~Drills(b, m)
                   \/ b.jog /\ ~JogWords(b)

Checked(b, m) == [gc EXCEPT !.feed = KeptFeed(b, m),
                            !.retract = Retract(b, m), !.depth = Depth(b, m)]

NewBlock(b) == Idle /\ blocks > 0 /\ blocks' = blocks - 1

\* g-code is locked out while jogging, and jogs while a cycle runs
Allowed(b) == \A i \in 1..Len(queue) : queue[i].jog = b.jog

Reject(b) ==
    /\ NewBlock(b) /\ Allowed(b)
    /\ LET m == Modal(b)
       IN  \/ /\ EarlyError(b, m)
              /\ gc' = [gc EXCEPT !.feed = KeptFeed(b, m)]
           \/ /\ ~EarlyError(b, m) /\ LateError(b, m)
              /\ gc' = Checked(b, m)
    /\ UNCHANGED <<nvs, queue, actual, blk, cancel, interrupts>>

-----------------------------------------------------------------------------
(* Step 4: execution                                                       *)

\* Up to the dwell: feed mode and feed rate; the planner's data is filled in.
Accept(b) ==
    /\ NewBlock(b) /\ Allowed(b)
    /\ LET m == Modal(b)
           feed == BlockFeed(b, m)
       IN  /\ ~EarlyError(b, m) /\ ~LateError(b, m)
           /\ gc' = IF b.jog THEN Checked(b, m)
                    ELSE [Checked(b, m) EXCEPT !.feedMode = m.feedMode, !.feed = feed]
           /\ blk' = [b |-> b, m |-> m, xyz |-> Target(b, m), new |-> IF b.axis = {} THEN 0 ELSE NewOffset(b, m),
                      feed |-> feed, slot |-> gc.slot, g92 |-> gc.g92, was |-> gc.pos,
                      home |-> nvs["G28"], moves |-> IF b.jog THEN <<Target(b, m)>> ELSE <<>>,
                      stage |-> IF b.jog THEN "moves"
                                ELSE IF b.nonModal = "dwell" THEN "dwell" ELSE "apply"]
    /\ UNCHANGED <<nvs, queue, actual, cancel, interrupts>>

DwellEnds == /\ blk.stage = "dwell" /\ (queue = <<>> \/ cancel)
             /\ blk' = [blk EXCEPT !.stage = "apply"]
             /\ UNCHANGED <<gc, nvs, queue, actual, cancel, blocks, interrupts>>

Moves(b, m) ==
    LET top == IF gc.pos < gc.retract THEN gc.retract ELSE gc.pos
    IN  CASE b.nonModal = "home" -> (IF b.axis = {} THEN <<>> ELSE <<blk.xyz>>) \o <<blk.home>>
          [] b.nonModal # "home" /\ AxisCommand(b) = "motion" /\ m.motion = "drill" ->
                <<top, gc.retract>> \o (IF gc.depth < gc.retract THEN <<gc.depth, top>> ELSE <<>>)
          [] b.nonModal # "home" /\ AxisCommand(b) = "motion" /\ b.axis # {}
             /\ m.motion \in {"seek", "linear"} -> <<blk.xyz>>
          [] OTHER -> <<>>

\* G92 and its relatives: the offsets of moves already planned stay in their slots
AddOffsetInPlace(g, v) == [g EXCEPT !.slots[g.slot] = v, !.g92 = v]
AddOffset(g, v) == LET s == (g.slot + 1) % Slots
                   IN  [g EXCEPT !.slot = s, !.slots[s] = v, !.g92 = v]
NewG92 == {"offset", "reset", "clear", "restore"}
\* how many offsets have been set since a move was planned
Aged == [i \in 1..Len(queue) |-> [queue[i] EXCEPT !.age = @ + 1]]

\* G10: the coordinate system it is about
About(b, m) == IF b.p = "same" THEN m.cs ELSE b.p

NonModal(g, b, m) ==
    CASE b.nonModal \in {"set", "setHere"} /\ About(b, m) = g.cs -> [g EXCEPT !.data = blk.new]
      [] b.nonModal = "offset" -> AddOffset(g, blk.new)
      [] b.nonModal \in {"reset", "clear"} -> AddOffset(g, 0)
      [] b.nonModal = "restore" -> AddOffset(g, nvs["G92"])
      [] OTHER -> g

\* The rest of the modal words and the non-modal commands, up to the first move.
\* The drill cycle moves gc_state.position itself.
Apply ==
    /\ blk.stage = "apply"
    /\ LET b == blk.b
           m == blk.m
           tool == [gc EXCEPT !.tool = IF b.tool = "same" THEN @ ELSE b.tool,
                              !.tlo = CASE b.tool = "G49" -> 0
                                        [] b.tool = "G43.1" -> Value(b.axis)
                                        [] OTHER -> @]
           system == IF b.cs = "same" THEN tool
                     ELSE [tool EXCEPT !.cs = m.cs, !.data = m.data]
           dist == [system EXCEPT !.inc = IF b.dist = "same" THEN @ ELSE m.inc]
           g == NonModal(dist, b, m)
           moves == Moves(b, m)
       IN  /\ gc' = IF b.nonModal = "home" THEN g
                    ELSE [g EXCEPT !.motion = m.motion, !.canned = m.canned,
                                   !.pos = IF m.motion = "drill" /\ moves # <<>>
                                           THEN Head(moves) ELSE @]
           /\ nvs' = CASE b.nonModal \in {"set", "setHere"} -> [nvs EXCEPT ![About(b, m)] = blk.new]
                       [] b.nonModal = "setHome" -> [nvs EXCEPT !["G28"] = gc.pos]
                       [] b.nonModal = "offset" -> [nvs EXCEPT !["G92"] = blk.new]
                       [] b.nonModal = "reset" -> [nvs EXCEPT !["G92"] = 0]
                       [] OTHER -> nvs
           /\ queue' = IF b.nonModal \in NewG92 THEN Aged ELSE queue
           /\ blk' = [blk EXCEPT !.stage = "moves", !.moves = IF cancel THEN <<>> ELSE moves]
    /\ UNCHANGED <<actual, cancel, blocks, interrupts>>

Last == IF queue = <<>> THEN actual ELSE queue[Len(queue)].target
Rapid(b, m) == b.nonModal = "home" \/ m.motion = "seek"

\* mc_line(), when there is room; a move of no length is dropped
PlanMove ==
    /\ blk.stage = "moves" /\ blk.moves # <<>> /\ ~cancel
    /\ Len(queue) < MaxQueue
    /\ LET rest == Tail(blk.moves)
       IN  /\ queue' = IF Head(blk.moves) = Last THEN queue
                       ELSE Append(queue, [target |-> Head(blk.moves), jog |-> blk.b.jog,
                                slot |-> blk.slot, g92 |-> blk.g92,
                                age |-> IF blk.b.nonModal \in NewG92 THEN 1 ELSE 0,
                                kept |-> gc.slots[blk.slot] = blk.g92,
                                feed |-> IF Rapid(blk.b, blk.m) THEN "rapid" ELSE blk.feed,
                                mode |-> blk.m.feedMode])
           /\ blk' = [blk EXCEPT !.moves = rest]
           /\ gc' = IF blk.m.motion = "drill" /\ blk.b.nonModal # "home" /\ rest # <<>>
                    THEN [gc EXCEPT !.pos = Head(rest)] ELSE gc
    /\ UNCHANGED <<nvs, actual, cancel, blocks, interrupts>>

\* The parser's position after the moves; a stop has set it already, but G28
\* and jogs set it again.
MovesEnd ==
    /\ blk.stage = "moves" /\ (blk.moves = <<>> \/ cancel)
    /\ LET b == blk.b
           m == blk.m
           arrived == ~cancel /\ AxisCommand(b) = "motion" /\ m.motion \in {"seek", "linear"}
       IN  /\ gc' = CASE b.jog -> [gc EXCEPT !.pos = blk.xyz]
                      [] b.nonModal = "home" -> [gc EXCEPT !.pos = blk.home, !.motion = m.motion,
                                                           !.canned = m.canned]
                      [] ~b.jog /\ b.nonModal # "home" /\ arrived -> [gc EXCEPT !.pos = blk.xyz]
                      [] OTHER -> gc
           /\ IF b.end THEN blk' = [blk EXCEPT !.stage = "end"] /\ UNCHANGED cancel
                       ELSE blk' = NoBlock /\ cancel' = FALSE
    /\ UNCHANGED <<nvs, queue, actual, blocks, interrupts>>

\* M2: the canned cycle's flag is cleared in the block only
ProgramEnd ==
    /\ blk.stage = "end" /\ (queue = <<>> \/ cancel)
    /\ gc' = [gc EXCEPT !.motion = "linear", !.inc = FALSE, !.feedMode = "perMin",
                        !.cs = Default, !.data = nvs[Default]]
    /\ nvs' = [nvs EXCEPT !["G92"] = gc.g92]
    /\ blk' = NoBlock /\ cancel' = FALSE
    /\ UNCHANGED <<queue, actual, blocks, interrupts>>

-----------------------------------------------------------------------------
(* Motion and requests                                                     *)

Execute == /\ queue # <<>>
           /\ actual' = Head(queue).target
           /\ queue' = Tail(queue)
           /\ UNCHANGED <<gc, nvs, blk, cancel, blocks, interrupts>>

\* Where motion may be stopped: before or after the executing move.
Halt(g) == \E p \in {actual} \cup {queue[i].target : i \in 1..(IF queue = <<>> THEN 0 ELSE 1)} :
              /\ actual' = p
              /\ gc' = [g EXCEPT !.pos = p]
              /\ queue' = <<>>

Waits == \/ blk.stage \in {"none", "dwell", "end"}
         \/ blk.stage = "moves" /\ blk.moves # <<>>

Request(r) == /\ r \in Interrupts /\ interrupts > 0 /\ interrupts' = interrupts - 1
              /\ Waits

\* CMD_STOP: the block goes on with a parser that has been initialized
Stop == /\ Request("stop")
        /\ Halt(Warm(TRUE, nvs))
        /\ cancel' = ~Idle
        /\ UNCHANGED <<nvs, blk, blocks>>

Reset == /\ Request("reset")
         /\ Halt(Warm(KeepOffsets, nvs))
         /\ blk' = NoBlock /\ cancel' = FALSE
         /\ UNCHANGED <<nvs, blocks>>

\* $RST=#: gc_clear_offset() for every system, and a reset
Restore ==
    /\ Request("restore") /\ Idle /\ queue = <<>>
    /\ nvs' = [s \in Stored |-> 0]
    /\ Halt([Warm(KeepOffsets, nvs') EXCEPT !.g92 = 0])
    /\ UNCHANGED <<blk, cancel, blocks>>

\* Power is lost and comes back.
PowerUp == /\ "power" \in Interrupts /\ interrupts > 0 /\ interrupts' = interrupts - 1
           /\ gc' = Cold(nvs) /\ actual' = 0 /\ queue' = <<>>
           /\ blk' = NoBlock /\ cancel' = FALSE
           /\ UNCHANGED <<nvs, blocks>>

Step == DwellEnds \/ Apply \/ PlanMove \/ MovesEnd \/ ProgramEnd
Next == \/ \E b \in Blocks : Accept(b) \/ Reject(b)
        \/ Step \/ Execute
        \/ Stop \/ Reset \/ Restore \/ PowerUp

Spec == Init /\ [][Next]_vars
-----------------------------------------------------------------------------
(* Properties                                                              *)

ModalState == [motion : {"none", "seek", "linear", "drill"}, canned : BOOLEAN,
               feedMode : {"inverse", "perMin"}, inc : BOOLEAN, cs : Systems, data : Int]
ParserState ==
    [motion : {"none", "seek", "linear", "drill"}, canned : BOOLEAN,
     feedMode : {"inverse", "perMin"}, feed : {"none", "inverse", "perMin"},
     inc : BOOLEAN, cs : Systems, data : Int, tool : {"G49", "G43.1"},
     tlo : Int, pos : Int, g92 : Int, slot : 0..(Slots - 1),
     slots : [0..(Slots - 1) -> Int], retract : Int, depth : Int]
Move == [target : Int, jog : BOOLEAN, slot : 0..(Slots - 1), g92 : Int, age : Nat,
         kept : BOOLEAN, feed : {"rapid", "none", "inverse", "perMin"},
         mode : {"inverse", "perMin"}]
InStep4 == [b : Blocks, m : ModalState, xyz : Int, new : Int,
            feed : {"none", "inverse", "perMin"}, slot : 0..(Slots - 1), g92 : Int,
            was : Int, home : Int, moves : Seq(Int),
            stage : {"dwell", "apply", "moves", "end"}]

\* Every variable has a value of its C type.
TypeOK == /\ gc \in ParserState /\ nvs \in [Stored -> Int]
          /\ queue \in Seq(Move) /\ actual \in Int
          /\ blk = NoBlock \/ blk \in InStep4
          /\ cancel \in BOOLEAN
          /\ blocks \in 0..MaxBlocks /\ interrupts \in 0..MaxInterrupts

\* The copy of the coordinate system in gc_state is the stored one.
SystemAgrees == gc.data = nvs[gc.cs]

\* The G92 offset in force is the stored one, or none.
G92Agrees == gc.g92 \in {0, nvs["G92"]}

\* A planned move finds the G92 offset it was planned under in its slot, for as
\* long as fewer than Slots further ones have been set.
SlotsAgree == \A i \in 1..Len(queue) :
                 LET e == queue[i]
                 IN  e.kept /\ e.age < Slots => gc.slots[e.slot] = e.g92

\* What gc_state and the planned moves say of the offsets agrees with what is
\* stored, whichever of G10, G54, G92, M2, $RST, a stop or a reset came last and
\* wherever inside a block it came.
OffsetsAgree == /\ Idle => SystemAgrees /\ G92Agrees
                /\ SlotsAgree

\* A feed rate is used in the mode it was given in: units per minute are never
\* taken for an inverse time, or the reverse, and an undefined one is never used.
FeedIsOwn == \A i \in 1..Len(queue) : queue[i].feed \in {"rapid", queue[i].mode}

Work(g) == g.pos - g.data - g.g92 - g.tlo

\* What the words of a block ask for, in work coordinates.
Asked(b, m, was, g) ==
    LET v == Value(b.axis)
        moves == AxisCommand(b) = "motion" /\ b.axis # {} /\ m.motion \in {"seek", "linear"}
    IN  CASE b.nonModal = "home" -> g.pos = blk.home
          [] b.nonModal \in {"offset", "setHere"} ->
                g.pos = was /\ (About(b, m) = g.cs => Work(g) = v)
          [] moves /\ b.nonModal = "machine" -> g.pos = v
          [] moves /\ b.nonModal # "machine" ->
                IF m.inc THEN g.pos = was + v ELSE b.tool = "same" => Work(g) = v
          [] AxisCommand(b) = "motion" /\ m.motion = "drill" ->
                g.pos = IF was < g.retract \/ g.depth = g.retract THEN g.retract ELSE was
          [] OTHER -> g.pos = was

\* When a block that nobody has interrupted is through, the work position is the
\* one its words ask for: an absolute move or a G92 to v reads v, whichever
\* systems and offsets are in force.
WorkPositionIsAsked ==
    [][(/\ ~Idle /\ blk' = NoBlock /\ ~cancel /\ interrupts' = interrupts
        /\ ~blk.b.end /\ ~blk.b.jog)
           => Asked(blk.b, blk.m, blk.was, gc')]_vars

-----------------------------------------------------------------------------
(* What the repository says and the code does not do.                      *)

\* gcode.c:3760: "G-code parser state is not updated, except the position".
JogKeepsState ==
    [][\A b \in Blocks : b.jog /\ (Accept(b) \/ Reject(b)) => gc' = [gc EXCEPT !.pos = gc'.pos]]_vars

\* gcode.c:1274: the modes "will only be used and executed after successful
\* error-checking".
RejectedChangesNothing == [][\A b \in Blocks : Reject(b) => gc' = [gc EXCEPT !.feed = gc'.feed]]_vars

\* report.c:1437, gcode.c:307: the offset reported during a move is the one the
\* move was planned under.
ReportFollowsMove == \A i \in 1..Len(queue) : gc.slots[queue[i].slot] = queue[i].g92

\* gcode.c:4561: "Do not update position on cancel (already done in
\* protocol_exec_rt_system)".
CancelKeepsPosition == Idle => gc.pos = Last
=============================================================================
