----------------------------- MODULE LineInput -----------------------------
(***************************************************************************)
(* From the serial line to the executed block.  The receive interrupt of   *)
(* uart_serial.c takes the realtime commands out of the stream and puts    *)
(* the other characters in a ring; the main loop of protocol.c reads them, *)
(* assembles lines, executes them and answers each.  A jog cancel or a     *)
(* stop empties the ring from the interrupt and leaves a CAN character     *)
(* behind; a reset empties it from the main thread.                        *)
(*                                                                         *)
(* The sender streams lines as the protocol asks: it counts the characters *)
(* of the lines not yet answered and keeps them below Window.  A line is   *)
(* its first character, "$" for a jog and "G" for a block, and one more.   *)
(***************************************************************************)
EXTENDS Naturals, Sequences

CONSTANTS
    Ring,         \* RX_BUFFER_SIZE
    LineMax,      \* characters a line holds
    Window,       \* characters the sender keeps in flight
    MaxLines,     \* bound: lines sent
    MaxCommands,  \* bound: realtime commands sent
    Texts,        \* the lines of the sender, without terminator
    Eol,          \* the terminator of the sender: <<"LF">> or <<"CR", "LF">>
    Commands,     \* realtime commands sent: "cancel", "stop", "reset", "hold"
    LegacyRt      \* legacy_rt_commands: "!" is a feed hold wherever it comes

Cell == 0..(Ring - 1)
Glyph == {"$", "G", "X", "BS", "LF", "CR", "CAN", "!"}

ASSUME LineInputAssumption ==
    /\ Ring \in Nat /\ Ring >= 2 /\ LineMax \in Nat \ {0}
    /\ Window \in Nat /\ MaxLines \in Nat /\ MaxCommands \in Nat
    /\ Texts \subseteq Seq(Glyph) /\ Eol \in Seq({"LF", "CR"})
    /\ Commands \subseteq {"cancel", "stop", "reset", "hold"}
    /\ LegacyRt \in BOOLEAN

VARIABLES
    data, head, tail,        \* rxbuffer
    lost,                    \* rxbuffer.overflow: a character did not fit
    pc,                      \* the main thread
    c,                       \* the character read; at the end of a line its terminator
    reg,                     \* tail or char_counter as loaded, not yet stored
    line, char_counter, eol, overflow, keep_rt_commands,
    run,                     \* the terminated line being executed
    last_error,              \* gc_state.last_error # Status_OK
    state, jog,              \* IDLE or JOG; history: the line of the last jog started
    flags,                   \* of sys.rt_exec_state
    aborted,                 \* of sys.abort and sys.cancel, those that are set
    out, sent, unacked,      \* sender: rest of the line being sent, lines begun,
                             \* <<line, length>> of those not answered
    waiting,                 \* sender: waits for the welcome message after a reset
    commands,                \* realtime commands sent
    cancelled,               \* history: lines begun before the last cancel, stop or reset
    answers                  \* history: answers to each line

ring == <<data, head, tail, lost>>
assembly == <<line, char_counter, eol, overflow, keep_rt_commands>>
machine == <<state, jog, flags, aborted, last_error>>
sender == <<out, sent, unacked, waiting, commands, cancelled>>
vars == <<ring, pc, c, reg, assembly, run, machine, sender, answers>>

Char(g, n) == [g |-> g, line |-> n]
Can == Char("CAN", 0)
Next1(i) == (i + 1) % Ring
Pending == [i \in 1..((head + Ring - tail) % Ring) |-> data[(tail + i - 1) % Ring]]

-----------------------------------------------------------------------------
\* The receive interrupt.

\* _uart0_isr for a character that is not a realtime command
Put(ch) == IF Next1(head) = tail
           THEN lost' = TRUE /\ UNCHANGED <<data, head, tail>>
           ELSE /\ data' = [data EXCEPT ![head] = ch]
                /\ head' = Next1(head)
                /\ UNCHANGED <<tail, lost>>

\* mutant: the cancel only leaves its mark, what was received before stays
CancelReadAppends == /\ data' = [data EXCEPT ![head] = Can]
                     /\ head' = Next1(head)
                     /\ UNCHANGED <<tail, lost>>

\* serialCancel
CancelRead == /\ data' = [data EXCEPT ![head] = Can]
              /\ tail' = head
              /\ head' = Next1(head)
              /\ UNCHANGED lost

\* the characters of the first k of some lines
Lengths(u) == LET sum[k \in 0..Len(u)] == IF k = 0 THEN 0 ELSE sum[k - 1] + u[k][2]
              IN  sum
InFlight == Lengths(unacked)[Len(unacked)]

\* the sender begins its next line when there is room for it
BeginLine(t) ==
    /\ out = <<>> /\ sent < MaxLines /\ ~waiting
    /\ InFlight + Len(t \o Eol) <= Window
    /\ sent' = sent + 1
    /\ out' = [i \in 1..Len(t \o Eol) |-> Char((t \o Eol)[i], sent + 1)]
    /\ unacked' = Append(unacked, <<sent + 1, Len(t \o Eol)>>)
    /\ UNCHANGED <<ring, pc, c, reg, assembly, run, machine, waiting, commands, cancelled, answers>>

Receive ==
    /\ out # <<>>
    /\ out' = Tail(out)
    /\ keep_rt_commands' = IF Head(out).g = "$" /\ char_counter = 0 THEN ~LegacyRt
                           ELSE keep_rt_commands
    /\ Put(Head(out))
    /\ UNCHANGED <<pc, c, reg, line, char_counter, eol, overflow, run, machine,
                   sent, unacked, waiting, commands, cancelled, answers>>

Command(k) == k \in Commands /\ commands < MaxCommands /\ commands' = commands + 1

\* the sender forgets what it sent before
Forget == out' = <<>> /\ unacked' = <<>> /\ cancelled' = sent /\ UNCHANGED sent

\* CMD_JOG_CANCEL and CMD_STOP in protocol_enqueue_realtime_command
ReceiveCancel(k) ==
    /\ Command(k) /\ Forget
    /\ char_counter' = 0
    /\ CancelRead
    /\ flags' = flags \cup (IF k = "stop" THEN {"STOP"}
                            ELSE IF state = "JOG" THEN {"MOTION_CANCEL"} ELSE {})
    /\ UNCHANGED <<pc, c, reg, line, eol, overflow, keep_rt_commands, run, state, jog, aborted,
                   last_error, waiting, answers>>

\* CMD_RESET: mc_reset; the sender then waits for the welcome message
ReceiveReset ==
    /\ Command("reset") /\ Forget
    /\ waiting' = TRUE
    /\ flags' = flags \cup {"RESET"}
    /\ UNCHANGED <<ring, pc, c, reg, assembly, run, state, jog, aborted, last_error, answers>>

\* CMD_FEED_HOLD_LEGACY
ReceiveHold ==
    /\ Command("hold")
    /\ IF ~keep_rt_commands \/ LegacyRt
       THEN UNCHANGED ring         \* EXEC_FEED_HOLD, see RealtimeControl
       ELSE Put(Char("!", sent))
    /\ UNCHANGED <<pc, c, reg, assembly, run, machine, out, sent, unacked, waiting, cancelled,
                   answers>>

-----------------------------------------------------------------------------
\* The main thread: protocol_main_loop.

uMain == <<lost, data, head, sender, answers>>

\* serialRead: the load, and the store that an interrupt may precede
Read ==
    /\ pc = "read"
    /\ IF tail = head THEN pc' = "idle" /\ UNCHANGED <<c, reg>>
       ELSE pc' = "tail" /\ c' = data[tail] /\ reg' = Next1(tail)
    /\ UNCHANGED <<assembly, run, machine, tail, uMain>>

ReadTail == /\ pc = "tail"
            /\ tail' = reg /\ reg' = 0
            /\ pc' = "char"
            /\ UNCHANGED <<c, assembly, run, machine, uMain>>

IsEol(g) == g \in {"LF", "CR"}

\* mutant: a cancel keeps the characters of the line so far
CharCanKeepsLine ==
    /\ pc = "char" /\ c.g = "CAN"
    /\ pc' = "read"
    /\ eol' = "none" /\ keep_rt_commands' = FALSE /\ overflow' = FALSE
    /\ last_error' = FALSE
    /\ flags' = IF state = "JOG" THEN flags \cup {"MOTION_CANCEL"} ELSE flags
    /\ UNCHANGED <<c, reg, line, char_counter, run, state, jog, aborted, tail, uMain>>

\* mutant: a cancel in the stream does not end a jog
CharCanIgnoresJog ==
    /\ pc = "char" /\ c.g = "CAN"
    /\ pc' = "read"
    /\ eol' = "none" /\ keep_rt_commands' = FALSE /\ char_counter' = 0 /\ overflow' = FALSE
    /\ last_error' = FALSE
    /\ UNCHANGED <<c, reg, line, run, state, jog, aborted, flags, tail, uMain>>

\* ASCII_CAN
CharCan ==
    /\ pc = "char" /\ c.g = "CAN"
    /\ pc' = "read"
    /\ eol' = "none" /\ keep_rt_commands' = FALSE /\ char_counter' = 0 /\ overflow' = FALSE
    /\ last_error' = FALSE
    /\ flags' = IF state = "JOG" THEN flags \cup {"MOTION_CANCEL"} ELSE flags
    /\ UNCHANGED <<c, reg, line, run, state, jog, aborted, tail, uMain>>

\* end of line: the second half of a pair is skipped, otherwise on to the check point
CharEol ==
    /\ pc = "char" /\ IsEol(c.g)
    /\ IF char_counter = 0 /\ eol # "none" /\ eol # c.g
       THEN eol' = "none" /\ pc' = "read"
       ELSE eol' = c.g /\ pc' = "check"
    /\ UNCHANGED <<c, reg, line, char_counter, overflow, keep_rt_commands, run, machine, tail, uMain>>

\* backspace: the stored line is rechecked, which clears its flags
CharErase ==
    /\ pc = "char" /\ c.g = "BS"
    /\ pc' = "read"
    /\ IF char_counter > 0
       THEN /\ char_counter' = char_counter - 1 /\ overflow' = FALSE
            /\ keep_rt_commands' = (char_counter > 1 /\ line[1].g = "$")
       ELSE UNCHANGED <<char_counter, overflow, keep_rt_commands>>
    /\ UNCHANGED <<c, reg, line, eol, run, machine, tail, uMain>>

\* mutant: no room is kept for the terminator of the string
FullTooLate == char_counter > LineMax

\* the line buffer is full
Full == char_counter >= LineMax

\* any other character; line[char_counter++] = c ends in CharCount
CharStore ==
    /\ pc = "char" /\ c.g \notin {"CAN", "LF", "CR", "BS"}
    /\ keep_rt_commands' = (keep_rt_commands \/ (c.g = "$" /\ char_counter = 0))
    /\ overflow' = Full
    /\ IF Full
       THEN pc' = "read" /\ UNCHANGED <<line, reg>>
       ELSE pc' = "count" /\ reg' = char_counter + 1 /\ line' = [line EXCEPT ![char_counter + 1] = c]
    /\ UNCHANGED <<c, char_counter, eol, run, machine, tail, uMain>>

CharCount == /\ pc = "count"
             /\ char_counter' = reg /\ reg' = 0
             /\ pc' = "read"
             /\ UNCHANGED <<c, line, eol, overflow, keep_rt_commands, run, machine, tail, uMain>>

\* protocol_exec_rt_system, as far as the stream is concerned: a reset is served alone,
\* a stop clears the parser's error, both a stop and a motion cancel end a jog
Serve ==
    /\ flags' = {}
    /\ IF "RESET" \in flags
       THEN aborted' = aborted \cup {"abort"} /\ UNCHANGED <<state, last_error>>
       ELSE /\ aborted' = IF "STOP" \in flags THEN aborted \cup {"cancel"} ELSE aborted
            /\ state' = IF flags \cap {"STOP", "MOTION_CANCEL"} # {} THEN "IDLE" ELSE state
            /\ last_error' = (last_error /\ "STOP" \notin flags)
    /\ UNCHANGED jog

\* the check point at the end of a line; any abort leaves the main loop
Check == /\ pc = "check"
         /\ Serve
         /\ pc' = IF aborted' # {} THEN "reinit" ELSE "end"
         /\ UNCHANGED <<c, reg, assembly, run, tail, uMain>>

EndLine == /\ pc = "end"
           /\ run' = [i \in 1..char_counter |-> line[i]]
           /\ pc' = "execute"
           /\ UNCHANGED <<c, reg, assembly, machine, tail, uMain>>

Goes(p, err) == pc' = p /\ last_error' = err
uLine == <<c, reg, line, char_counter, overflow, keep_rt_commands, run, tail, uMain>>
uExecute == UNCHANGED <<flags, aborted, uLine>>

ExecuteOverflow == /\ pc = "execute" /\ overflow
                   /\ Goes("answer", TRUE)
                   /\ UNCHANGED <<eol, state, jog>> /\ uExecute

\* mutant: empty lines are skipped without an answer
ExecuteEmptySilent == /\ pc = "execute" /\ ~overflow /\ run = <<>>
                      /\ Goes("read", FALSE)
                      /\ UNCHANGED <<eol, state, jog>> /\ uExecute

ExecuteEmpty == /\ pc = "execute" /\ ~overflow /\ run = <<>>
                /\ Goes("answer", FALSE)
                /\ UNCHANGED <<eol, state, jog>> /\ uExecute

\* blocks are refused while jogging, and after an error until it is cleared
ExecuteRefused == /\ pc = "execute" /\ ~overflow /\ run # <<>> /\ Head(run).g # "$"
                  /\ state = "JOG" \/ last_error
                  /\ Goes("answer", TRUE)
                  /\ UNCHANGED <<eol, state, jog>> /\ uExecute

\* gc_execute_block, which system_execute_line calls for a jog
Execute == /\ pc = "execute" /\ ~overflow /\ run # <<>>
           /\ Head(run).g = "$" \/ (state # "JOG" /\ ~last_error)
           /\ pc' = "block"
           /\ UNCHANGED <<eol, machine>> /\ UNCHANGED uLine

\* mc_line waits at check points for room in the planner
Wait == /\ pc = "block"
        /\ Serve
        /\ UNCHANGED <<pc, eol>> /\ UNCHANGED uLine

\* the last step of a jog; a jog that was aborted is not started but reported as executed
FinishJog == /\ pc = "block" /\ Head(run).g = "$"
             /\ Goes("answer", FALSE)
             /\ IF aborted = {} THEN state' = "JOG" /\ jog' = Head(run).line
                ELSE UNCHANGED <<state, jog>>
             /\ UNCHANGED eol /\ uExecute

FinishBlock == /\ pc = "block" /\ Head(run).g # "$"
               /\ \E failed \in BOOLEAN :
                     /\ Goes("answer", failed)
                     /\ eol' = IF failed THEN "none" ELSE eol
               /\ UNCHANGED <<state, jog>> /\ uExecute

\* an aborted line is not answered
Answer ==
    /\ pc = "answer"
    /\ run' = <<>>
    /\ IF aborted # {}
       THEN pc' = "idle" /\ UNCHANGED <<answers, unacked, keep_rt_commands, char_counter, overflow>>
       ELSE /\ pc' = "read"
            /\ answers' = [answers EXCEPT ![c.line] = @ + 1]
            /\ unacked' = IF unacked = <<>> THEN <<>> ELSE Tail(unacked)
            /\ keep_rt_commands' = FALSE /\ char_counter' = 0 /\ overflow' = FALSE
    /\ UNCHANGED <<c, reg, line, eol, machine, ring, out, sent, waiting, commands, cancelled>>

\* the check point at the end of the main loop: only an abort leaves it here
Idle ==
    /\ pc = "idle"
    /\ Serve
    /\ pc' = IF "abort" \in aborted' THEN "reinit" ELSE "resume"
    /\ UNCHANGED eol /\ UNCHANGED uLine

Resume == /\ pc = "resume"
          /\ pc' = "read"
          /\ aborted' = aborted \ {"cancel"}
          /\ UNCHANGED <<eol, state, jog, flags, last_error>> /\ UNCHANGED uLine

\* back through grbl_enter: the buffer is emptied, the welcome message sent, the loop entered
Reinit ==
    /\ pc = "reinit"
    /\ pc' = "read"
    /\ tail' = head /\ lost' = FALSE
    /\ flags' = {} /\ aborted' = {} /\ state' = "IDLE" /\ last_error' = FALSE
    /\ char_counter' = 0 /\ eol' = "none" /\ overflow' = FALSE /\ keep_rt_commands' = FALSE
    /\ run' = <<>> /\ waiting' = FALSE
    /\ UNCHANGED <<c, reg, line, jog, data, head, out, sent, unacked, commands, cancelled, answers>>

\* the jog reaches its target
JogEnds == /\ state = "JOG" /\ state' = "IDLE"
           /\ UNCHANGED <<ring, pc, c, reg, assembly, run, jog, flags, aborted, last_error, sender, answers>>
-----------------------------------------------------------------------------
Init == /\ data = [i \in Cell |-> Can] /\ head = 0 /\ tail = 0 /\ lost = FALSE
        /\ pc = "read" /\ c = Can /\ reg = 0
        /\ line = [i \in 1..LineMax |-> Can] /\ char_counter = 0 /\ eol = "none"
        /\ overflow = FALSE /\ keep_rt_commands = FALSE
        /\ run = <<>> /\ last_error = FALSE
        /\ state = "IDLE" /\ jog = 0 /\ flags = {} /\ aborted = {}
        /\ out = <<>> /\ sent = 0 /\ unacked = <<>> /\ waiting = FALSE /\ commands = 0
        /\ cancelled = 0
        /\ answers = [n \in 1..MaxLines |-> 0]

MainStep == \/ Read \/ ReadTail
            \/ CharCan \/ CharEol \/ CharErase \/ CharStore \/ CharCount
            \/ Check \/ EndLine
            \/ ExecuteOverflow \/ ExecuteEmpty \/ ExecuteRefused \/ Execute
            \/ Wait \/ FinishJog \/ FinishBlock
            \/ Answer \/ Idle \/ Resume \/ Reinit

Next == \/ MainStep
        \/ Receive \/ \E t \in Texts : BeginLine(t)
        \/ \E k \in {"cancel", "stop"} : ReceiveCancel(k)
        \/ ReceiveReset \/ ReceiveHold
        \/ JogEnds

Spec == Init /\ [][Next]_vars

\* The main thread keeps running, a wait for room ends, the sender sends what it began.
FairSpec == /\ Spec
            /\ WF_vars(MainStep /\ ~Wait) /\ SF_vars(FinishJog) /\ SF_vars(FinishBlock)
            /\ WF_vars(Receive)

-----------------------------------------------------------------------------
\* Properties

CharSet == [g : Glyph, line : 0..MaxLines]
TypeOK ==
    /\ data \in [Cell -> CharSet] /\ head \in Cell /\ tail \in Cell /\ lost \in BOOLEAN
    /\ pc \in {"read", "tail", "char", "count", "check", "end", "execute", "block", "answer",
               "idle", "resume", "reinit"}
    /\ c \in CharSet /\ reg \in Nat
    /\ line \in [1..LineMax -> CharSet] /\ char_counter \in 0..LineMax
    /\ eol \in {"none", "LF", "CR"} /\ overflow \in BOOLEAN /\ keep_rt_commands \in BOOLEAN
    /\ run \in Seq(CharSet) /\ last_error \in BOOLEAN
    /\ state \in {"IDLE", "JOG"} /\ jog \in 0..MaxLines
    /\ flags \subseteq {"RESET", "STOP", "MOTION_CANCEL"}
    /\ aborted \subseteq {"abort", "cancel"}
    /\ answers \in [1..MaxLines -> Nat]

\* what the sender means by a line it edits with backspaces
Edit(t) == LET m[k \in 0..Len(t)] ==
                   IF k = 0 THEN <<>>
                   ELSE IF t[k] = "BS" THEN SubSeq(m[k - 1], 1, Len(m[k - 1]) - 1)
                   ELSE Append(m[k - 1], t[k])
           IN  m
Meant(t) == Edit(t)[Len(t)]

\* What is executed of the lines sent after a cancel is each line as the sender
\* meant it, never a part of it or the halves of two lines.
LinesAreWhole ==
    pc = "block" /\ c.line > cancelled =>
        /\ \A i \in DOMAIN run : run[i].line = c.line
        /\ \E t \in Texts : [i \in DOMAIN run |-> run[i].g] = Meant(t)

\* A sender that keeps its characters in flight below Window never loses one.
NothingLost == ~lost

\* A line is answered at most once, so that the sender's count stays right.
OneAnswerPerLine == \A n \in 1..MaxLines : answers[n] <= 1

CancelPending == \/ flags \cap {"MOTION_CANCEL", "STOP", "RESET"} # {}
                 \/ \E i \in DOMAIN Pending : Pending[i] = Can
                 \/ pc \in {"tail", "char"} /\ c = Can
                 \/ pc = "reinit" \/ aborted # {}

\* A jog sent before a jog cancel may start after it, when its line was being read
\* or waited for room in the planner; then the CAN character left in the stream
\* is still to come and ends it.
JogNeverOutlivesCancel == state = "JOG" /\ jog <= cancelled => CancelPending

\* A jog cancel or a stop empties the input buffer of all that was sent before.
CancelDiscardsInput ==
    \A i \in DOMAIN Pending : ~waiting /\ Pending[i] # Can => Pending[i].line > cancelled

\* A hold character is a command, not text.
HoldsAct == \A i \in DOMAIN Pending : Pending[i].g # "!"

\* A line sent to its end is answered unless it is cancelled.
Delivered(n) == sent > n \/ (sent = n /\ out = <<>>)
LinesAnswered == \A n \in 1..MaxLines : Delivered(n) ~> (answers[n] > 0 \/ cancelled >= n)
=============================================================================
