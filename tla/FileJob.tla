------------------------------- MODULE FileJob -------------------------------
(***************************************************************************)
(* A file run as a job ($F=<file>), fs_stream.c.  The job takes over the   *)
(* input: it saves the stream structure hal.stream and the core's          *)
(* callbacks, puts its own in their place and gives them back when it      *)
(* ends.  The main loop of protocol.c meanwhile reads lines from whatever  *)
(* hal.stream.read is; characters arrive in interrupts and go through a    *)
(* chain of handlers; and a telnet client connects and leaves in the       *)
(* network task, which rewrites hal.stream (stream.c).                     *)
(*                                                                         *)
(* A line is its kind; what a typed line says is decided when it is        *)
(* executed.  Jobs run outside check mode and are started from serial or   *)
(* telnet, not from the web interface.                                     *)
(***************************************************************************)
EXTENDS Naturals, Sequences, FiniteSets

CONSTANTS
    Programs,          \* the files: sequences of line kinds
    Typeable,          \* kinds of the typed lines
    MaxJobs,           \* bound: jobs started
    MaxChanges,        \* bound: connections made and closed
    MaxOrders,         \* bound: resets and stops sent
    ConnectAt,         \* parts of a job in which a telnet client may connect
    HangupAt,          \* ... and close its connection
    InterruptedStart,  \* characters may arrive while a job is being set up
    Nested             \* a job may be started while one runs

Streams == {"serial", "telnet"}
Kinds == {"plain", "move", "bad", "tool", "m2", "m30", "probe", "jog", "run"}

ASSUME FileJobAssumption ==
    /\ Programs \subseteq Seq(Kinds)
    /\ Typeable \subseteq {"plain", "bad", "m2", "m30", "run", "unlock", "rewind"}
    /\ MaxJobs \in Nat /\ MaxChanges \in Nat /\ MaxOrders \in Nat
    /\ ConnectAt \cup HangupAt \subseteq {"none", "suspended", "reading", "line", "drained"}
    /\ InterruptedStart \in BOOLEAN /\ Nested \in BOOLEAN

VARIABLES
    io,        \* the streams and what the job keeps of them, a record:
               \*   hal       hal.stream: stream, type, read, suspend
               \*   act       active_stream, hal.stream before the job
               \*   hook      owner of each callback of the core, "core" or "job"
               \*   saved     what the job found there
               \*   handler   realtime handler of each stream: "protocol", the
               \*             job's "drop" and "ack", "coreAck" of stream.c
               \*   chained   enqueue_realtime_command, the handler replaced
               \*   redirect  read_redirected
               \*   core      stream.c's own suspension of an input
               \*   open, pos file.handle, lines read
               \*   frewind   run the file again at its end
               \*   rx        each input buffer: empty, or a line that came
               \*             "early" or, in a tool change, "late"
    prog,      \* the file of the job
    pc, back,  \* the main loop; where terminate_job returns to
    line,      \* the line in hand: its source and number
    state,     \* of the machine
    change,    \* gc_state.tool_change
    flags,     \* of sys.rt_exec_state; "lost": position lost, "keep":
               \* sys.flags.keep_input
    tasks,     \* terminate_job queued
    up,        \* the streams connected
    last,      \* history: the line executed last, 0 for a typed one
    jobs, changes, orders

main == <<pc, back, line>>
machine == <<state, change, flags>>
bounds == <<jobs, changes, orders>>
vars == <<io, prog, main, machine, tasks, up, last, bounds>>

Hooks == {"completed", "status", "start", "changed"}
NotSuspended == [by |-> "none", acked |-> FALSE, kept |-> "empty"]
NoLine == [src |-> "none", n |-> 0]
Native(s) == [stream |-> s, type |-> s, read |-> s, suspend |-> "core"]

Input == [stream : Streams, type : Streams \cup {"file", "null"},
          read : Streams \cup {"file", "none", "pending"}, suspend : {"core", "job"}]

IO == [hal : Input, act : Input,
       hook : [Hooks -> {"core", "job"}],
       saved : [Hooks -> {"none", "core", "job"}],
       handler : [Streams -> {"protocol", "drop", "ack", "coreAck"}],
       chained : {"none", "protocol", "drop", "ack", "coreAck"},
       redirect : {"none", "file"},
       core : [by : Streams \cup {"none"}, acked : BOOLEAN,
               kept : {"empty", "early", "late"}],
       open : BOOLEAN, pos : Nat, frewind : BOOLEAN,
       rx : [Streams -> {"empty", "early", "late"}]]

TypeOK ==
    /\ io \in IO
    /\ prog \in Programs \cup {<<>>}
    /\ pc \in {"loop", "eol", "exec", "begin", "tooled", "ending"}
    /\ back \in {"loop", "exec"}
    /\ line \in [src : {"none", "file", "typed"}, n : Nat]
    /\ state \in {"idle", "cycle", "tool", "jog", "alarm"} /\ change \in BOOLEAN
    /\ flags \subseteq {"reset", "stop", "start", "tool", "lost", "keep"}
    /\ tasks \in Nat /\ up \subseteq Streams /\ last \in Nat

Init ==
    /\ io = [hal |-> Native("serial"), act |-> [Native("serial") EXCEPT !.type = "null"],
             hook |-> [h \in Hooks |-> "core"], saved |-> [h \in Hooks |-> "none"],
             handler |-> [s \in Streams |-> "protocol"], chained |-> "none",
             redirect |-> "none", core |-> NotSuspended,
             open |-> FALSE, pos |-> 0, frewind |-> FALSE,
             rx |-> [s \in Streams |-> "empty"]]
    /\ prog = <<>> /\ pc = "loop" /\ back = "loop" /\ line = NoLine
    /\ state = "idle" /\ change = FALSE /\ flags = {} /\ tasks = 0
    /\ up = {"serial"} /\ last = 0 /\ jobs = 0 /\ changes = 0 /\ orders = 0

-----------------------------------------------------------------------------
\* What the handlers of fs_stream.c and stream.c do to the input.

\* hal.stream.set_enqueue_rt_handler(): a null handler is ignored
SetHandler(i, s, h) == IF h = "none" THEN i ELSE [i EXCEPT !.handler[s] = h]

\* mutant: the condition is the wrong way round
RestoredInverted(i, h) == IF i.hook[h] = "job" THEN i.hook[h] ELSE i.saved[h]

\* give back callback h, if it is still the job's
Restored(i, h) == IF i.hook[h] = "job" THEN i.saved[h] ELSE i.hook[h]

EndJob(i, flush) ==
    LET s == i.act.stream
        j == [i EXCEPT
                !.open = FALSE,
                !.hook = [h \in Hooks |->
                             CASE h = "changed" -> i.saved[h]
                               [] h = "status" /\ i.hook[h] # "job" -> "core"
                               [] OTHER -> Restored(i, h)],
                !.saved["start"] = IF i.hook["start"] = "job" THEN "none" ELSE @,
                !.saved["status"] = "none",
                !.hal = i.act,
                !.act.type = "null",
                !.rx[s] = IF flush THEN "empty" ELSE @,
                !.frewind = FALSE]
    IN SetHandler(j, s, i.chained)

\* stream_rx_suspend(), for the stream suspended
CoreSuspend(i, on) ==
    LET s == i.hal.stream IN
    IF on
    THEN IF i.core.by = "none"
         THEN [i EXCEPT !.core.by = s, !.handler[s] = "coreAck", !.hal.read = "none"]
         ELSE i
    ELSE IF i.core.by = "none" THEN i
         ELSE IF i.core.acked
              THEN [i EXCEPT !.rx[i.core.by] = i.core.kept, !.core = NotSuspended]
              ELSE [i EXCEPT !.hal.read = i.core.by, !.handler[s] = "protocol",
                             !.core = NotSuspended]

\* mutant: the lines sent ahead stay in the input
JobSuspendKeepsInput(i, on) ==
    IF on THEN [i EXCEPT !.hal.read = "none", !.handler[i.act.stream] = "ack"]
    ELSE [i EXCEPT !.hal.read = IF i.redirect = "none" THEN "none" ELSE "file",
                   !.handler[i.hal.stream] = "drop"]

\* mutant: the handler replaced is kept once more
JobSuspendChains(i, on) ==
    IF on THEN [i EXCEPT !.hal.read = "none", !.rx[i.act.stream] = "empty",
                         !.handler[i.act.stream] = "ack",
                         !.chained = i.handler[i.act.stream]]
    ELSE [i EXCEPT !.hal.read = IF i.redirect = "none" THEN "none" ELSE "file",
                   !.handler[i.hal.stream] = "drop"]

\* stream_suspend(), while a job runs
JobSuspend(i, on) ==
    IF on THEN [i EXCEPT !.hal.read = "none", !.rx[i.act.stream] = "empty",
                         !.handler[i.act.stream] = "ack"]
    ELSE [i EXCEPT !.hal.read = IF i.redirect = "none" THEN "none" ELSE "file",
                   !.handler[i.hal.stream] = "drop"]

SuspendRead(i, on) ==
    IF i.hal.suspend = "job" THEN JobSuspend(i, on) ELSE CoreSuspend(i, on)

\* mutant: looks at the stream that is set aside
OnResetActive(i) == IF i.act.type = "file" THEN EndJob(i, TRUE) ELSE i

OnReset(i) == IF i.hal.type = "file" /\ i.act.type # "null" THEN EndJob(i, TRUE) ELSE i

\* mutant: the file is not rewound
CompletedKeepsPlace(i, kind) ==
    IF i.hook["completed"] # "job" THEN i
    ELSE IF i.frewind \/ kind = "m2"
         THEN [i EXCEPT !.frewind = TRUE, !.hal.read = "pending",
                        !.saved["start"] = IF i.hook["start"] = "job" THEN @ ELSE i.hook["start"],
                        !.hook["start"] = "job"]
         ELSE EndJob(i, TRUE)

\* onProgramCompleted(), reached only through the callback
Completed(i, kind) ==
    IF i.hook["completed"] # "job" THEN i
    ELSE LET again == i.frewind \/ kind = "m2" IN
         IF again
         THEN [i EXCEPT !.frewind = TRUE, !.pos = 0, !.hal.read = "pending",
                        !.saved["start"] = IF i.hook["start"] = "job" THEN @ ELSE i.hook["start"],
                        !.hook["start"] = "job"]
         ELSE EndJob(i, TRUE)

\* trap_status_messages()
Answered(i, kind) ==
    IF kind \in {"bad", "run"} /\ i.hook["status"] = "job" /\ i.hal.read = "file"
    THEN EndJob(i, TRUE) ELSE i

\* mutant: only while the input is the file, as on a reset
TerminatedFile(i, n) == OnReset(i)

\* terminate_job() for each time it was queued, once the machine is at rest
Terminated(i, n) == IF n = 1 THEN EndJob(i, FALSE) ELSE EndJob(EndJob(i, FALSE), FALSE)

-----------------------------------------------------------------------------
\* The main loop.

Readable == state \in {"idle", "cycle", "tool"}
HasInput == \/ io.hal.read = "file" /\ (io.open \/ state = "idle")
            \/ io.hal.read \in Streams /\ io.rx[io.hal.read] # "empty"

\* the last character of a line is read; from a file, stream_read()
ReadLine ==
    /\ pc = "loop" /\ io.hal.read = "file" /\ io.open /\ Readable
    /\ io.pos < Len(prog)
    /\ io' = [io EXCEPT !.pos = @ + 1]
    /\ pc' = "eol" /\ line' = [src |-> "file", n |-> io.pos + 1]
    /\ UNCHANGED <<prog, back, machine, tasks, up, last, bounds>>

\* nothing more to read, or not in this state: the file is closed
ReadEnd ==
    /\ pc = "loop" /\ io.hal.read = "file" /\ io.open
    /\ Readable => io.pos = Len(prog)
    /\ io' = [io EXCEPT !.open = FALSE]
    /\ UNCHANGED <<prog, main, machine, tasks, up, last, bounds>>

\* ... and once the machine is idle the program is complete
ReadNothing ==
    /\ pc = "loop" /\ io.hal.read = "file" /\ ~io.open /\ state = "idle"
    /\ io' = Completed(io, "m30")
    /\ io' # io
    /\ UNCHANGED <<prog, main, machine, tasks, up, last, bounds>>

ReadTyped ==
    /\ pc = "loop" /\ io.hal.read \in Streams /\ io.rx[io.hal.read] # "empty"
    /\ io' = [io EXCEPT !.rx[io.hal.read] = "empty"]
    /\ pc' = "eol" /\ line' = [src |-> "typed", n |-> 0]
    /\ UNCHANGED <<prog, back, machine, tasks, up, last, bounds>>

Kind == IF line.src = "file" THEN prog[line.n] ELSE "typed"
Waits == pc = "exec" /\ Kind \in {"tool", "m2", "m30"} /\ state = "cycle"

\* protocol_exec_rt_system() and the tasks after it, where the main loop
\* comes by: without input, before a line, while a line or terminate_job
\* waits for the end of the motion, and in the tool change
CheckPoint == \/ pc = "loop" /\ ~HasInput
              \/ pc \in {"eol", "tooled", "ending"}
              \/ Waits

Reset ==
    /\ CheckPoint /\ "reset" \in flags
    /\ LET i == OnReset(io)
           j == IF pc = "ending" THEN EndJob(i, FALSE) ELSE i
       IN io' = [j EXCEPT !.rx[j.hal.stream] = "empty"]
    /\ flags' = {}
    /\ state' = IF state = "alarm" \/ "lost" \in flags THEN "alarm" ELSE "idle"
    /\ change' = FALSE
    /\ pc' = "loop" /\ line' = NoLine /\ back' = "loop"
    /\ UNCHANGED <<prog, tasks, up, last, bounds>>

\* EXEC_STOP: the job is ended, what is left of it in the input discarded
Stopped(i) ==
    LET j == OnReset(i) IN
    IF "keep" \notin flags /\ j.hal.suspend = "core" /\ j.core.by # "none"
    THEN [CoreSuspend(j, FALSE) EXCEPT !.rx[j.hal.stream] = "empty"]
    ELSE j

\* the machine's answer to a tool change and to a cycle start
Updated(i, s) ==
    IF s = "idle" /\ "tool" \in flags THEN <<SuspendRead(i, TRUE), "tool">>
    ELSE IF s = "tool" /\ "start" \in flags /\ ~change
         THEN <<SuspendRead(i, FALSE), "idle">>
         ELSE <<i, s>>

Check ==
    /\ CheckPoint /\ "reset" \notin flags
    /\ pc \in {"eol", "tooled"} \/ flags # {} \/ tasks > 0
    /\ LET stop == "stop" \in flags
           u == Updated(IF stop THEN Stopped(io) ELSE io, IF stop THEN "idle" ELSE state)
           bail == stop /\ pc = "eol"
           next == IF pc \in {"loop", "tooled"} \/ bail THEN "loop"
                   ELSE IF pc = "ending" THEN "ending" ELSE "exec"
       IN /\ state' = u[2] /\ change' = (change /\ ~stop)
          /\ line' = IF next = "loop" THEN NoLine ELSE line
          /\ IF tasks = 0
             THEN io' = u[1] /\ pc' = next /\ flags' = {} /\ UNCHANGED <<back, tasks>>
             ELSE IF u[2] = "cycle"
             THEN \* EXEC_MOTION_CANCEL
                  /\ io' = u[1] /\ flags' = {} /\ pc' = "ending"
                  /\ back' = IF pc = "ending" THEN back ELSE next
                  /\ tasks' = IF pc = "ending" THEN tasks ELSE tasks - 1
             ELSE /\ io' = Terminated(u[1], tasks) /\ flags' = {"stop", "keep"}
                  /\ pc' = next /\ tasks' = 0 /\ UNCHANGED back
    /\ UNCHANGED <<prog, up, last, bounds>>

\* terminate_job() after the motion has ended
Terminate ==
    /\ pc = "ending" /\ state = "idle" /\ "reset" \notin flags
    /\ io' = EndJob(io, FALSE) /\ flags' = flags \cup {"stop", "keep"}
    /\ pc' = back /\ back' = "loop"
    /\ UNCHANGED <<prog, line, state, change, tasks, up, last, bounds>>

\* stream_file(), up to the handlers of the stream
StartJob(i) ==
    [i EXCEPT !.open = TRUE, !.pos = 0, !.act = i.hal,
              !.hal.read = "file", !.hal.type = "file", !.hal.suspend = "job",
              !.saved["completed"] = i.hook["completed"], !.hook["completed"] = "job",
              !.saved["status"] = i.hook["status"], !.hook["status"] = "job"]

\* ... and the rest of it
TakeInput ==
    /\ pc = "begin" /\ pc' = "loop"
    /\ LET s == io.hal.stream IN
       io' = [io EXCEPT !.chained = io.handler[s], !.handler[s] = "drop",
                        !.redirect = IF io.hal.read = "file" THEN "file" ELSE "none",
                        !.saved["changed"] = IF io.hook["changed"] = "job" THEN @ ELSE "core",
                        !.hook["changed"] = "job"]
    /\ UNCHANGED <<prog, back, line, machine, tasks, up, last, bounds>>

\* a line of the file is executed and its status reported
ExecuteFile ==
    /\ pc = "exec" /\ ~Waits /\ line.src = "file"
    /\ Kind = "run" => state # "idle"
    /\ io' = IF Kind \in {"m2", "m30"} THEN Completed(io, Kind) ELSE Answered(io, Kind)
    /\ state' = CASE Kind = "move"  -> "cycle"
                  [] Kind = "jog"   -> IF state = "idle" THEN "jog" ELSE state
                  [] Kind = "probe" -> "alarm"
                  [] OTHER          -> state
    /\ change' = (change \/ Kind = "tool")
    /\ flags' = IF Kind = "tool" THEN flags \cup {"tool"} ELSE flags
    /\ pc' = IF Kind = "tool" THEN "tooled" ELSE "loop"
    /\ last' = line.n /\ line' = NoLine
    /\ UNCHANGED <<prog, back, tasks, up, bounds>>

\* a typed line; in an alarm only the unlock has an effect
ExecuteTyped ==
    /\ pc = "exec" /\ line.src = "typed"
    /\ \E kind \in Typeable :
          /\ state = "alarm" <=> kind = "unlock"
          /\ io' = CASE kind \in {"m2", "m30"} -> Completed(io, kind)
                     [] kind = "rewind"        -> [io EXCEPT !.frewind = TRUE]
                     [] kind = "bad"           -> Answered(io, kind)
                     [] OTHER                  -> io
          /\ state' = IF kind = "unlock" THEN "idle" ELSE state
    /\ pc' = "loop" /\ last' = 0 /\ line' = NoLine
    /\ UNCHANGED <<prog, back, change, flags, tasks, up, bounds>>

\* $F=<file>, typed or as a line of a file
RunFile ==
    /\ pc = "exec" /\ state = "idle" /\ jobs < MaxJobs
    /\ (line.src = "typed" /\ "run" \in Typeable) \/ Kind = "run"
    /\ io.act.type # "null" => Nested
    /\ io' = StartJob(io) /\ prog' \in Programs /\ jobs' = jobs + 1
    /\ pc' = "begin" /\ last' = line.n /\ line' = NoLine
    /\ UNCHANGED <<back, machine, tasks, up, changes, orders>>

MainStep == \/ ReadLine \/ ReadEnd \/ ReadNothing \/ ReadTyped
            \/ Reset \/ Check \/ Terminate
            \/ TakeInput \/ ExecuteFile \/ ExecuteTyped \/ RunFile

MotionDone == /\ state \in {"cycle", "jog"} /\ state' = "idle"
              /\ UNCHANGED <<io, prog, main, change, flags, tasks, up, last, bounds>>

-----------------------------------------------------------------------------
\* A character arrives, in an interrupt, on stream s.

Receivable == pc = "begin" => InterruptedStart

\* the chain of handlers ends in protocol_enqueue_realtime_command()
Reaches(s) == \/ io.handler[s] \in {"protocol", "coreAck"}
              \/ io.handler[s] \in {"drop", "ack"} /\ io.chained = "protocol"

Received(s) == s \in up /\ Receivable /\ Reaches(s)

\* drop_input_stream() lets no text through
RxText(s) ==
    /\ Received(s) /\ io.handler[s] # "drop" /\ io.rx[s] = "empty"
    /\ io' = [io EXCEPT !.rx[s] = IF state = "tool" THEN "late" ELSE "early"]
    /\ UNCHANGED <<prog, main, machine, tasks, up, last, bounds>>

\* CMD_TOOL_ACK
RxAck(s) ==
    /\ Received(s)
    /\ \/ /\ io.handler[s] = "ack"
          /\ io' = SetHandler([io EXCEPT !.hal.read = io.act.read], io.act.stream, io.chained)
       \/ /\ io.handler[s] = "coreAck"
          /\ io' = [io EXCEPT !.core.acked = TRUE, !.core.kept = io.rx[io.core.by],
                              !.rx[io.core.by] = "empty", !.hal.read = io.core.by,
                              !.handler[io.hal.stream] = "protocol"]
    /\ UNCHANGED <<prog, main, machine, tasks, up, last, bounds>>

\* mutant: what was saved is cleared before it is put back
ResumedCleared(i) ==
    [i EXCEPT !.hal.read = IF @ = "pending" THEN i.redirect ELSE @,
              !.hook["start"] = IF @ = "job" THEN "none" ELSE @,
              !.saved["start"] = "none"]

\* onCycleStart()
Resumed(i) ==
    [i EXCEPT !.hal.read = IF @ = "pending" THEN i.redirect ELSE @,
              !.hook["start"] = IF @ = "job" THEN i.saved["start"] ELSE @,
              !.saved["start"] = IF i.hook["start"] = "job" THEN "none" ELSE @]

\* CMD_CYCLE_START, when it can have an effect
RxStart(s) ==
    /\ Received(s)
    /\ state = "tool" \/ pc = "tooled" \/ io.hook["start"] = "job"
    /\ io' = IF io.hook["start"] = "job" THEN Resumed(io) ELSE io
    /\ flags' = flags \cup {"start"} /\ change' = FALSE
    /\ UNCHANGED <<prog, main, state, tasks, up, last, bounds>>

\* only a reset ends a job that is in an alarm: it is not bounded there
Ordered == IF state = "alarm" /\ io.hal.type = "file" THEN UNCHANGED orders
           ELSE orders < MaxOrders /\ orders' = orders + 1

\* CMD_RESET: mc_reset()
RxReset(s) ==
    /\ Received(s) /\ "reset" \notin flags /\ Ordered
    /\ io' = SuspendRead(io, FALSE)
    /\ flags' = flags \cup {"reset"} \cup (IF state \in {"cycle", "jog"} THEN {"lost"} ELSE {})
    /\ UNCHANGED <<prog, main, state, change, tasks, up, last, jobs, changes>>

\* CMD_STOP
RxStop(s) ==
    /\ Received(s) /\ "stop" \notin flags /\ Ordered
    /\ io' = [io EXCEPT !.rx[io.hal.stream] = "empty"]
    /\ flags' = flags \cup {"stop"}
    /\ UNCHANGED <<prog, main, state, change, tasks, up, last, jobs, changes>>

Receive == \E s \in Streams : RxText(s) \/ RxAck(s) \/ RxStart(s) \/ RxReset(s) \/ RxStop(s)

-----------------------------------------------------------------------------
\* A telnet client connects or leaves, in the network task.

Phase == IF io.core.by # "none" THEN "suspended"
         ELSE IF io.act.type = "null" THEN "none"
         ELSE IF line.src # "none" \/ pc \in {"tooled", "ending"} THEN "line"
         ELSE IF io.open THEN "reading" ELSE "drained"

\* stream_select() and stream_changed()
Selected(i, s) == [i EXCEPT !.hal = Native(s), !.handler[s] = "protocol"]

Change(s) ==
    /\ changes < MaxChanges /\ pc # "begin"
    /\ io' = Selected(io, s)
    /\ tasks' = IF io.hook["changed"] = "job" /\ io.open THEN tasks + 1 ELSE tasks
    /\ changes' = changes + 1
    /\ UNCHANGED <<prog, main, machine, last, jobs, orders>>

Connect == /\ "telnet" \notin up /\ Phase \in ConnectAt
           /\ Change("telnet") /\ up' = up \cup {"telnet"}

Disconnect == /\ "telnet" \in up /\ Phase \in HangupAt
              /\ Change("serial") /\ up' = up \ {"telnet"}

Next == MainStep \/ MotionDone \/ Receive \/ Connect \/ Disconnect

Spec == Init /\ [][Next]_vars

\* the main loop does not stop and motion comes to an end
FairSpec == Spec /\ WF_vars(MainStep) /\ WF_vars(MotionDone)

-----------------------------------------------------------------------------
Busy == io.act.type # "null"

\* A received character always finds its way to the core's realtime handler,
\* whatever the job has put before it: no handler waits for itself.
RealtimeReaches == \A s \in up : Receivable => Reaches(s)

\* Once a job is over, and however it ended, the input comes from a stream that
\* is connected, text is let through and no callback is the job's.
InputRestored ==
    ~Busy => /\ io.hal.stream \in up /\ io.hal.suspend = "core"
             /\ io.hal.read = io.hal.stream \/ io.core.by # "none"
             /\ io.handler[io.hal.stream] \in {"protocol", "coreAck"}
             /\ \A h \in Hooks : io.hook[h] = "core"

\* What is executed in a tool change of a job was typed for it: lines sent ahead
\* of the tool change are not in the input any more.
ToolInputIsFresh ==
    Busy /\ io.hal.type = "file" /\ io.hal.read \in Streams
      => io.rx[io.hal.read] # "early"

\* A job that waits for a cycle start to run its file again has the file open:
\* file_rewind() has a file to rewind.
RewindIsOpen == Busy /\ io.hal.read = "pending" => io.open

\* A job comes to its end unless it waits for the operator, for a cycle start,
\* a tool change or, in an alarm, a reset; and a reset ends also one that waits.
JobEnds ==
    /\ Busy ~> ~Busy \/ io.hal.read = "pending" \/ state \in {"tool", "alarm"}
    /\ Busy /\ "reset" \in flags ~> ~Busy

-----------------------------------------------------------------------------
\* What running a file promises.

InHand == line.src = "file"
Forced == flags \cap {"reset", "stop"} # {} \/ io.hal.type # "file"

Mode == IF InHand /\ pc # "eol"
        THEN IF ~Busy \/ Forced THEN "final" ELSE "running"
        ELSE IF ~Busy THEN "manual"
        ELSE IF Forced THEN "ending"
        ELSE IF pc = "tooled" THEN "held"
        ELSE IF line.src = "typed" THEN "changing"
        ELSE CASE io.hal.read = "file"    -> "running"
               [] io.hal.read = "none"    -> "held"
               [] io.hal.read = "pending" -> "waiting"
               [] OTHER                   -> "changing"

NextLine == IF InHand THEN line.n ELSE io.pos + 1

J == INSTANCE JobService WITH mode <- Mode, next <- NextLine

\* The job executes the lines of its file in order, each once a pass, and ends
\* early only for an error or by an order of the operator or a new connection;
\* nothing is executed while it is held or waits.
ImplementsJobService == J!ServiceSpec
=============================================================================
