--------------------------- MODULE FileJob_proofs ---------------------------
(***************************************************************************)
(* Whoever has the input while a file runs, what the operator sends gets   *)
(* through and the input is given back, and the file is executed as        *)
(* JobService promises: for all files, all that is typed and any number of *)
(* jobs, connections and orders.                                           *)
(***************************************************************************)
EXTENDS FileJob, TLAPS

\* A client connects only while no job runs or between two lines of it, and
\* leaves only while none runs; characters do not arrive while a job is being
\* set up, and a file does not start another one.
Undisturbed == /\ ~InterruptedStart /\ ~Nested
               /\ ConnectAt \subseteq {"none", "reading"} /\ HangupAt \subseteq {"none"}

-----------------------------------------------------------------------------
(* The input, in the hands of the core, taken over by a job that is being  *)
(* set up, and of a job.  u are the streams that are connected.            *)

Owned(i) == i.act.type # "null"

Free(i, u) ==
    /\ i.hal.stream \in u /\ i.hal.type = i.hal.stream /\ i.hal.suspend = "core"
    /\ \A h \in Hooks : i.hook[h] = "core"
    /\ \A s \in Streams : \/ i.handler[s] = "protocol"
                          \/ i.handler[s] = "coreAck" /\ i.core.by = s
    /\ i.core.by = "none" => i.core = NotSuspended /\ i.hal.read = i.hal.stream
    /\ i.core.by # "none" => /\ i.core.by = i.hal.stream
                             /\ i.hal.read \in {"none", i.core.by}
                             /\ i.core.acked => /\ i.hal.read = i.core.by
                                                /\ i.handler[i.core.by] = "protocol"

\* what the job found is what the core had, and nobody else has changed it
Found(i, u) ==
    /\ i.act = Native(i.act.stream) /\ i.act.stream \in u
    /\ i.core = NotSuspended
    /\ \A h \in {"completed", "status"} : i.hook[h] = "job" /\ i.saved[h] = "core"
    /\ \A s \in Streams \ {i.act.stream} : i.handler[s] = "protocol"

FromFile(i) == i.hal.type = "file" /\ i.hal.stream = i.act.stream /\ i.hal.suspend = "job"

Taking(i, u) == /\ Found(i, u) /\ FromFile(i) /\ i.hal.read = "file"
                /\ i.hook["start"] = "core" /\ i.hook["changed"] = "core"
                /\ i.handler[i.act.stream] = "protocol"

Taken(i, u) ==
    /\ Found(i, u)
    /\ i.chained = "protocol" /\ i.redirect = "file"
    /\ i.handler[i.act.stream] \in {"protocol", "drop", "ack"}
    /\ i.hook["changed"] = "job" /\ i.saved["changed"] = "core"
    /\ i.hook["start"] = "job" => i.saved["start"] = "core"
    /\ \/ FromFile(i)
       \/ i.hal.type = i.hal.stream /\ i.hal.stream \in u /\ i.hal.suspend = "core"

InputOK(i, u, p) == IF p = "begin" THEN Owned(i) /\ Taking(i, u)
                    ELSE IF Owned(i) THEN Taken(i, u) ELSE Free(i, u)

\* how far the main loop is with a line
LinesOK ==
    /\ line.src = "file" => pc \in {"eol", "exec"}
    /\ pc \in {"eol", "exec"} \/ (pc = "ending" /\ back = "exec") => line.src # "none"
    /\ "tool" \in flags => pc = "tooled"
    /\ io.hal.read \in {"file", "pending"} => io.hal.type = "file"

\* a job that has lost the input to a new connection is about to be ended
ConnectionsOK ==
    /\ "serial" \in up
    /\ Owned(io) /\ io.hal.type # "file" => tasks = 1 \/ pc = "ending"
    /\ tasks > 0 \/ pc = "ending" =>
           Owned(io) /\ io.hal.type # "file" /\ line.src # "file" /\ "telnet" \in up
    /\ tasks > 0 => tasks = 1 /\ pc \in {"loop", "eol"}

\* the core suspends the input in a tool change only
SuspensionOK ==
    /\ io.core.by # "none" => state = "tool" /\ "reset" \notin flags /\ line.src # "file"
    /\ "keep" \in flags => io.core.by = "none" /\ (line.src = "file" => pc = "eol")

\* the job lets no text through
Drops(i) == i.handler[i.act.stream] = "drop" /\ i.hal.read \in {"file", "pending"}

\* ... except in a tool change, of which nothing is left from before
Changes(i) ==
    LET s == i.act.stream IN
    /\ i.handler[s] # "drop" /\ i.rx[s] # "early" /\ state = "tool"
    /\ i.hal.read \in {"none", "pending", "file", s}
    /\ line.src = "file" => pc = "eol" /\ i.hal.read = "file"
    /\ i.handler[s] = "ack" => i.hal.read = "none" /\ line.src = "none"
    /\ i.hal.read = "file" => "start" \in flags /\ ~change

FreshOK == Owned(io) /\ io.hal.type = "file" /\ pc # "begin" => Drops(io) \/ Changes(io)

IInv == /\ TypeOK /\ InputOK(io, up, pc)
        /\ LinesOK /\ ConnectionsOK /\ SuspensionOK /\ FreshOK

\* the core has the input back
Ended(i, u) == i \in IO /\ ~Owned(i) /\ Free(i, u) /\ i.core.by = "none"

-----------------------------------------------------------------------------
\* Lemmas on the operators.

LEMMA EndJobEnds ==
  ASSUME NEW i \in IO, NEW u \in SUBSET Streams, NEW b \in BOOLEAN, Taken(i, u)
  PROVE  Ended(EndJob(i, b), u)
<1> DEFINE s == i.act.stream
           k == [h \in Hooks |->
                    CASE h = "changed" -> i.saved[h]
                      [] h = "status" /\ i.hook[h] # "job" -> "core"
                      [] OTHER -> Restored(i, h)]
           v == IF i.hook["start"] = "job" THEN "none" ELSE i.saved["start"]
           x == IF b THEN "empty" ELSE i.rx[s]
           j == [i EXCEPT !.open = FALSE, !.hook = k, !.saved["start"] = v,
                          !.saved["status"] = "none", !.hal = i.act, !.act.type = "null",
                          !.rx[s] = x, !.frewind = FALSE]
<1>1. EndJob(i, b) = SetHandler(j, s, i.chained)
  BY DEF EndJob, IO
<1>2. s \in Streams /\ s \in u /\ i.chained = "protocol"
  BY DEF IO, Input, Taken, Found
<1>3. k = [h \in Hooks |-> "core"]
  BY DEF Taken, Found, Restored, IO, Hooks
<1>4. v \in {"none", "core", "job"} /\ x \in {"empty", "early", "late"}
  BY <1>2 DEF IO, Hooks
<1>5. EndJob(i, b) = [j EXCEPT !.handler[s] = "protocol"]
  BY <1>1, <1>2 DEF SetHandler
<1> HIDE DEF k, v, x
<1>6. j \in IO
  <2> DEFINE saved == [i.saved EXCEPT !["start"] = v, !["status"] = "none"]
             act == [i.act EXCEPT !.type = "null"]
             rx == [i.rx EXCEPT ![s] = x]
  <2>1. k \in [Hooks -> {"core", "job"}]
    BY <1>3
  <2>2. saved \in [Hooks -> {"none", "core", "job"}]
    BY <1>4 DEF IO, Hooks
  <2>3. act \in Input
    BY DEF IO, Input
  <2>4. rx \in [Streams -> {"empty", "early", "late"}]
    BY <1>2, <1>4 DEF IO
  <2>5. j = [i EXCEPT !.open = FALSE, !.hook = k, !.saved = saved, !.hal = i.act,
                      !.act = act, !.rx = rx, !.frewind = FALSE]
    BY DEF IO
  <2> HIDE DEF saved, act, rx, j
  <2> QED BY <2>1, <2>2, <2>3, <2>4, <2>5 DEF IO
<1>7. j.hal = i.act /\ j.core = i.core /\ j.act.type = "null" /\ j.hook = k /\ j.handler = i.handler
  BY DEF IO, Input
<1> HIDE DEF j
<1>8. EndJob(i, b) \in IO
  BY <1>2, <1>5, <1>6 DEF IO
<1>9. /\ EndJob(i, b).hal = Native(s) /\ EndJob(i, b).core = NotSuspended
      /\ EndJob(i, b).act.type = "null" /\ EndJob(i, b).hook = k
      /\ \A t \in Streams : EndJob(i, b).handler[t] = "protocol"
  BY <1>2, <1>5, <1>6, <1>7 DEF IO, Taken, Found
<1> QED
  BY <1>2, <1>3, <1>8, <1>9 DEF Ended, Owned, Free, Native, NotSuspended, Streams, Hooks

\* What the predicates above do not depend on.
Alike(i, j) == /\ j.hal = i.hal /\ j.act = i.act /\ j.core = i.core /\ j.hook = i.hook
               /\ j.saved = i.saved /\ j.handler = i.handler
               /\ j.chained = i.chained /\ j.redirect = i.redirect

LEMMA AlikeOK ==
  ASSUME NEW i, NEW j, NEW u, Alike(i, j)
  PROVE  /\ Free(i, u) => Free(j, u)
         /\ Taking(i, u) => Taking(j, u)
         /\ Taken(i, u) => Taken(j, u)
         /\ FromFile(j) <=> FromFile(i)
         /\ Owned(j) <=> Owned(i)
  BY DEF Alike, Free, Taking, Taken, Found, FromFile, Owned

LEMMA Exclusive ==
  ASSUME NEW i \in IO, NEW u \in SUBSET Streams
  PROVE  /\ Free(i, u) => i.hal.type # "file" /\ i.hal.type \in Streams
         /\ Taken(i, u) \/ Taking(i, u) => i.core.by = "none" /\ i.act.stream \in u /\ Owned(i)
         /\ Taken(i, u) => (FromFile(i) <=> i.hal.type = "file")
  BY DEF Free, Taken, Taking, Found, FromFile, IO, Input, Streams, NotSuspended, Owned, Native

LEMMA JobSuspends ==
  ASSUME NEW i \in IO, NEW u \in SUBSET Streams, Taken(i, u), FromFile(i)
  PROVE  /\ JobSuspend(i, TRUE) \in IO
         /\ Taken(JobSuspend(i, TRUE), u)
         /\ FromFile(JobSuspend(i, TRUE))
         /\ JobSuspend(i, TRUE).act = i.act
         /\ JobSuspend(i, TRUE).handler[i.act.stream] = "ack"
         /\ JobSuspend(i, TRUE).hal.read = "none"
         /\ JobSuspend(i, TRUE).rx[i.act.stream] = "empty"
<1> DEFINE s == i.act.stream
           j == [i EXCEPT !.hal.read = "none", !.rx[s] = "empty", !.handler[s] = "ack"]
<1>1. JobSuspend(i, TRUE) = j
  BY DEF JobSuspend
<1>2. s \in Streams
  BY DEF IO, Input
<1>3. j \in IO
  BY <1>2 DEF IO, Input
<1>4. /\ j.hal = [i.hal EXCEPT !.read = "none"] /\ j.act = i.act /\ j.core = i.core
      /\ j.hook = i.hook /\ j.saved = i.saved /\ j.chained = i.chained /\ j.redirect = i.redirect
      /\ j.handler = [i.handler EXCEPT ![s] = "ack"] /\ j.rx = [i.rx EXCEPT ![s] = "empty"]
  BY DEF IO
<1> HIDE DEF j
<1>5. j.handler[s] = "ack" /\ j.rx[s] = "empty" /\ \A t \in Streams \ {s} : j.handler[t] = i.handler[t]
  BY <1>2, <1>4 DEF IO
<1>6. j.hal.read = "none" /\ FromFile(j)
  BY <1>4 DEF IO, Input, FromFile
<1>7. Taken(j, u)
  BY <1>4, <1>5, <1>6 DEF Taken, Found
<1> QED BY <1>1, <1>3, <1>4, <1>5, <1>6, <1>7

LEMMA JobResumes ==
  ASSUME NEW i \in IO, NEW u \in SUBSET Streams, Taken(i, u), FromFile(i)
  PROVE  /\ JobSuspend(i, FALSE) \in IO
         /\ Taken(JobSuspend(i, FALSE), u)
         /\ FromFile(JobSuspend(i, FALSE))
         /\ JobSuspend(i, FALSE).act = i.act
         /\ JobSuspend(i, FALSE).handler[i.act.stream] = "drop"
         /\ JobSuspend(i, FALSE).hal.read = "file"
<1> DEFINE s == i.act.stream
           j == [i EXCEPT !.hal.read = "file", !.handler[s] = "drop"]
<1>1. JobSuspend(i, FALSE) = j
  BY DEF JobSuspend, Taken, FromFile
<1>2. s \in Streams
  BY DEF IO, Input
<1>3. j \in IO
  BY <1>2 DEF IO, Input
<1>4. /\ j.hal = [i.hal EXCEPT !.read = "file"] /\ j.act = i.act /\ j.core = i.core
      /\ j.hook = i.hook /\ j.saved = i.saved /\ j.chained = i.chained /\ j.redirect = i.redirect
      /\ j.handler = [i.handler EXCEPT ![s] = "drop"]
  BY DEF IO
<1> HIDE DEF j
<1>5. j.handler[s] = "drop" /\ \A t \in Streams \ {s} : j.handler[t] = i.handler[t]
  BY <1>2, <1>4 DEF IO
<1>6. j.hal.read = "file" /\ FromFile(j)
  BY <1>4 DEF IO, Input, FromFile
<1>7. Taken(j, u)
  BY <1>4, <1>5, <1>6 DEF Taken, Found
<1> QED BY <1>1, <1>3, <1>4, <1>5, <1>6, <1>7

LEMMA CoreSuspends ==
  ASSUME NEW i \in IO, NEW u \in SUBSET Streams, Free(i, u)
  PROVE  /\ CoreSuspend(i, TRUE) \in IO
         /\ Free(CoreSuspend(i, TRUE), u)
         /\ CoreSuspend(i, TRUE).act = i.act
<1>1. CASE i.core.by # "none"
  BY <1>1 DEF CoreSuspend
<1>2. CASE i.core.by = "none"
  <2> DEFINE s == i.hal.stream
             j == [i EXCEPT !.core.by = s, !.handler[s] = "coreAck", !.hal.read = "none"]
  <2>1. CoreSuspend(i, TRUE) = j
    BY <1>2 DEF CoreSuspend
  <2>2. s \in Streams
    BY DEF IO, Input
  <2>3. j \in IO
    BY <2>2 DEF IO, Input
  <2>4. /\ j.hal = [i.hal EXCEPT !.read = "none"] /\ j.act = i.act /\ j.hook = i.hook
        /\ j.core = [i.core EXCEPT !.by = s] /\ j.handler = [i.handler EXCEPT ![s] = "coreAck"]
    BY DEF IO
  <2> HIDE DEF j
  <2>5. /\ j.handler[s] = "coreAck" /\ \A t \in Streams \ {s} : j.handler[t] = i.handler[t]
        /\ j.core.by = s /\ ~j.core.acked
    BY <1>2, <2>2, <2>4 DEF IO, Free, NotSuspended
  <2>6. j.hal.stream = s /\ j.hal.type = i.hal.type /\ j.hal.suspend = i.hal.suspend
    BY <2>4 DEF IO, Input
  <2>7. Free(j, u)
    BY <1>2, <2>2, <2>4, <2>5, <2>6 DEF Free, Streams
  <2> QED BY <2>1, <2>3, <2>4, <2>7
<1> QED BY <1>1, <1>2

LEMMA CoreResumes ==
  ASSUME NEW i \in IO, NEW u \in SUBSET Streams, Free(i, u)
  PROVE  /\ CoreSuspend(i, FALSE) \in IO
         /\ Free(CoreSuspend(i, FALSE), u)
         /\ CoreSuspend(i, FALSE).act = i.act
         /\ CoreSuspend(i, FALSE).core.by = "none"
<1> DEFINE s == i.hal.stream
<1>s. s \in Streams
  BY DEF IO, Input
<1>1. CASE i.core.by = "none"
  BY <1>1 DEF CoreSuspend
<1>2. CASE i.core.by # "none" /\ i.core.acked
  <2> DEFINE j == [i EXCEPT !.rx[s] = i.core.kept, !.core = NotSuspended]
  <2>1. CoreSuspend(i, FALSE) = j
    BY <1>2 DEF CoreSuspend, Free
  <2>2. j \in IO
    BY <1>s DEF IO, Input, NotSuspended
  <2>3. /\ j.hal = i.hal /\ j.act = i.act /\ j.hook = i.hook
        /\ j.core = NotSuspended /\ j.handler = i.handler
    BY DEF IO
  <2> HIDE DEF j
  <2>4. Free(j, u)
    BY <1>2, <2>3 DEF Free, NotSuspended
  <2>5. j.core.by = "none"
    BY <2>3 DEF NotSuspended
  <2> QED BY <2>1, <2>2, <2>3, <2>4, <2>5
<1>3. CASE i.core.by # "none" /\ ~i.core.acked
  <2> DEFINE j == [i EXCEPT !.hal.read = s, !.handler[s] = "protocol", !.core = NotSuspended]
  <2>1. CoreSuspend(i, FALSE) = j
    BY <1>3 DEF CoreSuspend, Free
  <2>2. j \in IO
    BY <1>s DEF IO, Input, NotSuspended
  <2>3. /\ j.hal = [i.hal EXCEPT !.read = s] /\ j.act = i.act /\ j.hook = i.hook
        /\ j.core = NotSuspended /\ j.handler = [i.handler EXCEPT ![s] = "protocol"]
    BY DEF IO
  <2> HIDE DEF j
  <2>4. \A t \in Streams : j.handler[t] = "protocol"
    BY <1>3, <1>s, <2>3 DEF IO, Free
  <2>5. j.hal.read = s /\ j.hal.stream = s /\ j.hal.type = i.hal.type /\ j.hal.suspend = i.hal.suspend
    BY <2>3 DEF IO, Input
  <2>6. Free(j, u)
    BY <2>3, <2>4, <2>5 DEF Free, NotSuspended
  <2>7. j.core.by = "none"
    BY <2>3 DEF NotSuspended
  <2> QED BY <2>1, <2>2, <2>3, <2>6, <2>7
<1> QED BY <1>1, <1>2, <1>3

\* m2 and the end of the file: the job is over, or waits to run the file again.
LEMMA CompletedOK ==
  ASSUME NEW i \in IO, NEW u \in SUBSET Streams, NEW k
  PROVE  /\ Free(i, u) => Completed(i, k) = i
         /\ Taken(i, u) =>
              \/ Ended(Completed(i, k), u)
              \/ LET j == Completed(i, k) IN
                 /\ j \in IO /\ Taken(j, u)
                 /\ j.act = i.act /\ j.handler = i.handler /\ j.rx = i.rx
                 /\ j.hal.type = i.hal.type /\ j.hal.read = "pending"
<1>1. Free(i, u) => Completed(i, k) = i
  BY DEF Free, Completed, Hooks
<1>2. ASSUME Taken(i, u), i.frewind \/ k = "m2"
      PROVE  LET j == Completed(i, k) IN
             /\ j \in IO /\ Taken(j, u)
             /\ j.act = i.act /\ j.handler = i.handler /\ j.rx = i.rx
             /\ j.hal.type = i.hal.type /\ j.hal.read = "pending"
  <2> DEFINE v == IF i.hook["start"] = "job" THEN i.saved["start"] ELSE i.hook["start"]
             j == [i EXCEPT !.frewind = TRUE, !.pos = 0, !.hal.read = "pending",
                            !.saved["start"] = v, !.hook["start"] = "job"]
  <2>1. Completed(i, k) = j
    BY <1>2 DEF Completed, Taken, Found
  <2>2. v = "core"
    BY <1>2 DEF Taken, IO, Hooks
  <2> HIDE DEF v
  <2>3. j \in IO
    BY <2>2 DEF IO, Input, Hooks
  <2>4. /\ j.hal = [i.hal EXCEPT !.read = "pending"] /\ j.act = i.act /\ j.core = i.core
        /\ j.chained = i.chained /\ j.redirect = i.redirect /\ j.rx = i.rx
        /\ j.handler = i.handler /\ j.hook = [i.hook EXCEPT !["start"] = "job"]
        /\ j.saved = [i.saved EXCEPT !["start"] = "core"]
    BY <2>2 DEF IO
  <2> HIDE DEF j
  <2>5. /\ j.saved["start"] = "core"
        /\ \A h \in Hooks \ {"start"} : j.hook[h] = i.hook[h] /\ j.saved[h] = i.saved[h]
    BY <2>4 DEF IO, Hooks
  <2>6. /\ j.hal.stream = i.hal.stream /\ j.hal.type = i.hal.type
        /\ j.hal.suspend = i.hal.suspend /\ j.hal.read = "pending"
    BY <2>4 DEF IO, Input
  <2>7. Taken(j, u)
    BY <1>2, <2>4, <2>5, <2>6 DEF Taken, Found, FromFile, Hooks
  <2> QED BY <2>1, <2>3, <2>4, <2>6, <2>7
<1>3. ASSUME Taken(i, u), ~(i.frewind \/ k = "m2")
      PROVE  Ended(Completed(i, k), u)
  <2>1. Completed(i, k) = EndJob(i, TRUE)
    BY <1>3 DEF Completed, Taken, Found
  <2> QED BY <1>3, <2>1, EndJobEnds
<1> QED BY <1>1, <1>2, <1>3

LEMMA AnsweredOK ==
  ASSUME NEW i \in IO, NEW u \in SUBSET Streams, NEW k
  PROVE  /\ Free(i, u) => Answered(i, k) = i
         /\ Taken(i, u) => Ended(Answered(i, k), u) \/ Answered(i, k) = i
<1>1. Free(i, u) => Answered(i, k) = i
  BY DEF Free, Answered, Hooks
<1>2. Answered(i, k) \in {i, EndJob(i, TRUE)}
  BY DEF Answered
<1> QED BY <1>1, <1>2, EndJobEnds

LEMMA ResumedOK ==
  ASSUME NEW i \in IO, NEW u \in SUBSET Streams, Taken(i, u), i.hook["start"] = "job"
  PROVE  LET j == Resumed(i) IN
         /\ j \in IO /\ Taken(j, u)
         /\ j.act = i.act /\ j.handler = i.handler /\ j.rx = i.rx /\ j.hal.type = i.hal.type
         /\ j.hal.read = IF i.hal.read = "pending" THEN "file" ELSE i.hal.read
<1> DEFINE r == IF i.hal.read = "pending" THEN "file" ELSE i.hal.read
           j == [i EXCEPT !.hal.read = r, !.hook["start"] = "core", !.saved["start"] = "none"]
<1>1. Resumed(i) = j
  BY DEF Resumed, Taken, IO, Hooks
<1>2. r \in Streams \cup {"file", "none", "pending"}
  BY DEF IO, Input
<1>3. j \in IO
  BY <1>2 DEF IO, Input, Hooks
<1>4. /\ j.hal = [i.hal EXCEPT !.read = r] /\ j.act = i.act /\ j.core = i.core
      /\ j.chained = i.chained /\ j.redirect = i.redirect /\ j.rx = i.rx
      /\ j.handler = i.handler /\ j.hook = [i.hook EXCEPT !["start"] = "core"]
      /\ j.saved = [i.saved EXCEPT !["start"] = "none"]
  BY DEF IO
<1> HIDE DEF j
<1>5. /\ j.hook["start"] = "core"
      /\ \A h \in Hooks \ {"start"} : j.hook[h] = i.hook[h] /\ j.saved[h] = i.saved[h]
  BY <1>4 DEF IO, Hooks
<1>6. /\ j.hal.stream = i.hal.stream /\ j.hal.type = i.hal.type
      /\ j.hal.suspend = i.hal.suspend /\ j.hal.read = r
  BY <1>4 DEF IO, Input
<1>7. Taken(j, u)
  BY <1>4, <1>5, <1>6 DEF Taken, Found, FromFile, Hooks
<1> QED BY <1>1, <1>3, <1>4, <1>6, <1>7

\* A reset ends the job, unless another connection has come before.
LEMMA OnResetOK ==
  ASSUME NEW i \in IO, NEW u \in SUBSET Streams
  PROVE  /\ Free(i, u) => OnReset(i) = i
         /\ Taken(i, u) /\ i.hal.type # "file" => OnReset(i) = i
         /\ Taken(i, u) /\ i.hal.type = "file" => Ended(OnReset(i), u)
<1>1. i.hal.type # "file" => OnReset(i) = i
  BY DEF OnReset
<1>2. ASSUME Taken(i, u), i.hal.type = "file" PROVE Ended(OnReset(i), u)
  <2>1. OnReset(i) = EndJob(i, TRUE)
    BY <1>2, Exclusive DEF OnReset, Owned
  <2> QED BY <1>2, <2>1, EndJobEnds
<1> QED BY <1>1, <1>2, Exclusive

LEMMA SuspendReadOK ==
  ASSUME NEW i \in IO, NEW u \in SUBSET Streams, NEW b \in BOOLEAN
  PROVE  /\ Free(i, u) => SuspendRead(i, b) = CoreSuspend(i, b)
         /\ Taken(i, u) /\ i.hal.type # "file" => SuspendRead(i, FALSE) = i
         /\ Taken(i, u) /\ i.hal.type = "file" => SuspendRead(i, b) = JobSuspend(i, b)
<1>1. Free(i, u) => SuspendRead(i, b) = CoreSuspend(i, b)
  BY DEF Free, SuspendRead
<1>2. ASSUME Taken(i, u), i.hal.type # "file" PROVE SuspendRead(i, FALSE) = i
  <2>1. i.hal.suspend = "core" /\ i.core.by = "none"
    BY <1>2, Exclusive DEF Taken, FromFile
  <2> QED BY <2>1 DEF SuspendRead, CoreSuspend
<1>3. Taken(i, u) /\ i.hal.type = "file" => SuspendRead(i, b) = JobSuspend(i, b)
  BY Exclusive DEF SuspendRead, FromFile
<1> QED BY <1>1, <1>2, <1>3

LEMMA StoppedOK ==
  ASSUME NEW i \in IO, NEW u \in SUBSET Streams, "keep" \in flags => i.core.by = "none"
  PROVE  /\ Free(i, u) /\ ~Owned(i) => Ended(Stopped(i), u)
         /\ Taken(i, u) /\ i.hal.type # "file" => Stopped(i) = i
         /\ Taken(i, u) /\ i.hal.type = "file" => Ended(Stopped(i), u)
<1>1. ASSUME Free(i, u), ~Owned(i) PROVE Ended(Stopped(i), u)
  <2>1. OnReset(i) = i
    BY <1>1, OnResetOK
  <2>2. CASE i.core.by = "none"
    BY <1>1, <2>1, <2>2 DEF Stopped, Ended
  <2>3. CASE i.core.by # "none"
    <3> DEFINE k == CoreSuspend(i, FALSE)
               j == [k EXCEPT !.rx[i.hal.stream] = "empty"]
    <3>1. Stopped(i) = j
      BY <1>1, <2>1, <2>3 DEF Stopped, Free
    <3>2. k \in IO /\ Free(k, u) /\ k.act = i.act /\ k.core.by = "none"
      BY <1>1, CoreResumes
    <3> HIDE DEF k
    <3>3. i.hal.stream \in Streams
      BY DEF IO, Input
    <3>4. j \in IO
      BY <3>2, <3>3 DEF IO
    <3>5. Alike(k, j)
      BY <3>2 DEF Alike, IO
    <3> HIDE DEF j
    <3>6. Free(j, u) /\ ~Owned(j) /\ j.core.by = "none"
      BY <1>1, <3>2, <3>5, AlikeOK DEF Owned, Alike
    <3> QED BY <3>1, <3>4, <3>6 DEF Ended
  <2> QED BY <2>2, <2>3
<1>2. ASSUME Taken(i, u), i.hal.type # "file" PROVE Stopped(i) = i
  BY <1>2, OnResetOK, Exclusive DEF Stopped
<1>3. ASSUME Taken(i, u), i.hal.type = "file" PROVE Ended(Stopped(i), u)
  <2>1. Ended(OnReset(i), u)
    BY <1>3, OnResetOK
  <2>2. OnReset(i).core.by = "none"
    BY <2>1 DEF Ended
  <2> QED BY <2>1, <2>2 DEF Stopped
<1> QED BY <1>1, <1>2, <1>3

\* The inductive invariant holds when the program starts.
LEMMA IInvInit == Init => IInv
<1> SUFFICES ASSUME Init PROVE IInv
  OBVIOUS
<1>1. /\ io.hal = Native("serial") /\ io.act = [Native("serial") EXCEPT !.type = "null"]
      /\ io.hook = [h \in Hooks |-> "core"] /\ io.handler = [s \in Streams |-> "protocol"]
      /\ io.core = NotSuspended
  BY DEF Init
<1>2. io \in IO
  <2>1. /\ Native("serial") \in Input
        /\ [Native("serial") EXCEPT !.type = "null"] \in Input
        /\ NotSuspended \in [by : Streams \cup {"none"}, acked : BOOLEAN,
                             kept : {"empty", "early", "late"}]
    BY DEF Native, Input, NotSuspended, Streams
  <2> QED BY <2>1 DEF Init, IO
<1>3. TypeOK
  BY <1>2 DEF Init, TypeOK, NoLine, Streams
<1>4. Free(io, up) /\ ~Owned(io) /\ io.core.by = "none" /\ io.hal.read = "serial"
  BY <1>1 DEF Init, Free, Owned, Native, NotSuspended
<1> QED
  BY <1>3, <1>4 DEF Init, IInv, InputOK, LinesOK, ConnectionsOK, SuspensionOK, FreshOK, NoLine

-----------------------------------------------------------------------------
\* Every step keeps the invariant: reading.

LEMMA Shapes ==
  ASSUME IInv
  PROVE  /\ io \in IO /\ up \in SUBSET Streams
         /\ pc = "begin" => Owned(io) /\ Taking(io, up)
         /\ pc # "begin" /\ Owned(io) => Taken(io, up)
         /\ ~Owned(io) => pc # "begin" /\ Free(io, up)
         /\ Owned(io) => io.core.by = "none"
  BY Exclusive DEF IInv, TypeOK, InputOK

LEMMA ReadLineKeeps == IInv /\ ReadLine => IInv'
<1> SUFFICES ASSUME IInv, ReadLine PROVE IInv'
  OBVIOUS
<1>1. io' \in IO /\ Alike(io, io') /\ io'.rx = io.rx
  BY DEF IInv, ReadLine, TypeOK, IO, Alike
<1>2. io.hal.type = "file" /\ Owned(io)
  BY Shapes, Exclusive DEF IInv, ReadLine, LinesOK
<1>3. TypeOK'
  BY <1>1 DEF IInv, ReadLine, TypeOK, machine, bounds, IO
<1>4. InputOK(io', up', pc')
  BY <1>1, <1>2, Shapes, AlikeOK DEF ReadLine, InputOK
<1>5. FreshOK'
  BY <1>1, <1>2 DEF IInv, ReadLine, FreshOK, Drops, Changes, Alike, machine
<1> QED
  BY <1>1, <1>2, <1>3, <1>4, <1>5, Shapes
     DEF IInv, ReadLine, Alike, LinesOK, ConnectionsOK, SuspensionOK, Owned, machine

LEMMA ReadEndKeeps == IInv /\ ReadEnd => IInv'
<1> SUFFICES ASSUME IInv, ReadEnd PROVE IInv'
  OBVIOUS
<1>1. io' \in IO /\ Alike(io, io') /\ io'.rx = io.rx
  BY DEF IInv, ReadEnd, TypeOK, IO, Alike
<1>2. TypeOK'
  BY <1>1 DEF IInv, ReadEnd, TypeOK, machine, bounds, main
<1>3. InputOK(io', up', pc')
  BY <1>1, Shapes, AlikeOK DEF ReadEnd, InputOK, main
<1> QED
  BY <1>1, <1>2, <1>3
     DEF IInv, ReadEnd, Alike, LinesOK, ConnectionsOK, SuspensionOK, FreshOK, Drops, Changes,
         Owned, machine, main

LEMMA ReadNothingKeeps == IInv /\ ReadNothing => IInv'
<1> SUFFICES ASSUME IInv, ReadNothing PROVE IInv'
  OBVIOUS
<1>1. io.hal.type = "file" /\ Owned(io) /\ Taken(io, up)
  BY Shapes, Exclusive DEF IInv, ReadNothing, LinesOK
<1>2. Drops(io) /\ tasks = 0 /\ line.src # "file"
  BY <1>1 DEF IInv, ReadNothing, FreshOK, Changes, ConnectionsOK, LinesOK, TypeOK
<1>3. CASE Ended(io', up)
  <2>1. io' \in IO /\ ~Owned(io') /\ Free(io', up) /\ io'.core.by = "none"
    BY <1>3 DEF Ended
  <2>2. io'.hal.read \notin {"file", "pending"}
    BY <2>1 DEF Free, IO, Input, Streams
  <2> QED
    BY <1>2, <2>1, <2>2
       DEF IInv, ReadNothing, TypeOK, InputOK, LinesOK, ConnectionsOK, SuspensionOK, FreshOK,
           machine, bounds, main
<1>4. CASE /\ io' \in IO /\ Taken(io', up) /\ io'.act = io.act /\ io'.handler = io.handler
           /\ io'.rx = io.rx /\ io'.hal.type = io.hal.type /\ io'.hal.read = "pending"
  <2>1. io'.core.by = "none" /\ Owned(io')
    BY <1>4, Shapes, Exclusive
  <2> QED
    BY <1>1, <1>2, <1>4, <2>1
       DEF IInv, ReadNothing, TypeOK, InputOK, LinesOK, ConnectionsOK, SuspensionOK, FreshOK,
           Drops, machine, bounds, main
<1> QED BY <1>1, <1>3, <1>4, Shapes, CompletedOK DEF ReadNothing

LEMMA ReadTypedKeeps == IInv /\ ReadTyped => IInv'
<1> SUFFICES ASSUME IInv, ReadTyped PROVE IInv'
  OBVIOUS
<1>1. /\ io' \in IO /\ Alike(io, io')
      /\ io'.rx = [io.rx EXCEPT ![io.hal.read] = "empty"]
  BY DEF IInv, ReadTyped, TypeOK, IO, Alike
<1>2. TypeOK'
  BY <1>1 DEF IInv, ReadTyped, TypeOK, machine, bounds
<1>3. InputOK(io', up', pc')
  BY <1>1, Shapes, AlikeOK DEF ReadTyped, InputOK
<1>4. FreshOK'
  <2> SUFFICES ASSUME Owned(io'), io'.hal.type = "file" PROVE Changes(io)'
    BY DEF FreshOK
  <2>1. Owned(io) /\ Changes(io) /\ io.hal.read \in Streams
    BY <1>1 DEF IInv, ReadTyped, FreshOK, Alike, Owned, Drops, Streams
  <2>2. io'.rx[io.act.stream] # "early"
    BY <1>1, <2>1 DEF IInv, Changes, Streams, TypeOK, IO
  <2> QED BY <1>1, <2>1, <2>2 DEF ReadTyped, Changes, Alike, machine, Streams
<1> QED
  BY <1>1, <1>2, <1>3, <1>4
     DEF IInv, ReadTyped, Alike, LinesOK, ConnectionsOK, SuspensionOK, Owned, machine

-----------------------------------------------------------------------------
\* ... check points.

\* protocol_exec_rt_system() ends the job or leaves the input alone.
LEMMA AfterEnd ==
  ASSUME IInv, Ended(io', up'), TypeOK', pc' # "begin", tasks' = 0, pc' # "ending",
         "serial" \in up',
         line'.src = "file" => pc' \in {"eol", "exec"},
         pc' \in {"eol", "exec"} => line'.src # "none",
         "tool" \in flags' => pc' = "tooled",
         "keep" \in flags' => (line'.src = "file" => pc' = "eol")
  PROVE  IInv'
<1>1. io' \in IO /\ ~Owned(io') /\ Free(io', up') /\ io'.core.by = "none"
  BY DEF Ended
<1>2. io'.hal.read \notin {"file", "pending"}
  BY <1>1 DEF Free, IO, Input, Streams
<1> QED
  BY <1>1, <1>2 DEF IInv, InputOK, LinesOK, ConnectionsOK, SuspensionOK, FreshOK

LEMMA ResetKeeps == IInv /\ Reset => IInv'
<1> SUFFICES ASSUME IInv, Reset PROVE IInv'
  OBVIOUS
<1>1. pc # "begin" /\ io.core.by = "none"
  BY DEF IInv, Reset, CheckPoint, Waits, SuspensionOK
<1> DEFINE j == IF pc = "ending" THEN EndJob(OnReset(io), FALSE) ELSE OnReset(io)
<1>2. io' = [j EXCEPT !.rx[j.hal.stream] = "empty"]
  BY DEF Reset
<1>3. \/ Ended(j, up) /\ tasks = 0
      \/ /\ j = io /\ Taken(io, up) /\ Owned(io) /\ io.hal.type # "file"
         /\ tasks = 1 /\ pc # "ending"
  <2>1. CASE pc = "ending"
    <3>1. Taken(io, up) /\ io.hal.type # "file" /\ tasks = 0
      BY <2>1, Shapes DEF IInv, ConnectionsOK, TypeOK
    <3>2. j = EndJob(io, FALSE)
      BY <2>1, <3>1, Shapes, OnResetOK
    <3> QED BY <3>1, <3>2, Shapes, EndJobEnds
  <2>2. CASE pc # "ending" /\ ~Owned(io)
    BY <1>1, <2>2, Shapes, OnResetOK DEF Ended, IInv, ConnectionsOK, TypeOK
  <2>3. CASE pc # "ending" /\ Owned(io) /\ io.hal.type = "file"
    BY <1>1, <2>3, Shapes, OnResetOK DEF IInv, ConnectionsOK, TypeOK
  <2>4. CASE pc # "ending" /\ Owned(io) /\ io.hal.type # "file"
    BY <1>1, <2>4, Shapes, OnResetOK DEF IInv, ConnectionsOK
  <2> QED BY <2>1, <2>2, <2>3, <2>4
<1>4. j \in IO
  BY <1>3, Shapes DEF Ended
<1> HIDE DEF j
<1>5. io' \in IO /\ Alike(j, io')
  BY <1>2, <1>4 DEF IO, Input, Alike
<1>6. TypeOK'
  BY <1>5 DEF IInv, Reset, TypeOK, NoLine, bounds
<1>7. /\ pc' = "loop" /\ back' = "loop" /\ line'.src = "none" /\ flags' = {}
      /\ tasks' = tasks /\ up' = up
  BY DEF Reset, NoLine
<1>8. CASE Ended(j, up) /\ tasks = 0
  <2>1. Ended(io', up)
    BY <1>5, <1>8, AlikeOK DEF Ended, Alike
  <2> QED BY <1>6, <1>7, <1>8, <2>1, AfterEnd DEF IInv, ConnectionsOK
<1>9. CASE /\ j = io /\ Taken(io, up) /\ Owned(io) /\ io.hal.type # "file"
           /\ tasks = 1 /\ pc # "ending"
  <2>1. Taken(io', up) /\ Owned(io') /\ io'.hal = io.hal /\ io'.core = io.core
    BY <1>5, <1>9, AlikeOK DEF Alike
  <2> QED
    BY <1>1, <1>6, <1>7, <1>9, <2>1
       DEF IInv, InputOK, LinesOK, ConnectionsOK, SuspensionOK, FreshOK
<1> QED BY <1>3, <1>8, <1>9

LEMMA TerminateKeeps == IInv /\ Terminate => IInv'
<1> SUFFICES ASSUME IInv, Terminate PROVE IInv'
  OBVIOUS
<1>1. Taken(io, up) /\ tasks = 0 /\ line.src # "file" /\ "tool" \notin flags
  BY Shapes DEF IInv, Terminate, ConnectionsOK, LinesOK, TypeOK
<1>2. Ended(io', up)
  BY <1>1, Shapes, EndJobEnds DEF Terminate
<1>3. back \in {"loop", "exec"} /\ (back = "exec" => line.src # "none")
  BY DEF IInv, Terminate, TypeOK, LinesOK
<1>4. TypeOK'
  BY <1>2, <1>3 DEF IInv, Terminate, TypeOK, Ended, bounds
<1> QED
  BY <1>1, <1>2, <1>3, <1>4, AfterEnd DEF IInv, Terminate, ConnectionsOK

\* A check point with nothing to end: stop, tool change and cycle start.
LEMMA UpdatedFree ==
  ASSUME NEW i \in IO, NEW u \in SUBSET Streams, NEW s, Free(i, u), ~Owned(i)
  PROVE  /\ Updated(i, s)[1] \in IO /\ Free(Updated(i, s)[1], u) /\ ~Owned(Updated(i, s)[1])
         /\ \/ Updated(i, s)[2] = "tool" /\ "tool" \in flags
            \/ Updated(i, s)[1].core.by = "none"
            \/ Updated(i, s) = <<i, s>>
<1>1. CASE s = "idle" /\ "tool" \in flags
  <2>1. Updated(i, s) = <<CoreSuspend(i, TRUE), "tool">>
    BY <1>1, SuspendReadOK DEF Updated
  <2>2. /\ Updated(i, s)[1] = CoreSuspend(i, TRUE) /\ Updated(i, s)[2] = "tool"
    BY <2>1
  <2> QED BY <1>1, <2>2, CoreSuspends DEF Owned
<1>2. CASE ~(s = "idle" /\ "tool" \in flags) /\ s = "tool" /\ "start" \in flags /\ ~change
  <2>1. Updated(i, s) = <<CoreSuspend(i, FALSE), "idle">>
    BY <1>2, SuspendReadOK DEF Updated
  <2>2. Updated(i, s)[1] = CoreSuspend(i, FALSE)
    BY <2>1
  <2> QED BY <2>2, CoreResumes DEF Owned
<1>3. CASE ~(s = "idle" /\ "tool" \in flags) /\ ~(s = "tool" /\ "start" \in flags /\ ~change)
  <2>1. Updated(i, s) = <<i, s>>
    BY <1>3 DEF Updated
  <2> QED BY <2>1
<1> QED BY <1>1, <1>2, <1>3

LEMMA UpdatedElsewhere ==
  ASSUME NEW i \in IO, NEW u \in SUBSET Streams, NEW s, Taken(i, u), i.hal.type # "file",
         "tool" \notin flags
  PROVE  Updated(i, s)[1] = i /\ Updated(i, s)[2] \in {s, "idle"}
<1>1. CASE s = "tool" /\ "start" \in flags /\ ~change
  BY <1>1, SuspendReadOK DEF Updated
<1>2. CASE ~(s = "tool" /\ "start" \in flags /\ ~change)
  BY <1>2 DEF Updated
<1> QED BY <1>1, <1>2

LEMMA UpdatedFile ==
  ASSUME NEW u \in SUBSET Streams, NEW s, io \in IO, Taken(io, u), io.hal.type = "file"
  PROVE  LET j == Updated(io, s)[1] IN
         /\ j \in IO /\ Taken(j, u) /\ j.hal.type = "file"
         /\ \/ Drops(j)
            \/ /\ s = "idle" /\ "tool" \in flags /\ Updated(io, s)[2] = "tool"
               /\ j.handler[j.act.stream] = "ack" /\ j.hal.read = "none"
               /\ j.rx[j.act.stream] = "empty"
            \/ Updated(io, s) = <<io, s>> /\ ~(s = "tool" /\ "start" \in flags /\ ~change)
<1>f. FromFile(io)
  BY Exclusive
<1>1. CASE s = "idle" /\ "tool" \in flags
  <2>1. Updated(io, s) = <<JobSuspend(io, TRUE), "tool">>
    BY <1>1, SuspendReadOK DEF Updated
  <2>2. Updated(io, s)[1] = JobSuspend(io, TRUE) /\ Updated(io, s)[2] = "tool"
    BY <2>1
  <2> DEFINE j == JobSuspend(io, TRUE)
  <2>3. /\ j \in IO /\ Taken(j, u) /\ FromFile(j) /\ j.act = io.act
        /\ j.handler[io.act.stream] = "ack" /\ j.hal.read = "none"
        /\ j.rx[io.act.stream] = "empty"
    BY <1>f, JobSuspends
  <2>4. j.hal.type = "file"
    BY <2>3 DEF FromFile
  <2>5. Updated(io, s)[1] = j /\ Updated(io, s)[2] = "tool"
    BY <2>2 DEF j
  <2> HIDE DEF j
  <2> QED BY <1>1, <2>3, <2>4, <2>5
<1>2. CASE ~(s = "idle" /\ "tool" \in flags) /\ s = "tool" /\ "start" \in flags /\ ~change
  <2>1. Updated(io, s) = <<JobSuspend(io, FALSE), "idle">>
    BY <1>2, SuspendReadOK DEF Updated
  <2>2. Updated(io, s)[1] = JobSuspend(io, FALSE)
    BY <2>1
  <2> DEFINE j == JobSuspend(io, FALSE)
  <2>3. /\ j \in IO /\ Taken(j, u) /\ FromFile(j) /\ j.act = io.act
        /\ j.handler[io.act.stream] = "drop" /\ j.hal.read = "file"
    BY <1>f, JobResumes
  <2>4. j.hal.type = "file" /\ Drops(j)
    BY <2>3 DEF FromFile, Drops
  <2>5. Updated(io, s)[1] = j
    BY <2>2 DEF j
  <2> HIDE DEF j
  <2> QED BY <2>3, <2>4, <2>5
<1>3. CASE ~(s = "idle" /\ "tool" \in flags) /\ ~(s = "tool" /\ "start" \in flags /\ ~change)
  <2>1. Updated(io, s) = <<io, s>>
    BY <1>3 DEF Updated
  <2> QED BY <1>3, <2>1
<1> QED BY <1>1, <1>2, <1>3

\* A check point while the input is on another connection: the job is ended now
\* or, if something moves, when that has stopped.
LEMMA CheckElsewhere ==
  ASSUME IInv, Check, Owned(io), io.hal.type # "file"
  PROVE  IInv'
<1> DEFINE stop == "stop" \in flags
           j == IF stop THEN Stopped(io) ELSE io
           t == IF stop THEN "idle" ELSE state
           a == Updated(j, t)
           next == IF pc \in {"loop", "tooled"} \/ (stop /\ pc = "eol") THEN "loop"
                   ELSE IF pc = "ending" THEN "ending" ELSE "exec"
<1>1. pc # "begin" /\ Taken(io, up) /\ "tool" \notin flags
  BY Shapes DEF IInv, Check, CheckPoint, Waits, LinesOK, ConnectionsOK
<1>2. j = io
  BY <1>1, Shapes, StoppedOK DEF IInv, SuspensionOK
<1>3. a[1] = io /\ a[2] \in {state, "idle"}
  BY <1>1, <1>2, Shapes, UpdatedElsewhere
<1>4. /\ state' = a[2] /\ change' = (change /\ ~stop)
      /\ line' = IF next = "loop" THEN NoLine ELSE line
      /\ UNCHANGED <<prog, up, last, bounds>>
      /\ IF tasks = 0
         THEN io' = a[1] /\ pc' = next /\ flags' = {} /\ UNCHANGED <<back, tasks>>
         ELSE IF a[2] = "cycle"
         THEN /\ io' = a[1] /\ flags' = {} /\ pc' = "ending"
              /\ back' = IF pc = "ending" THEN back ELSE next
              /\ tasks' = IF pc = "ending" THEN tasks ELSE tasks - 1
         ELSE /\ io' = Terminated(a[1], tasks) /\ flags' = {"stop", "keep"}
              /\ pc' = next /\ tasks' = 0 /\ UNCHANGED back
  BY DEF Check
<1> HIDE DEF j, a
<1>5. /\ state' \in {"idle", "cycle", "tool", "jog", "alarm"} /\ change' \in BOOLEAN
      /\ line' \in [src : {"none", "file", "typed"}, n : Nat]
  BY <1>3, <1>4 DEF IInv, TypeOK, NoLine
<1>6. CASE tasks = 0
  <2>1. pc = "ending" /\ io' = io /\ pc' = "ending" /\ line' = line /\ flags' = {}
        /\ back' = back /\ tasks' = 0 /\ up' = up
    BY <1>3, <1>4, <1>6 DEF IInv, ConnectionsOK
  <2>2. TypeOK'
    BY <1>4, <1>5, <2>1 DEF IInv, TypeOK, bounds
  <2> QED
    BY <1>1, <2>1, <2>2, Shapes
       DEF IInv, InputOK, LinesOK, ConnectionsOK, SuspensionOK, FreshOK
<1>7. CASE tasks > 0
  <2>1. tasks = 1 /\ pc \in {"loop", "eol"} /\ line.src # "file" /\ next \in {"loop", "exec"}
    BY <1>7 DEF IInv, ConnectionsOK
  <2>2. next = "exec" => line' = line /\ line.src # "none"
    BY <1>4, <2>1 DEF IInv, LinesOK
  <2>3. next = "loop" => line'.src = "none"
    BY <1>4 DEF NoLine
  <2> HIDE DEF next
  <2>4. ASSUME a[2] = "cycle" PROVE IInv'
    <3>1. /\ io' = io /\ flags' = {} /\ pc' = "ending" /\ back' = next /\ tasks' = 0 /\ up' = up
      BY <1>3, <1>4, <1>7, <2>1, <2>4
    <3>2. TypeOK'
      BY <1>4, <1>5, <2>1, <3>1 DEF IInv, TypeOK, bounds
    <3> QED
      BY <1>1, <1>7, <2>1, <2>2, <2>3, <3>1, <3>2, Shapes
         DEF IInv, InputOK, LinesOK, ConnectionsOK, SuspensionOK, FreshOK
  <2>5. ASSUME a[2] # "cycle" PROVE IInv'
    <3>1. io' = EndJob(io, FALSE) /\ flags' = {"stop", "keep"} /\ pc' = next /\ tasks' = 0
          /\ back' = back /\ up' = up
      BY <1>3, <1>4, <1>7, <2>1, <2>5 DEF Terminated
    <3>2. Ended(io', up')
      BY <1>1, <3>1, Shapes, EndJobEnds
    <3>3. TypeOK'
      BY <1>4, <1>5, <2>1, <3>1, <3>2 DEF IInv, TypeOK, Ended, bounds
    <3>4. line'.src # "file"
      BY <2>1, <2>2, <2>3
    <3> QED
      BY <2>1, <2>2, <2>3, <3>1, <3>2, <3>3, <3>4, AfterEnd DEF IInv, ConnectionsOK
  <2> QED BY <2>4, <2>5
<1> QED BY <1>6, <1>7 DEF IInv, TypeOK

\* A check point while the file or the core has the input.
LEMMA CheckHere ==
  ASSUME IInv, Check, ~(Owned(io) /\ io.hal.type # "file")
  PROVE  IInv'
<1> DEFINE stop == "stop" \in flags
           j == IF stop THEN Stopped(io) ELSE io
           t == IF stop THEN "idle" ELSE state
           a == Updated(j, t)
           next == IF pc \in {"loop", "tooled"} \/ (stop /\ pc = "eol") THEN "loop"
                   ELSE IF pc = "ending" THEN "ending" ELSE "exec"
<1>1. pc # "begin" /\ pc # "ending" /\ tasks = 0
  BY DEF IInv, Check, CheckPoint, Waits, ConnectionsOK, TypeOK
<1>2. /\ state' = a[2] /\ change' = (change /\ ~stop)
      /\ line' = IF next = "loop" THEN NoLine ELSE line
      /\ prog' = prog /\ up' = up /\ last' = last /\ back' = back /\ tasks' = 0
      /\ io' = a[1] /\ pc' = next /\ flags' = {}
  BY <1>1 DEF Check
<1>3. t \in {"idle", "cycle", "tool", "jog", "alarm"} /\ pc \in {"loop", "eol", "exec", "tooled"}
  BY <1>1 DEF IInv, TypeOK
<1>4. a[2] \in {t, "tool", "idle"}
  <2>1. \A i : Updated(i, t)[2] \in {t, "tool", "idle"}
    BY DEF Updated
  <2> QED BY <2>1
<1>5. /\ next \in {"loop", "exec"}
      /\ next = "exec" => line' = line /\ line.src # "none" /\ pc \in {"eol", "exec"}
      /\ next = "loop" => line'.src = "none"
      /\ line' \in [src : {"none", "file", "typed"}, n : Nat]
  BY <1>2, <1>3 DEF IInv, TypeOK, LinesOK, NoLine
<1>6. io' \in IO => TypeOK'
  BY <1>2, <1>3, <1>4, <1>5 DEF IInv, TypeOK
<1>7. pc = "tooled" => next = "loop"
  OBVIOUS
<1> HIDE DEF next
<1>8. CASE Free(j, up) /\ ~Owned(j) /\ j \in IO /\ (stop => j.core.by = "none") /\ (~stop => j = io)
  <2>1. /\ a[1] \in IO /\ Free(a[1], up) /\ ~Owned(a[1])
        /\ \/ a[2] = "tool" /\ "tool" \in flags
           \/ a[1].core.by = "none"
           \/ a = <<j, t>>
    BY <1>8, Shapes, UpdatedFree
  <2>2. a[1].core.by # "none" => a[2] = "tool" /\ line'.src # "file"
    <3>1. CASE a[2] = "tool" /\ "tool" \in flags
      BY <1>2, <1>5, <1>7, <3>1 DEF IInv, LinesOK
    <3>2. CASE a = <<j, t>>
      <4>1. ASSUME j.core.by # "none" PROVE j = io /\ state = "tool" /\ t = state /\ line.src # "file"
        BY <1>8, <4>1 DEF IInv, SuspensionOK
      <4>2. a[1] = j /\ a[2] = t
        BY <3>2
      <4> QED BY <1>5, <4>1, <4>2
    <3> QED BY <2>1, <3>1, <3>2
  <2> HIDE DEF a, j, t
  <2>3. io'.hal.read \notin {"file", "pending"}
    BY <1>2, <2>1 DEF Free, IO, Input, Streams
  <2>4. io' \in IO /\ Free(io', up) /\ ~Owned(io') /\ TypeOK'
    BY <1>2, <1>6, <2>1
  <2> QED
    BY <1>1, <1>2, <1>5, <2>2, <2>3, <2>4
       DEF IInv, InputOK, LinesOK, ConnectionsOK, SuspensionOK, FreshOK
<1>9. CASE j = io /\ ~stop /\ Owned(io) /\ io.hal.type = "file"
  <2>1. Taken(io, up) /\ io.core.by = "none" /\ (Drops(io) \/ Changes(io))
    BY <1>1, <1>9, Shapes DEF IInv, FreshOK
  <2>2. /\ io' \in IO /\ Taken(io', up) /\ io'.hal.type = "file"
        /\ \/ Drops(io')
           \/ /\ t = "idle" /\ "tool" \in flags /\ state' = "tool"
              /\ io'.handler[io'.act.stream] = "ack" /\ io'.hal.read = "none"
              /\ io'.rx[io'.act.stream] = "empty"
           \/ a = <<io, t>> /\ ~(state = "tool" /\ "start" \in flags /\ ~change)
    BY <1>2, <1>9, <2>1, Shapes, UpdatedFile
  <2>3. Owned(io') /\ io'.core.by = "none"
    BY <2>2, Shapes, Exclusive
  <2>4. Drops(io') \/ Changes(io)'
    <3>1. CASE /\ t = "idle" /\ "tool" \in flags /\ state' = "tool"
               /\ io'.handler[io'.act.stream] = "ack" /\ io'.hal.read = "none"
               /\ io'.rx[io'.act.stream] = "empty"
      <4>1. line'.src = "none"
        BY <1>5, <1>7, <3>1 DEF IInv, LinesOK
      <4> QED BY <3>1, <4>1 DEF Changes
    <3>2. CASE a = <<io, t>> /\ ~(state = "tool" /\ "start" \in flags /\ ~change)
      <4>1. io' = io /\ state' = state
        BY <1>2, <1>9, <3>2
      <4>2. ASSUME Changes(io) PROVE Changes(io)'
        <5>1. io.hal.read # "file" /\ line.src # "file"
          BY <3>2, <4>2 DEF Changes
        <5>2. line'.src = "none" \/ line' = line
          BY <1>5
        <5> QED BY <4>1, <4>2, <5>1, <5>2 DEF Changes
      <4> QED BY <2>1, <4>1, <4>2 DEF Drops
    <3> QED BY <2>2, <3>1, <3>2
  <2> HIDE DEF a, j, t
  <2> QED
    BY <1>1, <1>2, <1>5, <1>6, <2>2, <2>3, <2>4
       DEF IInv, InputOK, LinesOK, ConnectionsOK, SuspensionOK, FreshOK
<1> QED
  <2>1. CASE stop
    <3>1. Ended(j, up)
      BY <1>1, <2>1, Shapes, StoppedOK DEF IInv, SuspensionOK
    <3> QED BY <1>8, <2>1, <3>1 DEF Ended
  <2>2. CASE ~stop /\ ~Owned(io)
    BY <1>8, <2>2, Shapes
  <2>3. CASE ~stop /\ Owned(io)
    BY <1>9, <2>3
  <2> QED BY <2>1, <2>2, <2>3

LEMMA CheckKeeps == IInv /\ Check => IInv'
  BY CheckElsewhere, CheckHere

-----------------------------------------------------------------------------
\* ... executing lines.

LEMMA TakeInputKeeps == IInv /\ TakeInput => IInv'
<1> SUFFICES ASSUME IInv, TakeInput PROVE IInv'
  OBVIOUS
<1> DEFINE s == io.hal.stream
<1>1. /\ Owned(io) /\ Taking(io, up) /\ s = io.act.stream /\ io.hal.type = "file"
      /\ io.hal.read = "file" /\ s \in Streams
  BY Shapes DEF TakeInput, Taking, FromFile, IO, Input
<1>2. io' = [io EXCEPT !.chained = "protocol", !.handler[s] = "drop", !.redirect = "file",
                       !.saved["changed"] = "core", !.hook["changed"] = "job"]
  BY <1>1 DEF TakeInput, Taking
<1>3. io' \in IO
  BY <1>1, <1>2, Shapes DEF IO, Hooks
<1>4. /\ io'.hal = io.hal /\ io'.act = io.act /\ io'.core = io.core
      /\ io'.chained = "protocol" /\ io'.redirect = "file"
      /\ io'.handler = [io.handler EXCEPT ![s] = "drop"]
      /\ io'.saved = [io.saved EXCEPT !["changed"] = "core"]
      /\ io'.hook = [io.hook EXCEPT !["changed"] = "job"]
  BY <1>2, Shapes DEF IO
<1>5. /\ io'.handler[s] = "drop" /\ \A t \in Streams \ {s} : io'.handler[t] = io.handler[t]
      /\ io'.saved["changed"] = "core" /\ io'.hook["changed"] = "job"
      /\ \A h \in Hooks \ {"changed"} : io'.hook[h] = io.hook[h] /\ io'.saved[h] = io.saved[h]
  BY <1>1, <1>4, Shapes DEF IO, Hooks
<1>6. Taken(io', up) /\ Owned(io') /\ Drops(io')
  BY <1>1, <1>4, <1>5 DEF Taken, Taking, Found, FromFile, Owned, Drops, Hooks
<1>7. TypeOK'
  BY <1>3 DEF IInv, TakeInput, TypeOK, machine, bounds
<1> QED
  BY <1>1, <1>4, <1>6, <1>7
     DEF IInv, TakeInput, InputOK, LinesOK, ConnectionsOK, SuspensionOK, FreshOK, machine

\* A line in hand while a job runs: the file has the input.
LEMMA InHandFromFile ==
  ASSUME IInv, pc = "exec", Owned(io)
  PROVE  io.hal.type = "file" /\ Taken(io, up)
  BY Shapes DEF IInv, ConnectionsOK

LEMMA ExecuteFileKeeps == IInv /\ ExecuteFile => IInv'
<1> SUFFICES ASSUME IInv, ExecuteFile PROVE IInv'
  OBVIOUS
<1>1. /\ pc = "exec" /\ line.src = "file" /\ io.core.by = "none" /\ "keep" \notin flags
      /\ "tool" \notin flags /\ tasks = 0
  BY DEF IInv, ExecuteFile, LinesOK, ConnectionsOK, SuspensionOK, TypeOK
<1>2. /\ pc' \in {"loop", "tooled"} /\ line'.src = "none" /\ line' \in [src : {"none", "file", "typed"}, n : Nat]
      /\ "tool" \in flags' => pc' = "tooled"
      /\ "keep" \notin flags' /\ tasks' = 0 /\ up' = up
      /\ flags' \subseteq {"reset", "stop", "start", "tool", "lost", "keep"}
      /\ state' \in {"idle", "cycle", "tool", "jog", "alarm"} /\ change' \in BOOLEAN
      /\ last' \in Nat /\ prog' = prog /\ back' = back
  BY <1>1 DEF IInv, ExecuteFile, TypeOK, NoLine
<1>3. \/ io' = Completed(io, Kind)
      \/ io' = Answered(io, Kind)
  BY DEF ExecuteFile
<1>4. ASSUME Ended(io', up) PROVE IInv'
  <2>1. TypeOK'
    BY <1>2, <1>4 DEF IInv, TypeOK, Ended
  <2> QED BY <1>2, <1>4, <2>1, AfterEnd DEF IInv, ConnectionsOK
<1>5. CASE ~Owned(io)
  <2>1. io' = io
    BY <1>3, <1>5, Shapes, CompletedOK, AnsweredOK
  <2> QED BY <1>1, <1>4, <1>5, <2>1, Shapes DEF Ended
<1>6. CASE Owned(io)
  <2>1. io.hal.type = "file" /\ Taken(io, up) /\ Drops(io)
    BY <1>1, <1>6, InHandFromFile DEF IInv, FreshOK, Changes
  <2>2. \/ Ended(io', up)
        \/ /\ io' \in IO /\ Taken(io', up) /\ io'.act = io.act /\ io'.handler = io.handler
           /\ io'.hal.type = "file" /\ io'.hal.read \in {"file", "pending"}
    BY <1>3, <2>1, Shapes, CompletedOK, AnsweredOK DEF Drops
  <2>3. CASE /\ io' \in IO /\ Taken(io', up) /\ io'.act = io.act /\ io'.handler = io.handler
             /\ io'.hal.type = "file" /\ io'.hal.read \in {"file", "pending"}
    <3>1. Owned(io') /\ io'.core.by = "none" /\ Drops(io')
      BY <2>1, <2>3, Shapes, Exclusive DEF Drops
    <3>2. TypeOK'
      BY <1>2, <2>3 DEF IInv, TypeOK
    <3> QED
      BY <1>2, <2>3, <3>1, <3>2
         DEF IInv, InputOK, LinesOK, ConnectionsOK, SuspensionOK, FreshOK
  <2> QED BY <1>4, <2>2, <2>3
<1> QED BY <1>5, <1>6

LEMMA ExecuteTypedKeeps == IInv /\ ExecuteTyped => IInv'
<1> SUFFICES ASSUME IInv, ExecuteTyped PROVE IInv'
  OBVIOUS
<1>1. /\ pc = "exec" /\ line.src = "typed" /\ "tool" \notin flags /\ tasks = 0
  BY DEF IInv, ExecuteTyped, LinesOK, ConnectionsOK, TypeOK
<1>2. PICK k \in Typeable :
          /\ state = "alarm" <=> k = "unlock"
          /\ io' = CASE k \in {"m2", "m30"} -> Completed(io, k)
                     [] k = "rewind"        -> [io EXCEPT !.frewind = TRUE]
                     [] k = "bad"           -> Answered(io, k)
                     [] OTHER               -> io
          /\ state' = IF k = "unlock" THEN "idle" ELSE state
  BY DEF ExecuteTyped
<1>3. /\ pc' = "loop" /\ line'.src = "none" /\ line' \in [src : {"none", "file", "typed"}, n : Nat]
      /\ flags' = flags /\ tasks' = 0 /\ up' = up /\ change' = change
      /\ state' \in {"idle", "cycle", "tool", "jog", "alarm"}
      /\ last' \in Nat /\ prog' = prog /\ back' = back /\ (state = "tool" => state' = "tool")
  BY <1>1, <1>2 DEF IInv, ExecuteTyped, TypeOK, NoLine
<1>4. io' = Completed(io, k) \/ io' = [io EXCEPT !.frewind = TRUE] \/ io' = Answered(io, k) \/ io' = io
  BY <1>2
<1>5. ASSUME io' \in IO, Alike(io, io'), io'.rx = io.rx PROVE IInv'
  <2>1. TypeOK'
    BY <1>3, <1>5 DEF IInv, TypeOK
  <2>2. InputOK(io', up, pc')
    BY <1>1, <1>3, <1>5, Shapes, AlikeOK DEF InputOK
  <2>3. FreshOK'
    BY <1>1, <1>3, <1>5 DEF IInv, FreshOK, Drops, Changes, Alike, Owned
  <2> QED
    BY <1>1, <1>3, <1>5, <2>1, <2>2, <2>3
       DEF IInv, Alike, LinesOK, ConnectionsOK, SuspensionOK, Owned
<1>6. ASSUME Ended(io', up) PROVE IInv'
  <2>1. TypeOK'
    BY <1>3, <1>6 DEF IInv, TypeOK, Ended
  <2> QED BY <1>1, <1>3, <1>6, <2>1, AfterEnd DEF IInv, ConnectionsOK
<1>7. CASE io' = [io EXCEPT !.frewind = TRUE] \/ io' = io
  <2>1. io' \in IO /\ Alike(io, io') /\ io'.rx = io.rx
    BY <1>7, Shapes DEF IO, Alike
  <2> QED BY <1>5, <2>1
<1>8. CASE ~Owned(io) /\ (io' = Completed(io, k) \/ io' = Answered(io, k))
  BY <1>7, <1>8, Shapes, CompletedOK, AnsweredOK
<1>9. CASE Owned(io) /\ (io' = Completed(io, k) \/ io' = Answered(io, k))
  <2>1. io.hal.type = "file" /\ Taken(io, up) /\ (Drops(io) \/ Changes(io))
    BY <1>1, <1>9, InHandFromFile DEF IInv, FreshOK
  <2>2. CASE Ended(io', up) \/ io' = io
    BY <1>6, <1>7, <2>2
  <2>3. CASE /\ io' \in IO /\ Taken(io', up) /\ io'.act = io.act /\ io'.handler = io.handler
             /\ io'.rx = io.rx /\ io'.hal.type = io.hal.type /\ io'.hal.read = "pending"
    <3>1. Owned(io') /\ io'.core.by = "none"
      BY <2>3, Shapes, Exclusive
    <3>2. Drops(io') \/ Changes(io)'
      BY <1>1, <1>3, <2>1, <2>3 DEF Drops, Changes
    <3>3. TypeOK'
      BY <1>3, <2>3 DEF IInv, TypeOK
    <3> QED
      BY <1>1, <1>3, <2>1, <2>3, <3>1, <3>2, <3>3
         DEF IInv, InputOK, LinesOK, ConnectionsOK, SuspensionOK, FreshOK
  <2> QED BY <1>9, <2>1, <2>2, <2>3, Shapes, CompletedOK, AnsweredOK
<1> QED BY <1>4, <1>7, <1>8, <1>9

LEMMA RunFileKeeps == ASSUME ~Nested PROVE IInv /\ RunFile => IInv'
<1> SUFFICES ASSUME IInv, RunFile PROVE IInv'
  OBVIOUS
<1>1. /\ pc = "exec" /\ state = "idle" /\ ~Owned(io) /\ "tool" \notin flags /\ tasks = 0
  BY DEF IInv, RunFile, Owned, LinesOK, ConnectionsOK, TypeOK
<1>2. Free(io, up) /\ io.core.by = "none" /\ io \in IO
  BY <1>1, Shapes DEF IInv, SuspensionOK
<1>3. io.hal = Native(io.hal.stream) /\ io.hal.stream \in Streams /\ io.core = NotSuspended
  BY <1>2 DEF Free, IO, Input, Native
<1>4. io' = [io EXCEPT !.open = TRUE, !.pos = 0, !.act = io.hal,
                !.hal.read = "file", !.hal.type = "file", !.hal.suspend = "job",
                !.saved["completed"] = "core", !.hook["completed"] = "job",
                !.saved["status"] = "core", !.hook["status"] = "job"]
  BY <1>2 DEF RunFile, StartJob, Free, Hooks, IO
<1>5. io' \in IO
  <2> DEFINE i == [io EXCEPT !.open = TRUE, !.pos = 0, !.act = io.hal,
                             !.hal.read = "file", !.hal.type = "file", !.hal.suspend = "job"]
  <2>1. i \in IO
    <3> DEFINE h == [io.hal EXCEPT !.read = "file", !.type = "file", !.suspend = "job"]
    <3>1. h \in Input /\ io.hal \in Input
      BY <1>2 DEF IO, Input
    <3>2. i = [io EXCEPT !.open = TRUE, !.pos = 0, !.act = io.hal, !.hal = h]
      BY <1>2 DEF IO
    <3> HIDE DEF h, i
    <3> QED BY <1>2, <3>1, <3>2 DEF IO
  <2>2. io' = [i EXCEPT !.saved["completed"] = "core", !.hook["completed"] = "job",
                        !.saved["status"] = "core", !.hook["status"] = "job"]
    BY <1>4
  <2> HIDE DEF i
  <2> QED BY <2>1, <2>2 DEF IO, Hooks
<1>6. /\ io'.act = io.hal /\ io'.core = io.core /\ io'.handler = io.handler
      /\ io'.hal = [io.hal EXCEPT !.read = "file", !.type = "file", !.suspend = "job"]
      /\ io'.saved = [io.saved EXCEPT !["completed"] = "core", !["status"] = "core"]
      /\ io'.hook = [io.hook EXCEPT !["completed"] = "job", !["status"] = "job"]
  BY <1>2, <1>4 DEF IO
<1>7. /\ io'.hal.read = "file" /\ io'.hal.type = "file" /\ io'.hal.suspend = "job"
      /\ io'.hal.stream = io.hal.stream
      /\ io'.saved["completed"] = "core" /\ io'.saved["status"] = "core"
      /\ io'.hook["completed"] = "job" /\ io'.hook["status"] = "job"
      /\ io'.hook["start"] = "core" /\ io'.hook["changed"] = "core"
  BY <1>2, <1>6 DEF IO, Input, Hooks, Free
<1>8. \A s \in Streams : io'.handler[s] = "protocol"
  BY <1>2, <1>6 DEF Free, Streams
<1>9. Owned(io') /\ Taking(io', up)
  BY <1>2, <1>3, <1>6, <1>7, <1>8 DEF Owned, Taking, Found, FromFile, Free, Native, Streams
<1>10. TypeOK'
  BY <1>5 DEF IInv, RunFile, TypeOK, NoLine, machine
<1> QED
  BY <1>1, <1>3, <1>6, <1>7, <1>9, <1>10
     DEF IInv, RunFile, InputOK, LinesOK, ConnectionsOK, SuspensionOK, FreshOK, NoLine, machine,
         NotSuspended

LEMMA MainStepKeeps == ASSUME ~Nested PROVE IInv /\ MainStep => IInv'
  BY ReadLineKeeps, ReadEndKeeps, ReadNothingKeeps, ReadTypedKeeps, ResetKeeps, CheckKeeps,
     TerminateKeeps, TakeInputKeeps, ExecuteFileKeeps, ExecuteTypedKeeps, RunFileKeeps
     DEF MainStep

LEMMA MotionDoneKeeps == IInv /\ MotionDone => IInv'
  BY DEF IInv, MotionDone, TypeOK, InputOK, LinesOK, ConnectionsOK, SuspensionOK, FreshOK,
         Drops, Changes, main, bounds

-----------------------------------------------------------------------------
\* ... characters, in an interrupt.

LEMMA RxTextKeeps ==
  ASSUME ~InterruptedStart, IInv, NEW s \in Streams, RxText(s) PROVE IInv'
<1>1. pc # "begin"
  BY DEF RxText, Received, Receivable
<1>2. io' = [io EXCEPT !.rx[s] = IF state = "tool" THEN "late" ELSE "early"]
  BY DEF RxText
<1>3. io' \in IO /\ Alike(io, io')
  BY <1>2, Shapes DEF IO, Alike
<1>4. io'.rx = [io.rx EXCEPT ![s] = IF state = "tool" THEN "late" ELSE "early"]
  BY <1>2, Shapes DEF IO
<1>5. TypeOK'
  BY <1>3 DEF IInv, RxText, TypeOK, main, machine, bounds
<1>6. InputOK(io', up', pc')
  BY <1>1, <1>3, Shapes, AlikeOK DEF RxText, InputOK, main
<1>7. FreshOK'
  <2> SUFFICES ASSUME Owned(io'), io'.hal.type = "file" PROVE Drops(io)' \/ Changes(io)'
    BY DEF FreshOK
  <2>1. Drops(io) \/ Changes(io)
    BY <1>1, <1>3 DEF IInv, FreshOK, Alike, Owned
  <2>2. ASSUME Changes(io) PROVE Changes(io)'
    <3>1. io'.rx[io.act.stream] # "early"
      BY <1>4, <2>2, Shapes DEF Changes, IO, Input
    <3> QED BY <1>3, <2>2, <3>1 DEF RxText, Changes, Alike, main, machine
  <2> QED BY <1>3, <2>1, <2>2 DEF Drops, Alike
<1> QED
  BY <1>3, <1>5, <1>6, <1>7
     DEF IInv, RxText, Alike, LinesOK, ConnectionsOK, SuspensionOK, Owned, main, machine

LEMMA RxAckKeeps ==
  ASSUME ~InterruptedStart, IInv, NEW s \in Streams, RxAck(s) PROVE IInv'
<1>1. pc # "begin"
  BY DEF RxAck, Received, Receivable
<1>2. /\ pc' = pc /\ back' = back /\ line' = line /\ state' = state /\ change' = change
      /\ flags' = flags /\ tasks' = tasks /\ up' = up
  BY DEF RxAck, main, machine
<1>3. CASE /\ io.handler[s] = "ack"
           /\ io' = SetHandler([io EXCEPT !.hal.read = io.act.read], io.act.stream, io.chained)
  <2>1. Owned(io) /\ Taken(io, up) /\ s = io.act.stream /\ io.act.read = s /\ io.chained = "protocol"
    BY <1>1, <1>3, Shapes DEF Free, Taken, Found, Native, IO, Input
  <2>2. io' = [io EXCEPT !.hal.read = s, !.handler[s] = "protocol"]
    BY <1>3, <2>1, Shapes DEF SetHandler, IO
  <2>3. io' \in IO
    BY <2>2, Shapes DEF IO, Input
  <2>4. /\ io'.hal = [io.hal EXCEPT !.read = s] /\ io'.act = io.act /\ io'.core = io.core
        /\ io'.hook = io.hook /\ io'.saved = io.saved /\ io'.chained = io.chained
        /\ io'.redirect = io.redirect /\ io'.rx = io.rx
        /\ io'.handler = [io.handler EXCEPT ![s] = "protocol"]
    BY <2>2, Shapes DEF IO
  <2>5. /\ io'.handler[s] = "protocol" /\ \A t \in Streams \ {s} : io'.handler[t] = io.handler[t]
        /\ io'.hal.read = s /\ io'.hal.type = io.hal.type /\ io'.hal.stream = io.hal.stream
        /\ io'.hal.suspend = io.hal.suspend
    BY <2>4, Shapes DEF IO, Input
  <2>6. Taken(io', up) /\ Owned(io') /\ io'.core.by = "none"
    BY <2>1, <2>4, <2>5, Shapes DEF Taken, Found, FromFile, Owned
  <2>7. TypeOK'
    BY <2>3 DEF IInv, RxAck, TypeOK, main, machine, bounds
  <2>8. FreshOK'
    <3> SUFFICES ASSUME io.hal.type = "file" PROVE Changes(io)'
      BY <2>5 DEF FreshOK
    <3>1. Changes(io)
      BY <1>1, <1>3, <2>1 DEF IInv, FreshOK, Drops
    <3> QED BY <1>2, <1>3, <2>1, <2>4, <2>5, <3>1 DEF Changes, Streams
  <2> QED
    BY <1>1, <1>2, <2>1, <2>5, <2>6, <2>7, <2>8
       DEF IInv, InputOK, LinesOK, ConnectionsOK, SuspensionOK, Streams
<1>4. CASE /\ io.handler[s] = "coreAck"
           /\ io' = [io EXCEPT !.core.acked = TRUE, !.core.kept = io.rx[io.core.by],
                              !.rx[io.core.by] = "empty", !.hal.read = io.core.by,
                              !.handler[io.hal.stream] = "protocol"]
  <2>1. ~Owned(io) /\ Free(io, up)
    BY <1>1, <1>4, Shapes DEF Taken, Found
  <2>2. io.core.by = s /\ io.hal.stream = s
    BY <1>4, <2>1 DEF Free, Streams
  <2>3. io' = [io EXCEPT !.core.acked = TRUE, !.core.kept = io.rx[s], !.rx[s] = "empty",
                         !.hal.read = s, !.handler[s] = "protocol"]
    BY <1>4, <2>2
  <2>4. io' \in IO
    BY <2>3, Shapes DEF IO, Input
  <2>5. /\ io'.hal = [io.hal EXCEPT !.read = s] /\ io'.act = io.act /\ io'.hook = io.hook
        /\ io'.core = [io.core EXCEPT !.acked = TRUE, !.kept = io.rx[s]]
        /\ io'.handler = [io.handler EXCEPT ![s] = "protocol"]
    BY <2>3, Shapes DEF IO
  <2>6. /\ \A t \in Streams : io'.handler[t] = "protocol"
        /\ io'.core.by = s /\ io'.hal.read = s /\ io'.hal.stream = s
        /\ io'.hal.type = io.hal.type /\ io'.hal.suspend = io.hal.suspend
    BY <2>1, <2>2, <2>5, Shapes DEF IO, Input, Free
  <2>7. Free(io', up) /\ ~Owned(io')
    BY <2>1, <2>2, <2>5, <2>6 DEF Free, Owned, Streams
  <2>8. TypeOK'
    BY <2>4 DEF IInv, RxAck, TypeOK, main, machine, bounds
  <2> QED
    BY <1>1, <1>2, <2>1, <2>2, <2>6, <2>7, <2>8
       DEF IInv, InputOK, LinesOK, ConnectionsOK, SuspensionOK, FreshOK, Streams
<1> QED BY <1>3, <1>4 DEF RxAck

LEMMA RxStartKeeps ==
  ASSUME ~InterruptedStart, IInv, NEW s \in Streams, RxStart(s) PROVE IInv'
<1>1. pc # "begin"
  BY DEF RxStart, Received, Receivable
<1>2. /\ pc' = pc /\ back' = back /\ line' = line /\ state' = state /\ change' = FALSE
      /\ flags' = flags \cup {"start"} /\ tasks' = tasks /\ up' = up
      /\ prog' = prog /\ last' = last
  BY DEF RxStart, main
<1>3. io' \in IO => TypeOK'
  BY <1>2 DEF IInv, TypeOK
<1>4. CASE io.hook["start"] # "job"
  <2>1. io' = io
    BY <1>4 DEF RxStart
  <2>2. FreshOK'
    BY <1>2, <2>1 DEF IInv, FreshOK, Drops, Changes
  <2> QED
    BY <1>2, <1>3, <2>1, <2>2, Shapes
       DEF IInv, InputOK, LinesOK, ConnectionsOK, SuspensionOK
<1>5. CASE io.hook["start"] = "job"
  <2>1. Owned(io) /\ Taken(io, up)
    BY <1>1, <1>5, Shapes DEF Free, Hooks
  <2>2. io' = Resumed(io)
    BY <1>5 DEF RxStart
  <2>3. /\ io' \in IO /\ Taken(io', up)
        /\ io'.act = io.act /\ io'.handler = io.handler /\ io'.rx = io.rx
        /\ io'.hal.type = io.hal.type
        /\ io'.hal.read = IF io.hal.read = "pending" THEN "file" ELSE io.hal.read
    BY <1>5, <2>1, <2>2, Shapes, ResumedOK
  <2>4. Owned(io') /\ io'.core.by = "none"
    BY <2>3, Shapes, Exclusive
  <2>5. FreshOK'
    <3> SUFFICES ASSUME io.hal.type = "file" PROVE Drops(io)' \/ Changes(io)'
      BY <2>3 DEF FreshOK
    <3>1. Drops(io) \/ Changes(io)
      BY <1>1, <2>1 DEF IInv, FreshOK
    <3>2. ASSUME Changes(io) PROVE Changes(io)'
      BY <1>2, <2>3, <3>2 DEF Changes
    <3> QED BY <2>3, <3>1, <3>2 DEF Drops
  <2> QED
    BY <1>1, <1>2, <1>3, <2>1, <2>3, <2>4, <2>5
       DEF IInv, InputOK, LinesOK, ConnectionsOK, SuspensionOK
<1> QED BY <1>4, <1>5

LEMMA RxResetKeeps ==
  ASSUME ~InterruptedStart, IInv, NEW s \in Streams, RxReset(s) PROVE IInv'
<1>1. pc # "begin"
  BY DEF RxReset, Received, Receivable
<1>2. /\ pc' = pc /\ back' = back /\ line' = line /\ state' = state /\ change' = change
      /\ tasks' = tasks /\ up' = up /\ prog' = prog /\ last' = last
      /\ "tool" \in flags' => "tool" \in flags
      /\ "keep" \in flags' => "keep" \in flags
      /\ flags \subseteq flags'
      /\ flags' \subseteq {"reset", "stop", "start", "tool", "lost", "keep"}
      /\ io' = SuspendRead(io, FALSE)
  BY DEF IInv, TypeOK, RxReset, main
<1>3. io' \in IO => TypeOK'
  BY <1>2 DEF IInv, TypeOK
<1>4. CASE ~Owned(io)
  <2>1. Ended(io', up)
    BY <1>2, <1>4, Shapes, SuspendReadOK, CoreResumes DEF Ended, Owned
  <2>2. tasks = 0 /\ pc # "ending"
    BY <1>4 DEF IInv, ConnectionsOK, TypeOK
  <2> QED
    BY <1>1, <1>2, <1>3, <2>1, <2>2, AfterEnd
       DEF IInv, Ended, LinesOK, ConnectionsOK, SuspensionOK
<1>5. CASE Owned(io) /\ io.hal.type # "file"
  <2>1. io' = io
    BY <1>1, <1>2, <1>5, Shapes, SuspendReadOK
  <2> QED
    BY <1>2, <1>3, <1>5, <2>1, Shapes
       DEF IInv, InputOK, LinesOK, ConnectionsOK, SuspensionOK, FreshOK
<1>6. CASE Owned(io) /\ io.hal.type = "file"
  <2>1. Taken(io, up) /\ FromFile(io) /\ io' = JobSuspend(io, FALSE)
    BY <1>1, <1>2, <1>6, Shapes, Exclusive, SuspendReadOK
  <2>2. /\ io' \in IO /\ Taken(io', up) /\ FromFile(io') /\ io'.act = io.act
        /\ io'.handler[io.act.stream] = "drop" /\ io'.hal.read = "file"
    BY <2>1, Shapes, JobResumes
  <2>3. Owned(io') /\ io'.core.by = "none" /\ Drops(io') /\ io'.hal.type = "file"
    BY <2>2, Shapes, Exclusive DEF Drops, FromFile
  <2> QED
    BY <1>1, <1>2, <1>3, <1>6, <2>2, <2>3
       DEF IInv, InputOK, LinesOK, ConnectionsOK, SuspensionOK, FreshOK
<1> QED BY <1>4, <1>5, <1>6

LEMMA RxStopKeeps ==
  ASSUME IInv, NEW s \in Streams, RxStop(s) PROVE IInv'
<1>1. io' \in IO /\ Alike(io, io') /\ io'.rx = [io.rx EXCEPT ![io.hal.stream] = "empty"]
  BY Shapes DEF RxStop, IO, Input, Alike
<1>2. /\ pc' = pc /\ back' = back /\ line' = line /\ state' = state /\ change' = change
      /\ tasks' = tasks /\ up' = up /\ prog' = prog /\ last' = last
      /\ flags' = flags \cup {"stop"}
  BY DEF RxStop, main
<1>3. TypeOK'
  BY <1>1, <1>2 DEF IInv, TypeOK
<1>4. InputOK(io', up', pc')
  BY <1>1, <1>2, Shapes, AlikeOK DEF InputOK
<1>5. FreshOK'
  <2> SUFFICES ASSUME Owned(io'), io'.hal.type = "file", pc # "begin"
               PROVE  Drops(io)' \/ Changes(io)'
    BY <1>2 DEF FreshOK
  <2>1. Drops(io) \/ Changes(io)
    BY <1>1 DEF IInv, FreshOK, Alike, Owned
  <2>2. ASSUME Changes(io) PROVE Changes(io)'
    <3>1. io'.rx[io.act.stream] # "early"
      BY <1>1, <2>2, Shapes DEF Changes, IO, Input
    <3> QED BY <1>1, <1>2, <2>2, <3>1 DEF Changes, Alike
  <2> QED BY <1>1, <2>1, <2>2 DEF Drops, Alike
<1> QED
  BY <1>1, <1>2, <1>3, <1>4, <1>5
     DEF IInv, Alike, LinesOK, ConnectionsOK, SuspensionOK, Owned

-----------------------------------------------------------------------------
\* ... and connections.

\* The new connection gets the input as the core has it.
LEMMA ChangeOK ==
  ASSUME IInv, NEW s \in Streams, Change(s), io.core.by = "none"
  PROVE  /\ io' \in IO /\ io'.hal = Native(s) /\ io'.act = io.act /\ io'.core = NotSuspended
         /\ ~Owned(io) => \A u \in SUBSET Streams : s \in u => Free(io', u)
         /\ Owned(io) => \A u \in SUBSET Streams : up \subseteq u /\ s \in u => Taken(io', u)
<1>1. io' = [io EXCEPT !.hal = Native(s), !.handler[s] = "protocol"]
  BY DEF Change, Selected
<1>2. Native(s) \in Input
  BY DEF Native, Input
<1>3. io' \in IO
  BY <1>1, <1>2, Shapes DEF IO
<1>4. /\ io'.hal = Native(s) /\ io'.act = io.act /\ io'.core = io.core
      /\ io'.hook = io.hook /\ io'.saved = io.saved /\ io'.chained = io.chained
      /\ io'.redirect = io.redirect
      /\ io'.handler = [io.handler EXCEPT ![s] = "protocol"]
  BY <1>1, Shapes DEF IO
<1>5. io'.handler[s] = "protocol" /\ \A t \in Streams \ {s} : io'.handler[t] = io.handler[t]
  BY <1>4, Shapes DEF IO
<1>6. pc # "begin"
  BY DEF Change
<1>7. io.core = NotSuspended
  BY <1>6, Shapes DEF Free, Taken, Found
<1>8. ASSUME ~Owned(io), NEW u \in SUBSET Streams, s \in u PROVE Free(io', u)
  <2>1. \A t \in Streams : io'.handler[t] = "protocol"
    BY <1>5, <1>7, <1>8, Shapes DEF Free, NotSuspended, Streams
  <2> QED BY <1>4, <1>7, <1>8, <2>1, Shapes DEF Free, Native, NotSuspended
<1>9. ASSUME Owned(io), NEW u \in SUBSET Streams, up \subseteq u, s \in u PROVE Taken(io', u)
  <2>1. Taken(io, up)
    BY <1>6, <1>9, Shapes
  <2>2. io'.hal.type = s /\ io'.hal.stream = s /\ io'.hal.suspend = "core"
    BY <1>4 DEF Native
  <2> QED BY <1>4, <1>5, <1>9, <2>1, <2>2 DEF Taken, Found
<1> QED BY <1>3, <1>4, <1>7, <1>8, <1>9

LEMMA ConnectKeeps ==
  ASSUME IInv, ConnectAt \subseteq {"none", "reading"}, Connect PROVE IInv'
<1>1. Phase \in {"none", "reading"} /\ "telnet" \in Streams
  BY DEF Connect, Streams
<1>2. /\ io.core.by = "none" /\ "telnet" \notin up /\ up' = up \cup {"telnet"} /\ Change("telnet")
      /\ pc # "begin"
  BY <1>1 DEF Connect, Phase, Change
<1>3. /\ pc' = pc /\ back' = back /\ line' = line /\ state' = state /\ change' = change
      /\ flags' = flags /\ prog' = prog /\ last' = last
      /\ tasks' = IF io.hook["changed"] = "job" /\ io.open THEN tasks + 1 ELSE tasks
  BY <1>2 DEF Change, main, machine
<1>4. tasks = 0 /\ pc # "ending"
  BY <1>2 DEF IInv, ConnectionsOK, TypeOK
<1>5. io' \in IO /\ up' \in SUBSET Streams /\ io'.hal.type = "telnet" /\ io'.hal.read = "telnet"
  <2>1. up' \in SUBSET Streams
    BY <1>1, <1>2, Shapes
  <2>2. io' \in IO /\ io'.hal = Native("telnet")
    BY <1>1, <1>2, ChangeOK
  <2> QED BY <2>1, <2>2 DEF Native
<1>6. TypeOK'
  BY <1>3, <1>4, <1>5 DEF IInv, TypeOK
<1>7. CASE ~Owned(io)
  <2>1. tasks' = 0
    BY <1>3, <1>4, <1>7, Shapes DEF Free, Hooks
  <2>2. Free(io', up') /\ ~Owned(io') /\ io'.core.by = "none"
    BY <1>1, <1>2, <1>5, <1>7, ChangeOK DEF Owned, NotSuspended
  <2> QED
    BY <1>2, <1>3, <1>4, <1>5, <1>6, <2>1, <2>2
       DEF IInv, InputOK, LinesOK, ConnectionsOK, SuspensionOK, FreshOK
<1>8. CASE Owned(io)
  <2>1. Taken(io', up') /\ Owned(io') /\ io'.core.by = "none"
    BY <1>1, <1>2, <1>5, <1>8, ChangeOK DEF Owned, NotSuspended
  <2>2. io.open /\ line.src = "none" /\ pc \notin {"tooled", "ending"}
    BY <1>1, <1>8 DEF Phase, Owned
  <2>3. pc \in {"loop", "eol"} /\ tasks' = 1
    BY <1>2, <1>3, <1>4, <1>8, <2>2, Shapes DEF IInv, LinesOK, TypeOK, Taken
  <2> QED
    BY <1>2, <1>3, <1>5, <1>6, <2>1, <2>2, <2>3
       DEF IInv, InputOK, LinesOK, ConnectionsOK, SuspensionOK, FreshOK
<1> QED BY <1>7, <1>8

LEMMA DisconnectKeeps ==
  ASSUME IInv, HangupAt \subseteq {"none"}, Disconnect PROVE IInv'
<1>1. Phase = "none" /\ "serial" \in Streams
  BY DEF Disconnect, Streams
<1>2. /\ io.core.by = "none" /\ ~Owned(io) /\ up' = up \ {"telnet"} /\ Change("serial")
      /\ pc # "begin" /\ "serial" \in up'
  BY <1>1 DEF IInv, ConnectionsOK, Disconnect, Phase, Change, Owned
<1>3. /\ pc' = pc /\ back' = back /\ line' = line /\ state' = state /\ change' = change
      /\ flags' = flags /\ prog' = prog /\ last' = last /\ tasks' = tasks
  BY <1>2, Shapes DEF Change, main, machine, Free, Hooks
<1>4. tasks = 0 /\ pc # "ending"
  BY <1>2 DEF IInv, ConnectionsOK, TypeOK
<1>5. up' \in SUBSET Streams
  BY <1>2, Shapes
<1>6. Ended(io', up')
  BY <1>1, <1>2, <1>5, ChangeOK DEF Ended, Owned, NotSuspended
<1>7. TypeOK'
  BY <1>3, <1>5, <1>6 DEF IInv, TypeOK, Ended
<1> QED
  BY <1>2, <1>3, <1>4, <1>6, <1>7, AfterEnd DEF IInv, LinesOK, SuspensionOK

-----------------------------------------------------------------------------
LEMMA Invariance == ASSUME Undisturbed PROVE Spec => []IInv
<1>1. IInv /\ [Next]_vars => IInv'
  <2> SUFFICES ASSUME IInv, [Next]_vars PROVE IInv'
    OBVIOUS
  <2>1. CASE MainStep
    BY <2>1, MainStepKeeps DEF Undisturbed
  <2>2. CASE MotionDone
    BY <2>2, MotionDoneKeeps
  <2>3. CASE Receive
    BY <2>3, RxTextKeeps, RxAckKeeps, RxStartKeeps, RxResetKeeps, RxStopKeeps
       DEF Receive, Undisturbed
  <2>4. CASE Connect
    BY <2>4, ConnectKeeps DEF Undisturbed
  <2>5. CASE Disconnect
    BY <2>5, DisconnectKeeps DEF Undisturbed
  <2>6. CASE UNCHANGED vars
    BY <2>6 DEF vars, main, machine, bounds, IInv, TypeOK, InputOK, LinesOK, ConnectionsOK,
                SuspensionOK, FreshOK, Drops, Changes
  <2> QED BY <2>1, <2>2, <2>3, <2>4, <2>5, <2>6 DEF Next
<1> QED BY <1>1, IInvInit, PTL DEF Spec

\* Every variable of a job keeps its type: what the job saved is there when it
\* is given back, and the tasks queued are as many as run.
THEOREM TypeCorrect == ASSUME Undisturbed PROVE Spec => []TypeOK
<1>1. IInv => TypeOK
  BY DEF IInv
<1> QED BY <1>1, Invariance, PTL

\* What the operator sends always gets to the core's realtime handler: the chain
\* of handlers that fs_stream.c puts before it ends there, on every connection.
THEOREM RealtimeGetsThrough == ASSUME Undisturbed PROVE Spec => []RealtimeReaches
<1>1. IInv => RealtimeReaches
  <2> SUFFICES ASSUME IInv, NEW s \in up, Receivable PROVE Reaches(s)
    BY DEF RealtimeReaches
  <2>1. pc # "begin" /\ s \in Streams
    BY Shapes DEF Receivable, Undisturbed
  <2> QED BY <2>1, Shapes DEF Reaches, Free, Taken, Found
<1> QED BY <1>1, Invariance, PTL

\* However a job ends, by its last line, an error, a reset, a stop or a new
\* connection, the input is given back: text is let through from a stream that is
\* connected, and no callback of the core is left with the job.
THEOREM InputIsGivenBack == ASSUME Undisturbed PROVE Spec => []InputRestored
<1>1. IInv => InputRestored
  BY Shapes DEF InputRestored, Busy, Owned, Free, IO, Input
<1> QED BY <1>1, Invariance, PTL

\* What a job executes in a tool change has been typed for it: stream_suspend()
\* leaves no line in the input that came before.
THEOREM ToolInputFresh == ASSUME Undisturbed PROVE Spec => []ToolInputIsFresh
<1>1. IInv => ToolInputIsFresh
  <2> SUFFICES ASSUME IInv, Owned(io), io.hal.type = "file", io.hal.read \in Streams
               PROVE  io.rx[io.hal.read] # "early"
    BY DEF ToolInputIsFresh, Busy, Owned
  <2>1. io.hal.read \notin {"file", "none", "pending"}
    BY DEF Streams
  <2>2. pc # "begin"
    BY <2>1, Shapes DEF Taking
  <2> QED BY <2>1, <2>2 DEF IInv, FreshOK, Drops, Changes
<1> QED BY <1>1, Invariance, PTL

-----------------------------------------------------------------------------
(* A job executes its file, as JobService says.                            *)

\* Files do not jog: stream_read() takes state JOG for the end of the file.  And a
\* file that is run again has a program end to be run up to: at the end of a file
\* without one it is closed, and run again all the same.
Ends(p) == {k \in 1..Len(p) : p[k] \in {"m2", "m30"}}

HasTool(p) == \E k \in 1..Len(p) : p[k] = "tool"

Straight == /\ \A p \in Programs : \A k \in 1..Len(p) : p[k] # "jog"
            /\ "rewind" \in Typeable => \A p \in Programs : Ends(p) # {}
            /\ "m2" \in Typeable => \A p \in Programs : HasTool(p) => Ends(p) # {}

\* where the job is in its file
PlaceOK ==
    /\ state # "jog"
    /\ Owned(io) => prog \in Programs
    /\ pc \in {"loop", "tooled", "begin"} \/ (pc = "ending" /\ back = "loop") => line.src = "none"
    /\ line.src # "file" => line.n = 0
    /\ line.src = "file" =>
          /\ line.n \in 1..Len(prog) /\ line.n = io.pos
          /\ IF Owned(io) THEN io.hal.read = "file"
             ELSE pc = "exec" /\ Kind \in {"tool", "m2", "m30"}
    /\ pc = "tooled" /\ Owned(io) => io.hal.read = "file"
    /\ Owned(io) /\ io.hal.type = "file" =>
          /\ io.pos <= Len(prog)
          /\ \A k \in Ends(prog) : io.pos < k \/ (io.pos = k /\ line.src = "file")
          /\ state = "alarm" \/ io.hal.read = "none" => line.src = "none"
          /\ ~io.open => /\ io.hal.read = "file" /\ pc = "loop"
                         /\ io.pos = Len(prog) \/ state = "alarm"
          /\ state = "tool" \/ "tool" \in flags \/ line.src = "typed" => HasTool(prog)
    /\ io.frewind => \/ Owned(io) /\ Ends(prog) # {}
                     \/ \A p \in Programs : Ends(p) # {}

\* What the operators above leave of the place.
SamePlace(i, j) == j.pos = i.pos /\ j.open = i.open /\ j.frewind = i.frewind
LeftPlace(i, j) == j.pos = i.pos /\ ~j.frewind

LEMMA EndJobLeaves ==
  ASSUME NEW i \in IO, NEW b \in BOOLEAN PROVE LeftPlace(i, EndJob(i, b))
<1> DEFINE s == i.act.stream
           k == [h \in Hooks |->
                    CASE h = "changed" -> i.saved[h]
                      [] h = "status" /\ i.hook[h] # "job" -> "core"
                      [] OTHER -> Restored(i, h)]
           v == IF i.hook["start"] = "job" THEN "none" ELSE i.saved["start"]
           x == IF b THEN "empty" ELSE i.rx[s]
           j == [i EXCEPT !.open = FALSE, !.hook = k, !.saved["start"] = v,
                          !.saved["status"] = "none", !.hal = i.act, !.act.type = "null",
                          !.rx[s] = x, !.frewind = FALSE]
<1>1. EndJob(i, b) = SetHandler(j, s, i.chained)
  BY DEF EndJob, IO
<1>2. j.pos = i.pos /\ ~j.frewind
  BY DEF IO
<1>3. \A h : [j EXCEPT !.handler[s] = h].pos = j.pos /\ [j EXCEPT !.handler[s] = h].frewind = j.frewind
  BY DEF IO
<1> HIDE DEF j
<1> QED BY <1>1, <1>2, <1>3 DEF SetHandler, LeftPlace

LEMMA JobSuspendPlace ==
  ASSUME NEW i \in IO, NEW b \in BOOLEAN PROVE SamePlace(i, JobSuspend(i, b))
  BY DEF JobSuspend, SamePlace, IO

LEMMA CoreSuspendPlace ==
  ASSUME NEW i \in IO, NEW b \in BOOLEAN PROVE SamePlace(i, CoreSuspend(i, b))
  BY DEF CoreSuspend, SamePlace, IO

LEMMA SuspendReadPlace ==
  ASSUME NEW i \in IO, NEW b \in BOOLEAN PROVE SamePlace(i, SuspendRead(i, b))
  BY JobSuspendPlace, CoreSuspendPlace DEF SuspendRead

LEMMA ResumedPlace == ASSUME NEW i \in IO PROVE SamePlace(i, Resumed(i))
  BY DEF Resumed, SamePlace, IO

LEMMA OnResetPlace ==
  ASSUME NEW i \in IO PROVE OnReset(i) = i \/ LeftPlace(i, OnReset(i))
  BY EndJobLeaves DEF OnReset

LEMMA AnsweredPlace ==
  ASSUME NEW i \in IO, NEW k PROVE Answered(i, k) = i \/ LeftPlace(i, Answered(i, k))
  BY EndJobLeaves DEF Answered

LEMMA CompletedPlace ==
  ASSUME NEW i \in IO, NEW u \in SUBSET Streams, NEW k, Taken(i, u)
  PROVE  LET j == Completed(i, k) IN
         IF i.frewind \/ k = "m2"
         THEN j.pos = 0 /\ j.open = i.open /\ j.frewind /\ j.hal.read = "pending" /\ Owned(j)
         ELSE LeftPlace(i, j) /\ Ended(j, u)
<1>1. CASE i.frewind \/ k = "m2"
  <2> DEFINE v == IF i.hook["start"] = "job" THEN i.saved["start"] ELSE i.hook["start"]
             j == [i EXCEPT !.frewind = TRUE, !.pos = 0, !.hal.read = "pending",
                            !.saved["start"] = v, !.hook["start"] = "job"]
  <2>1. Completed(i, k) = j
    BY <1>1 DEF Completed, Taken, Found
  <2> HIDE DEF v
  <2>2. /\ j.pos = 0 /\ j.open = i.open /\ j.frewind /\ j.act = i.act
        /\ j.hal = [i.hal EXCEPT !.read = "pending"]
    BY DEF IO
  <2> HIDE DEF j
  <2>3. j.hal.read = "pending" /\ Owned(j)
    BY <2>2, Exclusive DEF IO, Input, Owned
  <2> QED BY <1>1, <2>1, <2>2, <2>3
<1>2. CASE ~(i.frewind \/ k = "m2")
  <2>1. Completed(i, k) = EndJob(i, TRUE)
    BY <1>2 DEF Completed, Taken, Found
  <2> QED BY <1>2, <2>1, EndJobLeaves, EndJobEnds
<1> QED BY <1>1, <1>2

LEMMA StoppedPlace ==
  ASSUME NEW i \in IO, NEW u \in SUBSET Streams, "keep" \in flags => i.core.by = "none"
  PROVE  /\ Free(i, u) /\ ~Owned(i) => SamePlace(i, Stopped(i))
         /\ Taken(i, u) /\ i.hal.type = "file" => LeftPlace(i, Stopped(i))
<1>1. ASSUME Free(i, u), ~Owned(i) PROVE SamePlace(i, Stopped(i))
  <2>1. OnReset(i) = i
    BY <1>1, OnResetOK
  <2> DEFINE k == CoreSuspend(i, FALSE)
  <2>2. k \in IO /\ SamePlace(i, k)
    BY <1>1, CoreResumes, CoreSuspendPlace
  <2>3. Stopped(i) = i \/ Stopped(i) = [k EXCEPT !.rx[i.hal.stream] = "empty"]
    BY <2>1 DEF Stopped
  <2> HIDE DEF k
  <2> QED BY <2>2, <2>3 DEF SamePlace, IO
<1>2. ASSUME Taken(i, u), i.hal.type = "file" PROVE LeftPlace(i, Stopped(i))
  <2>1. Ended(OnReset(i), u) /\ OnReset(i) = EndJob(i, TRUE)
    BY <1>2, OnResetOK, Exclusive DEF OnReset, Owned
  <2>2. OnReset(i).core.by = "none"
    BY <2>1 DEF Ended
  <2> QED BY <2>1, <2>2, EndJobLeaves DEF Stopped
<1> QED BY <1>1, <1>2

LEMMA PlaceInit == Init => PlaceOK
  BY DEF Init, PlaceOK, NoLine, Owned, Native

-----------------------------------------------------------------------------
(* Steps as JobService sees them.                                          *)

Serves == [J!ServiceNext]_(J!svars)

LEMMA Unseen ==
  ASSUME Mode' = Mode, NextLine' = NextLine, prog' = prog, last' = last
  PROVE  Serves
  BY DEF Serves, J!svars

LEMMA Breaks ==
  ASSUME Mode # "manual", Mode' = "ending" \/ (Mode = "running" /\ Mode' = "final"),
         NextLine' = NextLine, prog' = prog, last' = last
  PROVE  Serves
  BY DEF Serves, J!ServiceNext, J!Break

LEMMA Resumes ==
  ASSUME Mode \in {"held", "changing", "waiting", "running"}, Mode' = "running",
         NextLine' = NextLine, prog' = prog, last' = last
  PROVE  Serves
  BY DEF Serves, J!ServiceNext, J!Resume, J!svars

LEMMA Finishes ==
  ASSUME Mode \in {"final", "ending"}, Mode' = "manual",
         NextLine' \in {NextLine, NextLine + 1}, prog' = prog, last' = last
  PROVE  Serves
  BY DEF Serves, J!ServiceNext, J!End

\* The invariants of this module, and what a step has to show.
Placed == IInv /\ PlaceOK
PlacedAndServed == PlaceOK' /\ Serves

\* Without a job, only a line in hand is the file's.
LEMMA NoJob ==
  ASSUME ~Owned(io)
  PROVE  Mode = IF line.src = "file" /\ pc # "eol" THEN "final" ELSE "manual"
  BY DEF Mode, InHand, Busy, Owned

LEMMA NoJobNext ==
  ASSUME ~Owned(io')
  PROVE  Mode' = IF line'.src = "file" /\ pc' # "eol" THEN "final" ELSE "manual"
  BY DEF Mode, InHand, Busy, Owned

\* A step after which there is no job.
LEMMA PlaceLeft ==
  ASSUME PlaceOK, ~Owned(io'), prog' = prog, state' # "jog",
         pc' \in {"loop", "tooled", "begin"} \/ (pc' = "ending" /\ back' = "loop")
           => line'.src = "none",
         line'.src # "file" => line'.n = 0,
         line'.src = "file" => /\ line' = line /\ io'.pos = io.pos /\ pc' = "exec"
                               /\ Kind \in {"tool", "m2", "m30"},
         io'.frewind => ~Owned(io) /\ io.frewind
  PROVE  PlaceOK'
  BY DEF PlaceOK, Kind

LEMMA ReadLineServes == ASSUME Placed, ReadLine PROVE PlacedAndServed
<1>1. /\ io'.hal = io.hal /\ io'.act = io.act /\ io'.open = io.open /\ io'.frewind = io.frewind
      /\ io'.pos = io.pos + 1
  BY Shapes DEF Placed, ReadLine, IO
<1>2. io.hal.type = "file" /\ Owned(io) /\ Owned(io') /\ line.src = "none"
  BY <1>1, Shapes, Exclusive DEF Placed, IInv, PlaceOK, ReadLine, LinesOK, Owned
<1>3. /\ pc = "loop" /\ pc' = "eol" /\ line'.src = "file" /\ line'.n = io.pos + 1
      /\ io.pos < Len(prog) /\ io.hal.read = "file" /\ io.open /\ Readable
      /\ prog' = prog /\ last' = last /\ state' = state /\ flags' = flags
  BY DEF ReadLine, machine
<1>4. io.pos \in Nat /\ Len(prog) \in Nat /\ Ends(prog) \subseteq 1..Len(prog)
  BY Shapes, FileJobAssumption DEF Placed, IInv, TypeOK, PlaceOK, Ends, IO
<1>5. PlaceOK'
  BY <1>1, <1>2, <1>3, <1>4 DEF Placed, PlaceOK, Readable
<1>6. Mode' = Mode /\ NextLine' = NextLine
  BY <1>1, <1>2, <1>3 DEF Mode, NextLine, InHand, Forced, Busy, Owned
<1> QED BY <1>3, <1>5, <1>6, Unseen DEF PlacedAndServed

LEMMA ReadEndServes == ASSUME Placed, ReadEnd PROVE PlacedAndServed
<1>1. /\ io'.hal = io.hal /\ io'.act = io.act /\ ~io'.open /\ io'.frewind = io.frewind
      /\ io'.pos = io.pos
  BY Shapes DEF Placed, ReadEnd, IO
<1>2. Owned(io) <=> Owned(io')
  BY <1>1 DEF Owned
<1>3. /\ pc = "loop" /\ pc' = pc /\ line' = line /\ io.hal.read = "file"
      /\ back' = back /\ prog' = prog /\ last' = last /\ state' = state /\ flags' = flags
      /\ (Readable => io.pos = Len(prog))
  BY DEF ReadEnd, main, machine
<1>4. io.pos = Len(prog) \/ state = "alarm"
  BY <1>3 DEF Placed, IInv, TypeOK, PlaceOK, Readable
<1>5. PlaceOK'
  BY <1>1, <1>2, <1>3, <1>4 DEF Placed, PlaceOK, Kind
<1>6. Mode' = Mode /\ NextLine' = NextLine
  BY <1>1, <1>3 DEF Mode, NextLine, InHand, Forced, Busy
<1> QED BY <1>3, <1>5, <1>6, Unseen DEF PlacedAndServed

LEMMA ReadNothingServes == ASSUME Placed, ReadNothing PROVE PlacedAndServed
<1>1. io.hal.type = "file" /\ Owned(io) /\ Taken(io, up)
  BY Shapes, Exclusive DEF Placed, IInv, ReadNothing, LinesOK
<1>2. /\ pc = "loop" /\ pc' = pc /\ line' = line /\ io.hal.read = "file" /\ ~io.open
      /\ back' = back /\ prog' = prog /\ last' = last /\ state' = state /\ flags' = flags
      /\ state = "idle" /\ io' = Completed(io, "m30")
  BY DEF ReadNothing, main, machine
<1>3. io.pos = Len(prog) /\ line.src = "none" /\ line.n = 0
  BY <1>1, <1>2 DEF Placed, PlaceOK
<1>4. Ends(prog) = {} /\ prog \in Programs
  BY <1>1, <1>3, FileJobAssumption DEF Placed, PlaceOK, Ends
<1>5. ~io.frewind
  BY <1>4 DEF Placed, PlaceOK
<1>6. LeftPlace(io, io') /\ ~Owned(io')
  BY <1>1, <1>2, <1>5, Shapes, CompletedPlace DEF Placed, Ended
<1>7. PlaceOK'
  BY <1>2, <1>3, <1>6, PlaceLeft DEF Placed, LeftPlace
<1>8. NextLine' = NextLine /\ NextLine > Len(prog)
  BY <1>2, <1>3, <1>4, <1>6, FileJobAssumption DEF NextLine, InHand, LeftPlace
<1>9. Mode' = "manual"
  BY <1>2, <1>3, <1>6, NoJobNext
<1>10. Mode \in {"running", "ending"}
  BY <1>1, <1>2, <1>3 DEF Mode, InHand, Forced, Busy, Owned
<1>11. CASE Mode = "ending"
  BY <1>2, <1>8, <1>9, <1>11, Finishes, <1>7 DEF PlacedAndServed
<1>12. CASE Mode = "running"
  BY <1>2, <1>7, <1>8, <1>9, <1>12 DEF PlacedAndServed, Serves, J!ServiceNext, J!Complete
<1> QED BY <1>10, <1>11, <1>12

LEMMA ReadTypedServes == ASSUME Placed, ReadTyped PROVE PlacedAndServed
<1>1. /\ io'.hal = io.hal /\ io'.act = io.act /\ io'.open = io.open /\ io'.frewind = io.frewind
      /\ io'.pos = io.pos
  BY Shapes DEF Placed, ReadTyped, IO
<1>2. Owned(io) <=> Owned(io')
  BY <1>1 DEF Owned
<1>3. /\ pc = "loop" /\ pc' = "eol" /\ line'.src = "typed" /\ line'.n = 0
      /\ io.hal.read \in Streams /\ line.src = "none"
      /\ back' = back /\ prog' = prog /\ last' = last /\ state' = state /\ flags' = flags
  BY DEF Placed, PlaceOK, ReadTyped, machine
<1>4. io.hal.read \notin {"file", "none", "pending"}
  BY <1>3 DEF Streams
<1>5. Owned(io) /\ io.hal.type = "file" => state = "tool"
  BY <1>3, <1>4 DEF Placed, IInv, FreshOK, Drops, Changes
<1>6. PlaceOK'
  BY <1>1, <1>2, <1>3, <1>4, <1>5 DEF Placed, PlaceOK
<1>7. Mode' = Mode /\ NextLine' = NextLine
  BY <1>1, <1>3, <1>4 DEF Mode, NextLine, InHand, Forced, Busy
<1> QED BY <1>3, <1>6, <1>7, Unseen DEF PlacedAndServed

LEMMA TerminateServes == ASSUME Placed, Terminate PROVE PlacedAndServed
<1>1. Owned(io) /\ Taken(io, up) /\ io.hal.type # "file" /\ line.src # "file"
  BY Shapes DEF Placed, IInv, Terminate, ConnectionsOK
<1>2. /\ pc = "ending" /\ state = "idle" /\ io' = EndJob(io, FALSE) /\ pc' = back
      /\ line' = line /\ prog' = prog /\ last' = last /\ state' = state
      /\ back \in {"loop", "exec"}
  BY DEF Placed, IInv, TypeOK, Terminate
<1>3. LeftPlace(io, io') /\ ~Owned(io')
  BY <1>1, <1>2, Shapes, EndJobLeaves, EndJobEnds DEF Placed, Ended
<1>4. PlaceOK'
  BY <1>1, <1>2, <1>3, PlaceLeft DEF Placed, PlaceOK, LeftPlace
<1>5. Mode = "ending"
  BY <1>1 DEF Mode, InHand, Forced, Busy, Owned
<1>6. Mode' = "manual"
  BY <1>1, <1>2, <1>3, NoJobNext
<1>7. NextLine' = NextLine
  BY <1>1, <1>2, <1>3 DEF NextLine, InHand, LeftPlace
<1> QED BY <1>2, <1>4, <1>5, <1>6, <1>7, Finishes DEF PlacedAndServed

LEMMA ResetServes == ASSUME Placed, Reset PROVE PlacedAndServed
<1>1. /\ pc' = "loop" /\ back' = "loop" /\ line'.src = "none" /\ line'.n = 0
      /\ prog' = prog /\ last' = last /\ state' # "jog" /\ "reset" \in flags
      /\ pc # "begin"
  BY DEF Reset, NoLine, CheckPoint, Waits
<1> DEFINE j == IF pc = "ending" THEN EndJob(OnReset(io), FALSE) ELSE OnReset(io)
<1>2. io' = [j EXCEPT !.rx[j.hal.stream] = "empty"]
  BY DEF Reset
<1>3. NextLine' \in {NextLine, NextLine + 1} <=> io'.pos + 1 \in {NextLine, NextLine + 1}
  BY <1>1 DEF NextLine, InHand
<1>4. io.pos \in Nat /\ NextLine \in {io.pos, io.pos + 1}
  BY Shapes DEF Placed, PlaceOK, NextLine, InHand, IO
<1>5. CASE Owned(io) /\ io.hal.type # "file" /\ pc # "ending"
  <2>1. j = io /\ Taken(io, up) /\ line.src # "file"
    BY <1>1, <1>5, Shapes, OnResetOK DEF Placed, IInv, ConnectionsOK
  <2>2. /\ io'.hal = io.hal /\ io'.act = io.act /\ io'.pos = io.pos
        /\ io'.open = io.open /\ io'.frewind = io.frewind
    BY <1>2, <1>5, <2>1, Shapes DEF Placed, IO
  <2>3. PlaceOK'
    BY <1>1, <1>5, <2>2 DEF Placed, PlaceOK, Owned
  <2>4. Mode' = Mode /\ NextLine' = NextLine
    BY <1>1, <1>5, <2>1, <2>2 DEF Mode, NextLine, InHand, Forced, Busy, Owned
  <2> QED BY <1>1, <2>3, <2>4, Unseen DEF PlacedAndServed
<1>6. CASE ~(Owned(io) /\ io.hal.type # "file" /\ pc # "ending")
  <2>1. /\ io' \in IO => ~Owned(io') /\ io'.pos = io.pos
        /\ io'.frewind => ~Owned(io) /\ io.frewind
    <3>1. CASE pc = "ending"
      <4>1. Owned(io) /\ Taken(io, up) /\ io.hal.type # "file"
        BY <3>1, Shapes DEF Placed, IInv, ConnectionsOK
      <4>2. j = EndJob(io, FALSE)
        BY <3>1, <4>1, Shapes, OnResetOK DEF Placed
      <4>3. ~Owned(j) /\ j \in IO /\ LeftPlace(io, j)
        BY <4>1, <4>2, Shapes, EndJobLeaves, EndJobEnds DEF Placed, Ended
      <4> HIDE DEF j
      <4>4. io'.act = j.act /\ io'.pos = j.pos /\ io'.frewind = j.frewind
        BY <1>2, <4>3 DEF IO
      <4> QED BY <4>3, <4>4 DEF Owned, LeftPlace
    <3>2. CASE pc # "ending" /\ ~Owned(io)
      <4>1. j = io
        BY <1>1, <3>2, Shapes, OnResetOK DEF Placed
      <4>2. io'.act = io.act /\ io'.pos = io.pos /\ io'.frewind = io.frewind
        BY <1>2, <3>2, <4>1, Shapes DEF Placed, IO
      <4> QED BY <3>2, <4>2 DEF Owned
    <3>3. CASE pc # "ending" /\ Owned(io) /\ io.hal.type = "file"
      <4>1. Ended(j, up) /\ j = EndJob(io, TRUE)
        BY <1>1, <3>3, Shapes, OnResetOK DEF Placed, OnReset, Owned
      <4>2. ~Owned(j) /\ j \in IO /\ LeftPlace(io, j)
        BY <4>1, Shapes, EndJobLeaves DEF Placed, Ended
      <4> HIDE DEF j
      <4>3. io'.act = j.act /\ io'.pos = j.pos /\ io'.frewind = j.frewind
        BY <1>2, <3>3, <4>2 DEF IO
      <4> QED BY <4>2, <4>3 DEF Owned, LeftPlace
    <3> QED BY <1>6, <3>1, <3>2, <3>3
  <2>2. io' \in IO /\ ~Owned(io') /\ io'.pos = io.pos
    <3>1. io' \in IO
      BY ResetKeeps DEF Placed, IInv, TypeOK
    <3> QED BY <2>1, <3>1
  <2>3. PlaceOK'
    BY <1>1, <2>1, <2>2, PlaceLeft DEF Placed
  <2>4. Mode' = "manual"
    BY <1>1, <2>2, NoJobNext
  <2>5. NextLine' = io.pos + 1
    BY <1>1, <2>2 DEF NextLine, InHand
  <2>6. CASE Mode = "manual"
    <3>1. line.src # "file"
      <4>1. CASE ~Owned(io)
        BY <2>6, <4>1, NoJob DEF Placed, PlaceOK
      <4>2. CASE Owned(io)
        BY <1>1, <2>6, <4>2 DEF Mode, Forced, Busy, Owned, InHand
      <4> QED BY <4>1, <4>2
    <3>2. NextLine' = NextLine
      BY <2>5, <3>1 DEF NextLine, InHand
    <3> QED BY <1>1, <2>3, <2>4, <2>6, <3>2, Unseen DEF PlacedAndServed
  <2>7. CASE Mode # "manual"
    <3>1. Mode \in {"final", "ending"}
      BY <1>1, <2>7 DEF Mode, Forced
    <3> QED BY <1>1, <1>4, <2>3, <2>4, <2>5, <3>1, Finishes DEF PlacedAndServed
  <2> QED BY <2>6, <2>7
<1> QED BY <1>5, <1>6

LEMMA TakeInputServes == ASSUME Placed, TakeInput PROVE PlacedAndServed
<1>1. /\ io'.hal = io.hal /\ io'.act = io.act /\ io'.open = io.open /\ io'.frewind = io.frewind
      /\ io'.pos = io.pos
  BY Shapes DEF Placed, TakeInput, IO
<1>2. Owned(io) <=> Owned(io')
  BY <1>1 DEF Owned
<1>3. /\ pc = "begin" /\ pc' = "loop" /\ line' = line /\ line.src = "none"
      /\ back' = back /\ prog' = prog /\ last' = last /\ state' = state /\ flags' = flags
  BY DEF Placed, PlaceOK, TakeInput, machine
<1>4. Owned(io) /\ io.hal.read = "file"
  BY <1>3, Shapes DEF Placed, Taking
<1>5. PlaceOK'
  BY <1>1, <1>2, <1>3, <1>4 DEF Placed, PlaceOK, Kind
<1>6. Mode' = Mode /\ NextLine' = NextLine
  BY <1>1, <1>3 DEF Mode, NextLine, InHand, Forced, Busy
<1> QED BY <1>3, <1>5, <1>6, Unseen DEF PlacedAndServed

-----------------------------------------------------------------------------
\* A step that leaves the job and the main loop where they are.
LEMMA SameServes ==
  ASSUME Placed, io'.hal = io.hal, io'.act = io.act, SamePlace(io, io'),
         main' = main, prog' = prog, last' = last, state' # "jog",
         state' = "alarm" <=> state = "alarm", state' = "tool" => state = "tool",
         "tool" \in flags' => "tool" \in flags,
         flags' \cap {"reset", "stop"} = flags \cap {"reset", "stop"}
  PROVE  PlacedAndServed
<1>1. pc' = pc /\ back' = back /\ line' = line
  BY DEF main
<1>2. PlaceOK'
  BY <1>1 DEF Placed, PlaceOK, SamePlace, Owned, Kind
<1>3. Mode' = Mode /\ NextLine' = NextLine
  BY <1>1 DEF Mode, NextLine, InHand, Forced, Busy, SamePlace
<1> QED BY <1>2, <1>3, Unseen DEF PlacedAndServed

\* A step that leaves the core's input and the main loop where they are.
LEMMA QuietServes ==
  ASSUME Placed, ~Owned(io), io'.act = io.act, SamePlace(io, io'),
         pc' = pc, back' = back, line' = line, prog' = prog, last' = last, state' = state
  PROVE  PlacedAndServed
<1>1. ~Owned(io')
  BY DEF Owned
<1>2. PlaceOK'
  BY <1>1 DEF Placed, PlaceOK, Kind, SamePlace
<1>3. Mode' = Mode /\ NextLine' = NextLine
  BY <1>1, NoJob, NoJobNext DEF NextLine, InHand, SamePlace
<1> QED BY <1>2, <1>3, Unseen DEF PlacedAndServed

LEMMA MotionDoneServes == ASSUME Placed, MotionDone PROVE PlacedAndServed
<1>1. /\ io' = io /\ main' = main /\ prog' = prog /\ last' = last /\ flags' = flags
      /\ state' = "idle" /\ state # "alarm"
  BY DEF MotionDone
<1> QED BY <1>1, SameServes DEF SamePlace

LEMMA RxTextServes ==
  ASSUME Placed, NEW s \in Streams, RxText(s) PROVE PlacedAndServed
<1>1. io'.hal = io.hal /\ io'.act = io.act /\ SamePlace(io, io')
  BY Shapes DEF Placed, RxText, IO, SamePlace
<1>2. /\ main' = main /\ prog' = prog /\ last' = last /\ flags' = flags /\ state' = state
      /\ state # "jog"
  BY DEF Placed, PlaceOK, RxText, machine
<1> QED BY <1>1, <1>2, SameServes

LEMMA RxAckServes ==
  ASSUME ~InterruptedStart, Placed, NEW s \in Streams, RxAck(s) PROVE PlacedAndServed
<1>1. /\ pc' = pc /\ back' = back /\ line' = line /\ prog' = prog /\ last' = last
      /\ state' = state /\ flags' = flags
  BY DEF RxAck, main, machine
<1>2. pc # "begin"
  BY DEF RxAck, Received, Receivable
<1>3. CASE /\ io.handler[s] = "ack"
           /\ io' = SetHandler([io EXCEPT !.hal.read = io.act.read], io.act.stream, io.chained)
  <2>1. /\ Owned(io) /\ Taken(io, up) /\ s = io.act.stream /\ io.act.read = s
        /\ io.chained = "protocol"
    BY <1>2, <1>3, Shapes DEF Placed, Free, Taken, Found, Native, IO, Input
  <2>2. io' = [io EXCEPT !.hal.read = s, !.handler[s] = "protocol"]
    BY <1>3, <2>1, Shapes DEF Placed, SetHandler, IO
  <2>3. /\ io'.act = io.act /\ io'.pos = io.pos /\ io'.open = io.open
        /\ io'.frewind = io.frewind /\ io'.hal = [io.hal EXCEPT !.read = s]
    BY <2>2, Shapes DEF Placed, IO
  <2>4. io'.hal.read = s /\ io'.hal.type = io.hal.type /\ s \notin {"file", "none", "pending"}
    BY <2>3, Shapes DEF Placed, IO, Input, Streams
  <2>5. CASE io.hal.type = "file"
    <3>1. io.hal.read = "none" /\ line.src = "none"
      BY <1>2, <1>3, <2>1, <2>5 DEF Placed, IInv, FreshOK, Drops, Changes
    <3>2. PlaceOK'
      BY <1>1, <2>1, <2>3, <2>4, <3>1 DEF Placed, PlaceOK, Owned
    <3>3. NextLine' = NextLine
      BY <1>1, <2>3 DEF NextLine, InHand
    <3>4. pc # "tooled"
      BY <2>1, <3>1 DEF Placed, PlaceOK
    <3>5. CASE Forced
      <4>1. Mode = "ending" /\ Mode' = "ending"
        BY <1>1, <2>1, <2>3, <2>4, <3>1, <3>5 DEF Mode, InHand, Forced, Busy, Owned
      <4> QED BY <1>1, <3>2, <3>3, <4>1, Unseen DEF PlacedAndServed
    <3>6. CASE ~Forced
      <4>1. Mode = "held" /\ Mode' = "changing"
        BY <1>1, <2>1, <2>3, <2>4, <3>1, <3>4, <3>6 DEF Mode, InHand, Forced, Busy, Owned
      <4> QED
        BY <1>1, <3>2, <3>3, <4>1 DEF PlacedAndServed, Serves, J!ServiceNext, J!Acknowledge
    <3> QED BY <3>5, <3>6
  <2>6. CASE io.hal.type # "file"
    <3>1. line.src # "file" /\ io.hal.read # "file"
      BY <2>1, <2>6 DEF Placed, IInv, ConnectionsOK, LinesOK
    <3>2. PlaceOK'
      BY <1>1, <2>1, <2>3, <2>4, <2>6, <3>1 DEF Placed, PlaceOK, Owned
    <3>3. Mode' = Mode /\ NextLine' = NextLine
      BY <1>1, <2>1, <2>3, <2>4, <2>6, <3>1 DEF Mode, NextLine, InHand, Forced, Busy, Owned
    <3> QED BY <1>1, <3>2, <3>3, Unseen DEF PlacedAndServed
  <2> QED BY <2>5, <2>6
<1>4. CASE /\ io.handler[s] = "coreAck"
           /\ io' = [io EXCEPT !.core.acked = TRUE, !.core.kept = io.rx[io.core.by],
                              !.rx[io.core.by] = "empty", !.hal.read = io.core.by,
                              !.handler[io.hal.stream] = "protocol"]
  <2>1. ~Owned(io)
    BY <1>2, <1>4, Shapes DEF Placed, Taken, Found
  <2>2. io'.act = io.act /\ SamePlace(io, io')
    BY <1>4, Shapes DEF Placed, IO, SamePlace
  <2> QED BY <1>1, <2>1, <2>2, QuietServes
<1> QED BY <1>3, <1>4 DEF RxAck

LEMMA RxStartServes ==
  ASSUME ~InterruptedStart, Placed, NEW s \in Streams, RxStart(s) PROVE PlacedAndServed
<1>1. /\ pc' = pc /\ back' = back /\ line' = line /\ prog' = prog /\ last' = last
      /\ state' = state /\ flags' = flags \cup {"start"} /\ main' = main /\ state # "jog"
  BY DEF Placed, PlaceOK, RxStart, main
<1>2. pc # "begin"
  BY DEF RxStart, Received, Receivable
<1>3. CASE io.hook["start"] # "job"
  <2>1. io' = io
    BY <1>3 DEF RxStart
  <2> QED BY <1>1, <2>1, SameServes DEF SamePlace
<1>4. CASE io.hook["start"] = "job"
  <2>1. Owned(io) /\ Taken(io, up)
    BY <1>2, <1>4, Shapes DEF Placed, Free, Hooks
  <2>2. io' = Resumed(io)
    BY <1>4 DEF RxStart
  <2>3. /\ io'.act = io.act /\ io'.hal.type = io.hal.type
        /\ io'.hal.read = IF io.hal.read = "pending" THEN "file" ELSE io.hal.read
        /\ SamePlace(io, io')
    BY <1>4, <2>1, <2>2, Shapes, ResumedOK, ResumedPlace DEF Placed
  <2>4. PlaceOK'
    BY <1>1, <2>1, <2>3 DEF Placed, PlaceOK, Owned, SamePlace
  <2>5. NextLine' = NextLine
    BY <1>1, <2>3 DEF NextLine, InHand, SamePlace
  <2>6. \/ Mode' = Mode
        \/ Mode = "waiting" /\ Mode' = "running"
    BY <1>1, <2>1, <2>3 DEF Mode, InHand, Forced, Busy, Owned
  <2> QED BY <1>1, <2>4, <2>5, <2>6, Unseen, Resumes DEF PlacedAndServed
<1> QED BY <1>3, <1>4

\* An order from outside: the job is to be ended.
LEMMA ForcedServes ==
  ASSUME PlaceOK', Owned(io), Owned(io'), pc' = pc, line' = line, prog' = prog, last' = last,
         io'.pos = io.pos, flags' \cap {"reset", "stop"} # {},
         line.src = "file" => io.hal.read = "file"
  PROVE  PlacedAndServed
<1>1. NextLine' = NextLine
  BY DEF NextLine, InHand
<1>2. CASE InHand /\ pc # "eol"
  <2>1. Mode' = "final" /\ Mode \in {"final", "running"}
    BY <1>2 DEF Mode, InHand, Forced, Busy, Owned
  <2> QED BY <1>1, <2>1, Unseen, Breaks DEF PlacedAndServed
<1>3. CASE ~(InHand /\ pc # "eol")
  <2>1. Mode' = "ending" /\ Mode # "manual"
    BY <1>3 DEF Mode, InHand, Forced, Busy, Owned
  <2> QED BY <1>1, <2>1, Breaks DEF PlacedAndServed
<1> QED BY <1>2, <1>3

LEMMA RxResetServes ==
  ASSUME ~InterruptedStart, Placed, NEW s \in Streams, RxReset(s) PROVE PlacedAndServed
<1>1. /\ pc' = pc /\ back' = back /\ line' = line /\ prog' = prog /\ last' = last
      /\ state' = state /\ "reset" \in flags' /\ io' = SuspendRead(io, FALSE)
      /\ "tool" \in flags' => "tool" \in flags
  BY DEF RxReset, main
<1>2. pc # "begin"
  BY DEF RxReset, Received, Receivable
<1>3. SamePlace(io, io')
  BY <1>1, Shapes, SuspendReadPlace DEF Placed
<1>4. CASE ~Owned(io)
  <2>1. io'.act = io.act
    BY <1>1, <1>4, Shapes, SuspendReadOK, CoreResumes DEF Placed
  <2> QED BY <1>1, <1>3, <1>4, <2>1, QuietServes
<1>5. CASE Owned(io) /\ io.hal.type # "file"
  <2>1. io' = io
    BY <1>1, <1>2, <1>5, Shapes, SuspendReadOK DEF Placed
  <2>2. PlaceOK'
    BY <1>1, <2>1 DEF Placed, PlaceOK, Kind
  <2> QED BY <1>1, <1>5, <2>1, <2>2, ForcedServes DEF Placed, PlaceOK
<1>6. CASE Owned(io) /\ io.hal.type = "file"
  <2>1. Taken(io, up) /\ FromFile(io) /\ io' = JobSuspend(io, FALSE)
    BY <1>1, <1>2, <1>6, Shapes, Exclusive, SuspendReadOK DEF Placed
  <2>2. Owned(io') /\ io'.act = io.act /\ io'.hal.read = "file" /\ io'.hal.type = "file"
    BY <1>6, <2>1, Shapes, JobResumes DEF Placed, Owned, FromFile
  <2>3. PlaceOK'
    BY <1>1, <1>3, <1>6, <2>2 DEF Placed, PlaceOK, SamePlace
  <2> QED BY <1>1, <1>3, <1>6, <2>2, <2>3, ForcedServes DEF Placed, PlaceOK, SamePlace
<1> QED BY <1>4, <1>5, <1>6

LEMMA RxStopServes ==
  ASSUME Placed, NEW s \in Streams, RxStop(s) PROVE PlacedAndServed
<1>1. io'.hal = io.hal /\ io'.act = io.act /\ SamePlace(io, io')
  BY Shapes DEF Placed, RxStop, IO, SamePlace
<1>2. /\ pc' = pc /\ back' = back /\ line' = line /\ prog' = prog /\ last' = last
      /\ state' = state /\ "stop" \in flags' /\ ("tool" \in flags' => "tool" \in flags)
  BY DEF RxStop, main
<1>3. PlaceOK' /\ (Owned(io') <=> Owned(io))
  BY <1>1, <1>2 DEF Placed, PlaceOK, Owned, Kind, SamePlace
<1>4. CASE ~Owned(io)
  BY <1>1, <1>2, <1>4, QuietServes
<1>5. CASE Owned(io)
  BY <1>1, <1>2, <1>3, <1>5, ForcedServes DEF Placed, PlaceOK, SamePlace
<1> QED BY <1>4, <1>5

LEMMA ChangePlace ==
  ASSUME Placed, NEW s \in Streams, Change(s)
  PROVE  /\ io'.hal.type = s /\ io'.act = io.act /\ SamePlace(io, io')
         /\ pc' = pc /\ back' = back /\ line' = line /\ prog' = prog /\ last' = last
         /\ state' = state /\ flags' = flags /\ pc # "begin"
<1>1. io' = [io EXCEPT !.hal = Native(s), !.handler[s] = "protocol"]
  BY DEF Change, Selected
<1>2. io'.hal = Native(s) /\ io'.act = io.act /\ SamePlace(io, io')
  BY <1>1, Shapes DEF Placed, IO, SamePlace
<1> QED BY <1>2 DEF Change, Native, main, machine

LEMMA ConnectServes ==
  ASSUME ConnectAt \subseteq {"none", "reading"}, Placed, Connect PROVE PlacedAndServed
<1>1. Change("telnet") /\ Phase \in {"none", "reading"} /\ "telnet" \in Streams
  BY DEF Connect, Streams
<1>2. CASE ~Owned(io)
  BY <1>1, <1>2, ChangePlace, QuietServes
<1>3. CASE Owned(io)
  <2>1. line.src = "none" /\ pc \notin {"tooled", "ending"}
    BY <1>1, <1>3 DEF Phase, Owned
  <2>2. Owned(io') /\ io'.hal.type # "file"
    BY <1>1, <1>3, ChangePlace DEF Owned
  <2>3. PlaceOK'
    BY <1>1, <1>3, <2>1, <2>2, ChangePlace DEF Placed, PlaceOK, SamePlace
  <2>4. Mode' = "ending" /\ Mode # "manual" /\ NextLine' = NextLine
    BY <1>1, <1>3, <2>1, <2>2, ChangePlace
       DEF Mode, NextLine, InHand, Forced, Busy, Owned, SamePlace
  <2>5. prog' = prog /\ last' = last
    BY <1>1, ChangePlace
  <2> QED BY <2>3, <2>4, <2>5, Breaks DEF PlacedAndServed
<1> QED BY <1>2, <1>3

LEMMA DisconnectServes ==
  ASSUME HangupAt \subseteq {"none"}, Placed, Disconnect PROVE PlacedAndServed
<1>1. Change("serial") /\ Phase = "none" /\ "serial" \in Streams
  BY DEF Disconnect, Streams
<1>2. ~Owned(io)
  BY <1>1 DEF Phase, Owned
<1> QED BY <1>1, <1>2, ChangePlace, QuietServes

-----------------------------------------------------------------------------
\* Lines.

\* A line in hand is the next one, and one of the file.
LEMMA InHandPlace ==
  ASSUME Placed, line.src = "file", pc = "exec", Straight
  PROVE  /\ line.n = io.pos /\ line.n \in 1..Len(prog) /\ NextLine = line.n
         /\ Kind = prog[line.n] /\ Kind # "jog" /\ prog \in Seq(Kinds) /\ io.pos \in Nat
         /\ Mode = IF Owned(io) /\ ~Forced THEN "running" ELSE "final"
         /\ ~Owned(io) => Kind \in {"tool", "m2", "m30"}
<1>1. line.n = io.pos /\ line.n \in 1..Len(prog) /\ NextLine = line.n /\ Kind = prog[line.n]
  BY DEF Placed, PlaceOK, NextLine, InHand, Kind
<1>2. ~Owned(io) => Kind \in {"tool", "m2", "m30"}
  BY DEF Placed, PlaceOK
<1>3. Kind # "jog"
  BY <1>1, <1>2 DEF Placed, PlaceOK, Straight
<1>4. Mode = IF Owned(io) /\ ~Forced THEN "running" ELSE "final"
  BY DEF Mode, InHand, Busy, Owned
<1>5. prog \in Seq(Kinds)
  <2>1. prog \in Programs \/ prog = <<>>
    BY DEF Placed, IInv, TypeOK
  <2>2. Programs \subseteq Seq(Kinds) /\ <<>> \in Seq(Kinds)
    BY FileJobAssumption
  <2> QED BY <2>1, <2>2
<1>6. io.pos \in Nat
  BY Shapes DEF Placed, IO
<1> QED BY <1>1, <1>2, <1>3, <1>4, <1>5, <1>6

LEMMA ExecuteFileServes == ASSUME Straight, Placed, ExecuteFile PROVE PlacedAndServed
<1>1. /\ pc = "exec" /\ line.src = "file" /\ line'.src = "none" /\ line'.n = 0
      /\ pc' = IF Kind = "tool" THEN "tooled" ELSE "loop"
      /\ last' = line.n /\ prog' = prog /\ back' = back
      /\ (Kind = "jog" \/ state' # "jog")
      /\ flags' \cap {"reset", "stop"} = flags \cap {"reset", "stop"}
      /\ io' = IF Kind \in {"m2", "m30"} THEN Completed(io, Kind) ELSE Answered(io, Kind)
  BY DEF Placed, PlaceOK, ExecuteFile, NoLine
<1> DEFINE n == line.n
<1>2. /\ n = io.pos /\ n \in 1..Len(prog) /\ NextLine = n /\ Kind = prog[n]
      /\ Kind # "jog" /\ prog \in Seq(Kinds) /\ io.pos \in Nat
      /\ Mode = IF Owned(io) /\ ~Forced THEN "running" ELSE "final"
      /\ ~Owned(io) => Kind \in {"tool", "m2", "m30"}
  BY <1>1, InHandPlace
<1>3. state' # "jog" /\ Len(prog) \in Nat /\ n \in Nat /\ n <= Len(prog)
  BY <1>1, <1>2
<1> HIDE DEF n
<1>4. ASSUME PlaceOK', NextLine' = n + 1,
             \/ Mode = "running" /\ Mode' \in J!After(Kind) /\ Mode' # "waiting"
             \/ Mode = "final" /\ Mode' \in {"ending", "manual"}
      PROVE  PlacedAndServed
  <2>1. J!Line
    BY <1>1, <1>2, <1>3, <1>4 DEF J!Line, n
  <2> QED BY <1>4, <2>1 DEF PlacedAndServed, Serves, J!ServiceNext
<1>5. NextLine' = io'.pos + 1
  BY <1>1 DEF NextLine, InHand
<1>6. ASSUME ~Owned(io'), LeftPlace(io, io') \/ io' = io, ~Owned(io) \/ LeftPlace(io, io'),
             Kind \in {"m2", "m30", "bad", "run"} \/ Mode = "final"
      PROVE  PlacedAndServed
  <2>1. io'.pos = io.pos
    BY <1>6 DEF LeftPlace
  <2>2. PlaceOK'
    BY <1>1, <1>3, <1>6, <2>1, PlaceLeft DEF Placed, LeftPlace
  <2>3. Mode' = "manual"
    BY <1>1, <1>6, NoJobNext
  <2> QED BY <1>2, <1>4, <1>5, <1>6, <2>1, <2>2, <2>3 DEF J!After
<1>7. CASE ~Owned(io)
  <2>1. io' = io
    BY <1>1, <1>7, Shapes, CompletedOK, AnsweredOK DEF Placed
  <2> QED BY <1>2, <1>6, <1>7, <2>1
<1>8. CASE Owned(io)
  <2>1. io.hal.type = "file" /\ Taken(io, up) /\ io.hal.read = "file" /\ io.open /\ prog \in Programs
    BY <1>1, <1>8, InHandFromFile DEF Placed, PlaceOK
  <2>t. state' = "tool" \/ "tool" \in flags' => HasTool(prog)
    <3>1. Kind = "tool" => HasTool(prog)
      BY <1>2 DEF HasTool, n
    <3>2. Kind # "tool" => "tool" \notin flags'
      BY <1>1 DEF Placed, IInv, LinesOK, ExecuteFile
    <3>3. state' = "tool" => state = "tool"
      BY DEF ExecuteFile
    <3> QED BY <1>8, <2>1, <3>1, <3>2, <3>3 DEF Placed, PlaceOK
  <2>2. io.hook["status"] = "job"
    BY <2>1 DEF Taken, Found
  <2>3. CASE Kind \in {"m2", "m30"} /\ (io.frewind \/ Kind = "m2")
    <3>1. /\ io'.pos = 0 /\ io'.open /\ io'.frewind /\ io'.hal.read = "pending" /\ Owned(io')
      BY <1>1, <2>1, <2>3, Shapes, CompletedPlace DEF Placed
    <3>2. io'.hal.type = "file"
      BY <1>1, <2>1, <2>3, <3>1, Shapes, CompletedOK DEF Placed, Ended
    <3>3. n \in Ends(prog)
      BY <1>2, <2>3 DEF Ends
    <3>4. \A k \in Ends(prog) : k \in Nat /\ 0 < k
      BY <1>3 DEF Ends
    <3>5. PlaceOK'
      <4>1. pc' = "loop"
        BY <1>1, <2>3
      <4>2. Ends(prog') # {} /\ \A k \in Ends(prog') : io'.pos < k
        BY <1>1, <3>1, <3>3, <3>4
      <4>3. prog' \in Programs /\ io'.pos <= Len(prog')
        BY <1>1, <1>3, <2>1, <3>1
      <4> QED BY <1>1, <1>3, <2>t, <3>1, <3>2, <4>1, <4>2, <4>3 DEF PlaceOK
    <3>6. Mode' = IF Forced THEN "ending" ELSE "waiting"
      BY <1>1, <2>1, <2>3, <3>1, <3>2 DEF Mode, InHand, Forced, Busy, Owned
    <3>7. NextLine' = 1
      BY <1>5, <3>1
    <3>8. J!Line
      BY <1>1, <1>2, <1>3, <1>8, <2>3, <3>6, <3>7 DEF J!Line, J!After, n
    <3> QED BY <3>5, <3>8 DEF PlacedAndServed, Serves, J!ServiceNext
  <2>4. CASE Kind \in {"m2", "m30"} /\ ~(io.frewind \/ Kind = "m2")
    <3>1. LeftPlace(io, io') /\ ~Owned(io')
      BY <1>1, <2>1, <2>4, Shapes, CompletedPlace DEF Placed, Ended
    <3> QED BY <1>6, <2>4, <3>1
  <2>5. CASE Kind \in {"bad", "run"}
    <3>1. io' = EndJob(io, TRUE)
      BY <1>1, <2>1, <2>2, <2>5 DEF Answered
    <3>2. LeftPlace(io, io') /\ ~Owned(io')
      BY <2>1, <3>1, Shapes, EndJobLeaves, EndJobEnds DEF Placed, Ended
    <3> QED BY <1>6, <2>5, <3>2
  <2>6. CASE Kind \notin {"m2", "m30", "bad", "run"}
    <3>1. io' = io
      BY <1>1, <2>6 DEF Answered
    <3>2. \A k \in Ends(prog) : io.pos < k
      <4> SUFFICES ASSUME NEW k \in Ends(prog) PROVE io.pos < k
        OBVIOUS
      <4>1. io.pos # k
        BY <1>2, <2>6 DEF Ends
      <4> QED BY <2>1, <4>1, <1>8 DEF Placed, PlaceOK
    <3>3. PlaceOK'
      BY <1>1, <1>3, <1>8, <2>1, <2>t, <3>1, <3>2 DEF Placed, PlaceOK
    <3>4. Mode' = IF Forced THEN "ending" ELSE IF Kind = "tool" THEN "held" ELSE "running"
      BY <1>1, <1>8, <2>1, <3>1 DEF Mode, InHand, Forced, Busy, Owned
    <3>5. NextLine' = n + 1
      BY <1>2, <1>5, <3>1
    <3> QED BY <1>2, <1>4, <1>8, <2>6, <3>3, <3>4, <3>5 DEF J!After
  <2> QED BY <2>3, <2>4, <2>5, <2>6
<1> QED BY <1>7, <1>8

LEMMA ExecuteTypedServes == ASSUME Straight, Placed, ExecuteTyped PROVE PlacedAndServed
<1>1. /\ pc = "exec" /\ line.src = "typed" /\ pc' = "loop" /\ line'.src = "none" /\ line'.n = 0
      /\ last' = 0 /\ prog' = prog /\ back' = back /\ flags' = flags
  BY DEF ExecuteTyped, NoLine
<1>2. PICK k \in Typeable :
          /\ state = "alarm" <=> k = "unlock"
          /\ io' = CASE k \in {"m2", "m30"} -> Completed(io, k)
                     [] k = "rewind"        -> [io EXCEPT !.frewind = TRUE]
                     [] k = "bad"           -> Answered(io, k)
                     [] OTHER               -> io
          /\ state' = IF k = "unlock" THEN "idle" ELSE state
  BY DEF ExecuteTyped
<1>3. NextLine = io.pos + 1 /\ NextLine' = io'.pos + 1 /\ state' # "jog"
  BY <1>1, <1>2 DEF NextLine, InHand, Placed, PlaceOK
<1>4. Mode = IF ~Owned(io) THEN "manual" ELSE IF Forced THEN "ending" ELSE "changing"
  BY <1>1 DEF Mode, InHand, Forced, Busy, Owned
<1>5. /\ k = "rewind" => \A p \in Programs : Ends(p) # {}
      /\ k = "m2" => \A p \in Programs : HasTool(p) => Ends(p) # {}
  BY DEF Straight
<1>6. ASSUME PlaceOK', \/ Mode' = Mode /\ io'.pos = io.pos
                       \/ Mode = "changing" /\ Mode' = "running" /\ io'.pos = io.pos
                       \/ Mode = "changing" /\ Mode' = "waiting" /\ io'.pos \in {0, io.pos}
                       \/ Mode = "ending" /\ Mode' = "ending" /\ io'.pos \in {0, io.pos}
                       \/ Mode # "manual" /\ Mode' = "manual" /\ io'.pos = io.pos
      PROVE  PlacedAndServed
  <2>1. J!Typed
    BY <1>1, <1>3, <1>4, <1>6 DEF J!Typed
  <2> QED BY <1>6, <2>1 DEF PlacedAndServed, Serves, J!ServiceNext
<1>7. CASE ~Owned(io)
  <2>1. io' = io \/ (k = "rewind" /\ io' = [io EXCEPT !.frewind = TRUE])
    BY <1>2, <1>7, Shapes, CompletedOK, AnsweredOK DEF Placed
  <2>2. /\ io'.act = io.act /\ io'.pos = io.pos /\ ~Owned(io')
        /\ io'.frewind => io.frewind \/ k = "rewind"
    BY <1>7, <2>1, Shapes DEF Placed, IO, Owned
  <2>3. PlaceOK'
    BY <1>1, <1>3, <1>5, <1>7, <2>2 DEF Placed, PlaceOK
  <2>4. Mode' = "manual"
    BY <1>1, <2>2, NoJobNext
  <2> QED BY <1>4, <1>6, <1>7, <2>2, <2>3, <2>4
<1>8. CASE Owned(io)
  <2>1. /\ io.hal.type = "file" /\ Taken(io, up) /\ io.open /\ io.hal.read # "none"
        /\ state # "alarm" /\ state' = state /\ HasTool(prog) /\ prog \in Programs
    BY <1>1, <1>2, <1>8, InHandFromFile DEF Placed, PlaceOK
  <2>2. ASSUME ~Owned(io'), LeftPlace(io, io') PROVE PlacedAndServed
    <3>1. PlaceOK'
      BY <1>1, <1>3, <2>2, PlaceLeft DEF Placed, LeftPlace
    <3>2. Mode' = "manual"
      BY <1>1, <2>2, NoJobNext
    <3> QED BY <1>4, <1>6, <1>8, <2>2, <3>1, <3>2 DEF LeftPlace
  <2>3. CASE k \in {"m2", "m30"}
    <3>1. io' = Completed(io, k)
      BY <1>2, <2>3
    <3>2. CASE io.frewind \/ k = "m2"
      <4>1. /\ io'.pos = 0 /\ io'.open /\ io'.frewind /\ io'.hal.read = "pending" /\ Owned(io')
        BY <2>1, <3>1, <3>2, Shapes, CompletedPlace DEF Placed
      <4>2. io'.hal.type = "file"
        BY <2>1, <3>1, <4>1, Shapes, CompletedOK DEF Placed, Ended
      <4>3. (Ends(prog) # {} /\ prog \in Programs) \/ \A p \in Programs : Ends(p) # {}
        BY <1>5, <1>8, <2>1, <3>2 DEF Placed, PlaceOK
      <4>4. prog \in Seq(Kinds) /\ prog \in Programs
        BY <1>8, FileJobAssumption DEF Placed, PlaceOK
      <4>5. Len(prog) \in Nat /\ \A e \in Ends(prog) : e \in Nat /\ 0 < e
        BY <4>4 DEF Ends
      <4>6. PlaceOK'
        BY <1>1, <1>3, <2>1, <4>1, <4>2, <4>3, <4>4, <4>5 DEF PlaceOK
      <4>7. Mode' = IF Forced THEN "ending" ELSE "waiting"
        BY <1>1, <2>1, <4>1, <4>2 DEF Mode, InHand, Forced, Busy, Owned
      <4> QED BY <1>4, <1>6, <1>8, <4>1, <4>6, <4>7
    <3>3. CASE ~(io.frewind \/ k = "m2")
      <4>1. LeftPlace(io, io') /\ ~Owned(io')
        BY <2>1, <3>1, <3>3, Shapes, CompletedPlace DEF Placed, Ended
      <4> QED BY <2>2, <4>1
    <3> QED BY <3>2, <3>3
  <2>4. CASE io' = io \/ (k = "rewind" /\ io' = [io EXCEPT !.frewind = TRUE])
    <3>1. /\ io'.hal = io.hal /\ io'.act = io.act /\ io'.pos = io.pos /\ io'.open = io.open
          /\ io'.frewind => io.frewind \/ k = "rewind"
      BY <2>4, Shapes DEF Placed, IO
    <3>2. PlaceOK'
      BY <1>1, <1>3, <1>5, <1>8, <2>1, <3>1 DEF Placed, PlaceOK, Owned
    <3>3. Mode' = IF Forced THEN "ending"
                  ELSE IF io.hal.read = "file" THEN "running"
                  ELSE IF io.hal.read = "pending" THEN "waiting" ELSE "changing"
      BY <1>1, <1>8, <2>1, <3>1 DEF Mode, InHand, Forced, Busy, Owned
    <3> QED BY <1>4, <1>6, <1>8, <3>1, <3>2, <3>3
  <2>5. CASE k = "bad" /\ io' # io
    <3>1. io' = Answered(io, k)
      BY <1>2, <2>5
    <3>2. LeftPlace(io, io') /\ ~Owned(io')
      BY <2>1, <2>5, <3>1, Shapes, AnsweredPlace, AnsweredOK DEF Placed, Ended
    <3> QED BY <2>2, <3>2
  <2>6. io' = io \/ (k = "rewind" /\ io' = [io EXCEPT !.frewind = TRUE]) \/ k \in {"m2", "m30", "bad"}
    BY <1>2
  <2> QED BY <2>3, <2>4, <2>5, <2>6
<1> QED BY <1>7, <1>8

LEMMA RunFileServes == ASSUME ~Nested, Placed, RunFile PROVE PlacedAndServed
<1>1. /\ pc = "exec" /\ state = "idle" /\ ~Owned(io) /\ pc' = "begin" /\ line'.src = "none"
      /\ line'.n = 0 /\ last' = line.n /\ prog' \in Programs /\ back' = back
      /\ state' = state /\ flags' = flags /\ io' = StartJob(io)
      /\ line.src = "typed" \/ Kind = "run"
  BY DEF RunFile, Owned, NoLine, machine
<1>2. line.src = "typed" /\ line.n = 0
  <2>1. Kind = "run" => line.src = "file"
    BY DEF Kind
  <2> QED BY <1>1, <2>1 DEF Placed, PlaceOK
<1>3. /\ io'.pos = 0 /\ io'.open /\ io'.frewind = io.frewind /\ io'.act = io.hal
      /\ io'.hal.type = "file" /\ io'.hal.read = "file"
  BY <1>1, Shapes DEF Placed, StartJob, IO, Input
<1>4. Owned(io')
  BY <1>1, <1>3, Shapes DEF Placed, Free, IO, Input, Streams, Owned
<1>5. prog' \in Seq(Kinds)
  BY <1>1, FileJobAssumption
<1>6. Len(prog') \in Nat /\ \A k \in Ends(prog') : k \in Nat /\ 0 < k
  BY <1>5 DEF Ends
<1>7. PlaceOK'
  <2>1. "tool" \notin flags'
    BY <1>1 DEF Placed, IInv, LinesOK
  <2> QED BY <1>1, <1>3, <1>4, <1>6, <2>1 DEF Placed, PlaceOK
<1>8. Mode = "manual"
  BY <1>1, <1>2, NoJob
<1>9. Mode' \in {"running", "ending"} /\ NextLine' = 1
  BY <1>1, <1>3, <1>4 DEF Mode, NextLine, InHand, Forced, Busy, Owned
<1> QED
  BY <1>1, <1>2, <1>7, <1>8, <1>9 DEF PlacedAndServed, Serves, J!ServiceNext, J!StartFile

-----------------------------------------------------------------------------
\* Check points.

LEMMA UpdatedPlace ==
  ASSUME NEW i \in IO, NEW s PROVE SamePlace(i, Updated(i, s)[1])
<1>1. Updated(i, s)[1] \in {SuspendRead(i, TRUE), SuspendRead(i, FALSE), i}
  BY DEF Updated
<1> QED BY <1>1, SuspendReadPlace DEF SamePlace

LEMMA UpdatedRead ==
  ASSUME NEW u \in SUBSET Streams, NEW s, io \in IO, Taken(io, u), io.hal.type = "file"
  PROVE  LET a == Updated(io, s) IN
         /\ Owned(a[1]) /\ a[1].hal.type = "file"
         /\ \/ s = "idle" /\ "tool" \in flags /\ a[2] = "tool" /\ a[1].hal.read = "none"
            \/ s = "tool" /\ "start" \in flags /\ a[2] = "idle" /\ a[1].hal.read = "file"
            \/ a[1] = io /\ a[2] = s
<1>1. Owned(Updated(io, s)[1]) /\ Updated(io, s)[1].hal.type = "file"
  BY UpdatedFile, Exclusive
<1>2. CASE s = "idle" /\ "tool" \in flags
  <2>1. Updated(io, s) = <<JobSuspend(io, TRUE), "tool">>
    BY <1>2, SuspendReadOK DEF Updated
  <2>2. Updated(io, s)[1] = JobSuspend(io, TRUE) /\ Updated(io, s)[2] = "tool"
    BY <2>1
  <2>3. Updated(io, s)[1].hal.read = "none"
    BY <2>2, JobSuspends, Exclusive
  <2> QED BY <1>1, <1>2, <2>2, <2>3
<1>3. CASE ~(s = "idle" /\ "tool" \in flags) /\ s = "tool" /\ "start" \in flags /\ ~change
  <2>1. Updated(io, s) = <<JobSuspend(io, FALSE), "idle">>
    BY <1>3, SuspendReadOK DEF Updated
  <2>2. Updated(io, s)[1] = JobSuspend(io, FALSE) /\ Updated(io, s)[2] = "idle"
    BY <2>1
  <2>3. Updated(io, s)[1].hal.read = "file"
    BY <2>2, JobResumes, Exclusive
  <2> QED BY <1>1, <1>3, <2>2, <2>3
<1>4. CASE ~(s = "idle" /\ "tool" \in flags) /\ ~(s = "tool" /\ "start" \in flags /\ ~change)
  <2>1. Updated(io, s) = <<io, s>>
    BY <1>4 DEF Updated
  <2> QED BY <1>1, <2>1
<1> QED BY <1>2, <1>3, <1>4

LEMMA CheckElsewhereServes ==
  ASSUME Placed, Check, Owned(io), io.hal.type # "file" PROVE PlacedAndServed
<1> DEFINE stop == "stop" \in flags
           j == IF stop THEN Stopped(io) ELSE io
           t == IF stop THEN "idle" ELSE state
           a == Updated(j, t)
           next == IF pc \in {"loop", "tooled"} \/ (stop /\ pc = "eol") THEN "loop"
                   ELSE IF pc = "ending" THEN "ending" ELSE "exec"
<1>1. pc # "begin" /\ Taken(io, up) /\ "tool" \notin flags
  BY Shapes DEF Placed, IInv, Check, CheckPoint, Waits, LinesOK, ConnectionsOK
<1>2. j = io
  BY <1>1, Shapes, StoppedOK DEF Placed, IInv, SuspensionOK
<1>3. a[1] = io /\ a[2] \in {state, "idle"}
  BY <1>1, <1>2, Shapes, UpdatedElsewhere DEF Placed
<1>4. /\ state' = a[2]
      /\ line' = IF next = "loop" THEN NoLine ELSE line
      /\ prog' = prog /\ last' = last
      /\ IF tasks = 0
         THEN io' = a[1] /\ pc' = next /\ flags' = {} /\ UNCHANGED <<back, tasks>>
         ELSE IF a[2] = "cycle"
         THEN /\ io' = a[1] /\ flags' = {} /\ pc' = "ending"
              /\ back' = IF pc = "ending" THEN back ELSE next
         ELSE /\ io' = Terminated(a[1], tasks) /\ flags' = {"stop", "keep"}
              /\ pc' = next /\ UNCHANGED back
  BY DEF Check
<1> HIDE DEF j, a
<1>5. /\ line.src # "file" /\ (tasks = 0 => pc = "ending")
      /\ tasks # 0 => tasks = 1 /\ pc \in {"loop", "eol"}
  BY DEF Placed, IInv, ConnectionsOK, TypeOK
<1>6. Mode = "ending" /\ state' # "jog"
  BY <1>3, <1>4, <1>5 DEF Placed, PlaceOK, Mode, InHand, Forced, Busy, Owned
<1>7. line'.src # "file" /\ line'.n = 0 /\ (next = "loop" => line'.src = "none")
      /\ NextLine' = io'.pos + 1 /\ NextLine = io.pos + 1
  BY <1>4, <1>5 DEF Placed, PlaceOK, NoLine, NextLine, InHand
<1>8. CASE io' = io
  <2>1. /\ pc' = "ending"
        /\ back' = "loop" => line'.src = "none"
    <3>1. CASE tasks = 0
      <4>1. next = "ending"
        BY <1>5, <3>1
      <4> HIDE DEF next
      <4> QED BY <1>4, <1>5, <3>1, <4>1 DEF Placed, PlaceOK
    <3>2. CASE tasks # 0 /\ a[2] = "cycle"
      <4> HIDE DEF next
      <4> QED BY <1>4, <1>5, <1>7, <3>2
    <3>3. CASE tasks # 0 /\ a[2] # "cycle"
      <4>1. io' = EndJob(io, FALSE)
        BY <1>3, <1>4, <1>5, <3>3 DEF Terminated
      <4>2. ~Owned(io')
        BY <1>1, <4>1, Shapes, EndJobEnds DEF Placed, Ended
      <4> QED BY <1>8, <4>2
    <3> QED BY <3>1, <3>2, <3>3
  <2> HIDE DEF next
  <2>2. PlaceOK'
    BY <1>4, <1>6, <1>7, <1>8, <2>1 DEF Placed, PlaceOK, Owned
  <2>3. Mode' = "ending"
    BY <1>7, <1>8, <2>1 DEF Mode, InHand, Forced, Busy, Owned
  <2> QED BY <1>4, <1>6, <1>7, <1>8, <2>2, <2>3, Unseen DEF PlacedAndServed
<1>9. CASE io' # io
  <2>1. tasks = 1 /\ io' = EndJob(io, FALSE) /\ pc' = next
    BY <1>3, <1>4, <1>5, <1>9 DEF Terminated
  <2>2. ~Owned(io') /\ LeftPlace(io, io')
    BY <1>1, <2>1, Shapes, EndJobLeaves, EndJobEnds DEF Placed, Ended
  <2>3. next \in {"loop", "exec"}
    BY <1>5, <2>1
  <2> HIDE DEF next
  <2>4. PlaceOK'
    BY <1>4, <1>6, <1>7, <2>1, <2>2, <2>3, PlaceLeft DEF Placed, LeftPlace
  <2>5. Mode' = "manual"
    BY <1>7, <2>2, NoJobNext
  <2> QED BY <1>4, <1>6, <1>7, <2>2, <2>4, <2>5, Finishes DEF PlacedAndServed, LeftPlace
<1> QED BY <1>8, <1>9

LEMMA CheckHereServes ==
  ASSUME Placed, Check, ~(Owned(io) /\ io.hal.type # "file") PROVE PlacedAndServed
<1> DEFINE stop == "stop" \in flags
           j == IF stop THEN Stopped(io) ELSE io
           t == IF stop THEN "idle" ELSE state
           a == Updated(j, t)
           next == IF pc \in {"loop", "tooled"} \/ (stop /\ pc = "eol") THEN "loop"
                   ELSE IF pc = "ending" THEN "ending" ELSE "exec"
<1>1. /\ pc \in {"loop", "eol", "exec", "tooled"} /\ tasks = 0 /\ "reset" \notin flags
      /\ pc = "exec" => Kind \in {"tool", "m2", "m30"} /\ state = "cycle"
  BY DEF Placed, IInv, Check, CheckPoint, Waits, ConnectionsOK, TypeOK
<1>2. /\ state' = a[2] /\ line' = IF next = "loop" THEN NoLine ELSE line
      /\ prog' = prog /\ last' = last /\ back' = back
      /\ io' = a[1] /\ pc' = next /\ flags' = {}
  BY <1>1 DEF Check
<1>3. /\ next = IF pc \in {"loop", "tooled"} \/ (stop /\ pc = "eol") THEN "loop" ELSE "exec"
      /\ next = "exec" => line' = line
      /\ next = "loop" => line'.src = "none" /\ line'.n = 0
  <2>1. next = IF pc \in {"loop", "tooled"} \/ (stop /\ pc = "eol") THEN "loop" ELSE "exec"
    BY <1>1
  <2> HIDE DEF next
  <2> QED BY <1>2, <2>1 DEF NoLine
<1> HIDE DEF next
<1>4. state' # "jog"
  <2>1. \A i : Updated(i, t)[2] \in {t, "tool", "idle"}
    BY DEF Updated
  <2> QED BY <1>2, <2>1 DEF Placed, PlaceOK
<1>5. pc = "exec" => line.src = "file"
  BY <1>1 DEF Kind
<1>6. pc = "eol" /\ line.src = "file" => Owned(io)
  BY DEF Placed, PlaceOK
<1>7. line.src # "file" => line.n = 0
  BY DEF Placed, PlaceOK
<1>8. pc \in {"loop", "tooled"} => line.src = "none"
  BY DEF Placed, PlaceOK
<1>9. ASSUME ~Owned(io'), io'.pos = io.pos, io'.frewind => ~Owned(io) /\ io.frewind,
             ~Owned(io) \/ (stop /\ io.hal.type = "file")
      PROVE  PlacedAndServed
  <2>1. line'.src = "file" => line' = line /\ line.src = "file" /\ pc = "exec" /\ pc' = "exec"
    <3> SUFFICES ASSUME line'.src = "file"
                 PROVE  line' = line /\ line.src = "file" /\ pc = "exec" /\ pc' = "exec"
      OBVIOUS
    <3>1. next = "exec" /\ line' = line /\ pc' = "exec" /\ pc \in {"eol", "exec"}
          /\ ~(stop /\ pc = "eol")
      BY <1>1, <1>2, <1>3
    <3> QED BY <1>6, <1>9, <3>1
  <2>2. line'.src # "file" => line'.n = 0
    BY <1>3, <1>7
  <2>3. PlaceOK'
    BY <1>1, <1>2, <1>3, <1>4, <1>9, <2>1, <2>2, PlaceLeft DEF Placed
  <2>4. CASE pc = "exec"
    <3>1. pc' = "exec" /\ line' = line
      BY <1>2, <1>3, <2>4
    <3>2. Mode = "final" /\ Mode' = "final"
      BY <1>5, <1>9, <2>4, <3>1 DEF Mode, InHand, Forced, Busy, Owned
    <3>3. NextLine' = NextLine
      BY <1>9, <3>1 DEF NextLine, InHand
    <3> QED BY <1>2, <2>3, <3>2, <3>3, Unseen DEF PlacedAndServed
  <2>5. CASE pc # "exec"
    <3>1. line'.src # "file"
      BY <2>1, <2>5
    <3>2. Mode' = "manual" /\ NextLine' = io.pos + 1
      BY <1>9, <3>1, NoJobNext DEF NextLine, InHand
    <3>3. CASE ~Owned(io)
      <4>1. line.src # "file"
        BY <2>5, <3>3 DEF Placed, PlaceOK
      <4>2. Mode = "manual" /\ NextLine = io.pos + 1
        BY <3>3, <4>1, NoJob DEF NextLine, InHand
      <4> QED BY <1>2, <2>3, <3>2, <4>2, Unseen DEF PlacedAndServed
    <3>4. CASE Owned(io)
      <4>1. line.src = "file" => pc = "eol"
        BY <1>1, <1>8, <2>5
      <4>2. Mode = "ending"
        BY <1>9, <3>4, <4>1 DEF Mode, InHand, Forced, Busy, Owned
      <4>3. NextLine \in {io.pos, io.pos + 1} /\ io.pos \in Nat
        BY Shapes DEF Placed, PlaceOK, NextLine, InHand, IO
      <4>4. NextLine' \in {NextLine, NextLine + 1}
        BY <3>2, <4>3
      <4> QED BY <1>2, <2>3, <3>2, <4>2, <4>4, Finishes DEF PlacedAndServed
    <3> QED BY <3>3, <3>4
  <2> QED BY <2>4, <2>5
<1>10. CASE ~Owned(io)
  <2>1. Free(io, up) /\ io \in IO /\ ("keep" \in flags => io.core.by = "none")
    BY <1>10, Shapes DEF Placed, IInv, SuspensionOK
  <2>2. j \in IO /\ Free(j, up) /\ ~Owned(j) /\ SamePlace(io, j)
    BY <1>10, <2>1, Shapes, StoppedOK, StoppedPlace DEF Placed, Ended, SamePlace
  <2>3. ~Owned(a[1]) /\ SamePlace(j, a[1])
    BY <2>2, Shapes, UpdatedFree, UpdatedPlace DEF Placed
  <2> HIDE DEF j, a
  <2> QED BY <1>2, <1>9, <1>10, <2>2, <2>3 DEF SamePlace
<1>11. CASE Owned(io) /\ stop
  <2>1. Taken(io, up) /\ io.hal.type = "file" /\ io \in IO /\ ("keep" \in flags => io.core.by = "none")
    BY <1>1, <1>11, Shapes DEF Placed, IInv, SuspensionOK
  <2>2. j \in IO /\ Free(j, up) /\ ~Owned(j) /\ LeftPlace(io, j)
    BY <1>11, <2>1, Shapes, StoppedOK, StoppedPlace DEF Placed, Ended
  <2>3. ~Owned(a[1]) /\ SamePlace(j, a[1])
    BY <2>2, Shapes, UpdatedFree, UpdatedPlace DEF Placed
  <2> HIDE DEF j, a
  <2> QED BY <1>2, <1>9, <1>11, <2>1, <2>2, <2>3 DEF SamePlace, LeftPlace
<1>12. CASE Owned(io) /\ ~stop
  <2>1. Taken(io, up) /\ io.hal.type = "file" /\ io \in IO /\ j = io /\ t = state
    BY <1>1, <1>12, Shapes DEF Placed
  <2>2. /\ Owned(io') /\ io'.hal.type = "file" /\ SamePlace(io, io')
        /\ \/ state = "idle" /\ "tool" \in flags /\ state' = "tool" /\ io'.hal.read = "none"
           \/ state = "tool" /\ "start" \in flags /\ state' = "idle" /\ io'.hal.read = "file"
           \/ io' = io /\ state' = state
    BY <1>2, <2>1, Shapes, UpdatedRead, UpdatedPlace DEF Placed
  <2> HIDE DEF j, t, a
  <2>3. ~Forced /\ ~Forced'
    BY <1>1, <1>2, <1>12, <2>1, <2>2 DEF Forced
  <2>4. pc' = IF pc \in {"loop", "tooled"} THEN "loop" ELSE "exec"
    BY <1>1, <1>2, <1>3, <1>12
  <2>5. line'.src = line.src /\ line'.n = line.n
    BY <1>2, <1>3, <1>7, <1>8, <1>12
  <2>6. NextLine' = NextLine
    BY <2>2, <2>5 DEF NextLine, InHand, SamePlace
  <2>7. CASE state = "idle" /\ "tool" \in flags /\ state' = "tool" /\ io'.hal.read = "none"
    <3>1. pc = "tooled" /\ line.src = "none" /\ io.open
      BY <1>8, <1>12, <2>1, <2>7 DEF Placed, IInv, LinesOK, PlaceOK
    <3>2. PlaceOK'
      BY <1>2, <1>4, <1>12, <2>1, <2>2, <2>4, <2>5, <2>7, <3>1 DEF Placed, PlaceOK, SamePlace
    <3>3. Mode = "held" /\ Mode' = "held"
      BY <1>12, <2>2, <2>3, <2>4, <2>5, <2>7, <3>1 DEF Mode, InHand, Busy, Owned
    <3> QED BY <1>2, <2>6, <3>2, <3>3, Unseen DEF PlacedAndServed
  <2>8. CASE state = "tool" /\ "start" \in flags /\ state' = "idle" /\ io'.hal.read = "file"
    <3>1. pc # "exec"
      BY <1>1, <2>8
    <3>2. PlaceOK'
      BY <1>2, <1>4, <1>12, <2>1, <2>2, <2>4, <2>5, <2>8, <3>1 DEF Placed, PlaceOK, SamePlace
    <3>3. CASE line.src = "typed"
      <4>1. pc = "eol" /\ Mode = "changing" /\ Mode' = "changing"
        BY <1>1, <1>8, <1>12, <2>2, <2>3, <2>4, <2>5, <3>1, <3>3 DEF Mode, InHand, Busy, Owned
      <4> QED BY <1>2, <2>6, <3>2, <4>1, Unseen DEF PlacedAndServed
    <3>4. CASE line.src # "typed"
      <4>1. line.src = "file" => io.hal.read = "file" /\ pc = "eol"
        BY <1>1, <1>8, <1>12, <3>1 DEF Placed, PlaceOK
      <4>2. Mode \in {"held", "changing", "waiting", "running"} /\ Mode' = "running"
        BY <1>1, <1>12, <2>2, <2>3, <2>4, <2>5, <2>8, <3>1, <3>4, <4>1
           DEF Mode, InHand, Busy, Owned
      <4> QED BY <1>2, <2>6, <3>2, <4>2, Resumes DEF PlacedAndServed
    <3> QED BY <3>3, <3>4
  <2>9. CASE io' = io /\ state' = state
    <3>1. PlaceOK'
      <4>1. line.src = "file" => pc \in {"eol", "exec"}
        BY <1>1, <1>8
      <4>2. pc' = "exec" => pc \in {"eol", "exec"}
        BY <1>1, <2>4
      <4>3. pc = "loop" => pc' = "loop"
        BY <2>4
      <4> QED
        BY <1>1, <1>2, <1>4, <1>8, <1>12, <2>1, <2>4, <2>5, <2>9, <4>1, <4>2, <4>3
           DEF Placed, PlaceOK
    <3>2. CASE pc = "tooled"
      <4>1. io.hal.read = "file" /\ line.src = "none"
        BY <1>8, <1>12, <3>2 DEF Placed, PlaceOK
      <4>2. Mode = "held" /\ Mode' = "running"
        BY <1>12, <2>1, <2>2, <2>3, <2>4, <2>5, <2>9, <3>2, <4>1 DEF Mode, InHand, Busy, Owned
      <4> QED BY <1>2, <2>6, <3>1, <4>2, Resumes DEF PlacedAndServed
    <3>3. CASE pc # "tooled"
      <4>1. line.src = "file" => io.hal.read = "file"
        BY <1>12 DEF Placed, PlaceOK
      <4>2. line.src = "file" => pc \in {"eol", "exec"} /\ pc' = "exec"
        BY <1>1, <1>8, <2>4, <3>3
      <4>3. pc' # "tooled"
        BY <2>4
      <4>4. Mode' = Mode
        BY <1>12, <2>2, <2>3, <2>5, <2>9, <3>3, <4>1, <4>2, <4>3 DEF Mode, InHand, Busy, Owned
      <4> QED BY <1>2, <2>6, <3>1, <4>4, Unseen DEF PlacedAndServed
    <3> QED BY <3>2, <3>3
  <2> QED BY <2>2, <2>7, <2>8, <2>9
<1> QED BY <1>10, <1>11, <1>12

-----------------------------------------------------------------------------
LEMMA StepServes == ASSUME Undisturbed, Straight, Placed, [Next]_vars PROVE PlacedAndServed
<1>1. CASE MainStep
  BY <1>1, ReadLineServes, ReadEndServes, ReadNothingServes, ReadTypedServes, ResetServes,
     CheckElsewhereServes, CheckHereServes, TerminateServes, TakeInputServes,
     ExecuteFileServes, ExecuteTypedServes, RunFileServes DEF MainStep, Undisturbed
<1>2. CASE MotionDone
  BY <1>2, MotionDoneServes
<1>3. CASE Receive
  BY <1>3, RxTextServes, RxAckServes, RxStartServes, RxResetServes, RxStopServes
     DEF Receive, Undisturbed
<1>4. CASE Connect \/ Disconnect
  BY <1>4, ConnectServes, DisconnectServes DEF Undisturbed
<1>5. CASE UNCHANGED vars
  <2>1. /\ io' = io /\ main' = main /\ prog' = prog /\ last' = last /\ flags' = flags
        /\ state' = state
    BY <1>5 DEF vars, machine
  <2> QED BY <2>1, SameServes DEF SamePlace, Placed, PlaceOK
<1> QED BY <1>1, <1>2, <1>3, <1>4, <1>5 DEF Next

\* A job executes the lines of its file in order and each once a pass, ends early
\* only for an error, by an order of the operator or for another connection, and
\* executes nothing while it is held or waits: fs_stream.c does what JobService
\* promises.
THEOREM JobIsServed == ASSUME Undisturbed, Straight PROVE Spec => ImplementsJobService
<1>1. Init => J!ServiceInit
  BY DEF Init, J!ServiceInit, Mode, NextLine, InHand, Busy, NoLine, Native
<1>2. IInv /\ PlaceOK /\ [Next]_vars => PlaceOK' /\ [J!ServiceNext]_(J!svars)
  BY StepServes DEF Placed, PlacedAndServed, Serves
<1> QED BY <1>1, <1>2, PlaceInit, Invariance, PTL DEF Spec, ImplementsJobService, J!ServiceSpec
=============================================================================
