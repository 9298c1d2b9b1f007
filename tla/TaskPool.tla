------------------------------ MODULE TaskPool ------------------------------
(***************************************************************************)
(* The core tasks of grbllib.c: five singly linked lists threaded through  *)
(* one pool of nodes.  Interrupts and the other core add to the lists, or  *)
(* cancel a delayed task, at any moment outside the critical sections; the *)
(* main thread runs them from task_execute(), which a running task enters  *)
(* again whenever it calls grbl.on_execute_realtime().  A function and its *)
(* argument are one Task.  The millisecond counter wraps.                  *)
(***************************************************************************)
EXTENDS Naturals, Sequences, FiniteSets, Bags

CONSTANTS
    Size,           \* CORE_TASK_POOL_SIZE
    Task, NoFn,     \* functions with their argument; NULL
    Warning,        \* the tasks that are report_warning
    Posts,          \* <<list, task>>: what the main thread adds
    IsrPosts,       \* <<list, task>>: what interrupts and other threads add
    Cancels,        \* the delayed tasks the main thread cancels
    Delays,         \* the delays of delayed tasks, in milliseconds
    Period,         \* number of values of the millisecond counter
    MaxDepth,       \* bound on nested activations of the main thread
    CancelRaces,    \* st_go_idle() may come between PeekDelayed and TakeDelayed
    Resets          \* when a soft reset may arrive: "early", before the startup
                    \* tasks have run, or "late"

Nil == 0
Node == 1..Size
Lists == {"immediate", "delayed", "systick", "booted", "reset"}
Times == 0..(Period - 1)

ASSUME PoolAssumption ==
    /\ Size \in Nat /\ Size >= 1 /\ MaxDepth \in Nat
    /\ NoFn \notin Task /\ Warning \subseteq Task /\ Cancels \subseteq Task
    /\ Posts \cup IsrPosts \subseteq Lists \X Task
    /\ Period \in Nat \ {0} /\ \A d \in Delays : d \in Nat /\ d + 1 < Period \div 2
    /\ CancelRaces \in BOOLEAN /\ Resets \subseteq {"early", "late"}

VARIABLES
    pool,            \* the struct `tasks`
    owed,            \* history: what TaskService owes for the calls made so far
    stack,           \* activations of the main thread, innermost last
    clock,           \* hal.get_elapsed_ticks()
    polled, lock,    \* statics of task_execute: now == last_ms, and lock
    boot,            \* "init": grbl_enter() sets up; "loop"; "up": cold_start is false
    driver_started,
    rt,              \* of sys.rt_exec_state: RESET and RT_COMMAND
    abort            \* sys.abort

vars == <<pool, owed, stack, clock, polled, lock, boot, driver_started, rt, abort>>

-----------------------------------------------------------------------------
\* The pool.  Every operator maps a pool to the pool a locked section leaves.

\* the k-th node of the list that starts at h
Walk(nxt, h) == LET w[k \in 0..Size] ==
                        IF k = 0 THEN h ELSE IF w[k - 1] = Nil THEN Nil ELSE nxt[w[k - 1]]
                IN  w
Chain(p, h) == {Walk(p.next, h)[k] : k \in 0..Size} \ {Nil}

NotAfter(a, b) == a = b \/ (a + Period - b) % Period >= Period \div 2
BeforeUnwrapped(a, b) == a < b
Before(a, b) == NotAfter(a, b) /\ a # b

Free(p, n) == [p EXCEPT !.fn[n] = NoFn, !.next[n] = Nil, !.time[n] = 0,
                        !.last_freed = IF @ = Nil THEN n ELSE @]

FreeNodes(p) == {n \in Node : p.fn[n] = NoFn}
CanAlloc(p) == p.last_freed # Nil \/ FreeNodes(p) # {}
Alloc(p) == IF p.last_freed # Nil THEN p.last_freed
            ELSE CHOOSE n \in FreeNodes(p) : \A m \in FreeNodes(p) : m <= n

\* node n is put behind m, or first when m is Nil
LinkCutsTail(p, l, n, m) == IF m = Nil THEN [p EXCEPT !.next[n] = p.head[l], !.head[l] = n]
                            ELSE [p EXCEPT !.next[m] = n]
Link(p, l, n, m) == IF m = Nil
                    THEN [p EXCEPT !.next[n] = p.head[l], !.head[l] = n]
                    ELSE [p EXCEPT !.next = [@ EXCEPT ![n] = p.next[m], ![m] = n]]

\* the node behind which the list walks of the add functions put a new one
Predecessor(p, l, t) ==
    LET h == p.head[l]
        w == Walk(p.next, h)
        here(k) == /\ w[k] # Nil
                   /\ \/ p.next[w[k]] = Nil
                      \/ l = "delayed" /\ Before(t, p.time[p.next[w[k]]])
    IN  IF h = Nil \/ (l = "delayed" /\ NotAfter(t, p.time[h])) THEN Nil
        ELSE w[CHOOSE k \in 0..Size : here(k) /\ \A j \in 0..Size : here(j) => k <= j]

\* a new node with the data of the request, not yet in a list
FillKeepsFreed(p, n, f, t) == [p EXCEPT !.fn[n] = f, !.time[n] = t, !.next[n] = Nil]
Fill(p, n, f, t) == [p EXCEPT !.fn[n] = f, !.time[n] = t, !.next[n] = Nil,
                              !.last_freed = IF @ = n THEN Nil ELSE @]

\* task_add_immediate, task_add_delayed, task_add_systick, task_run_on_startup, task_run_on_reset
Add(p, l, f, t) ==
    IF ~CanAlloc(p) THEN p
    ELSE LET n == Alloc(p)
             q == Fill(p, n, f, t)
         IN  Link(q, l, n, Predecessor(q, l, t))

Unlink(p, l, n) ==
    IF p.head[l] = n THEN [p EXCEPT !.head[l] = p.next[n]]
    ELSE [p EXCEPT !.next = [m \in Node |-> IF m \in Chain(p, p.head[l]) /\ p.next[m] = n
                                           THEN p.next[n] ELSE p.next[m]]]

\* the entry task_delete(f, data) removes, Nil when there is none
Found(p, f) == LET w == Walk(p.next, p.head["delayed"])
                   is(k) == w[k] # Nil /\ p.fn[w[k]] = f
               IN  IF \E k \in 0..Size : is(k)
                   THEN w[CHOOSE k \in 0..Size : is(k) /\ \A j \in 0..Size : is(j) => k <= j]
                   ELSE Nil

Delete(p, f) == IF Found(p, f) = Nil THEN p
                ELSE Free(Unlink(p, "delayed", Found(p, f)), Found(p, f))

-----------------------------------------------------------------------------
\* What the callers are owed.

Req(l, f, t) == [list |-> l, fn |-> f, time |-> IF l = "delayed" THEN t ELSE 0]

OwedAdd(o, p, l, f, t) == IF CanAlloc(p) THEN o (+) SetToBag({Req(l, f, t)}) ELSE o
OwedDelete(o, p, f) == IF Found(p, f) = Nil THEN o
                       ELSE o (-) SetToBag({Req("delayed", f, p.time[Found(p, f)])})

AfterUnwrapped(d) == clock + d
After(d) == (clock + d) % Period

\* the list a call lands in: startup tasks are immediate once the machine is up,
\* and reset tasks are refused before that
TargetList(l) == IF l = "booted" /\ boot = "up" THEN "immediate" ELSE l

PostTask(l, f, d) ==
    /\ l = "reset" => boot = "up" /\ \A i \in DOMAIN stack : stack[i].pc # "resetfn"
    /\ l = "systick" => boot = "init"        \* by the set-up of drivers and plugins
    /\ IF l = "delayed" THEN d \in Delays ELSE d = 0
    /\ pool' = Add(pool, TargetList(l), f, IF l = "delayed" THEN After(d) ELSE 0)
    /\ owed' = OwedAdd(owed, pool, TargetList(l), f, After(d))

-----------------------------------------------------------------------------
\* The main thread.

Top == stack[Len(stack)]
SetTop(fr) == stack' = [stack EXCEPT ![Len(stack)] = fr]
Pop == stack' = SubSeq(stack, 1, Len(stack) - 1)

FnPcs == {"immfn", "sysfn", "delfn", "bootfn", "resetfn"}
Pcs == FnPcs \cup {"imm", "gate", "sys", "peek", "take", "boot", "reset", "halt"}
Frame(pc, n) == [pc |-> pc, task |-> n, now |-> 0, f |-> NoFn]

At(pc) == stack # <<>> /\ Top.pc = pc
InCode == stack # <<>> => Top.pc \in FnPcs      \* the main loop or a task runs
MayPoll == stack # <<>> => Top.pc \in FnPcs \cup {"halt"}

uCtl == <<clock, polled, lock, boot, driver_started, rt, abort>>

Post(l, f, d) == InCode /\ PostTask(l, f, d) /\ UNCHANGED <<stack, uCtl>>

\* task_delete from the main thread
Cancel(f) == /\ InCode /\ Found(pool, f) # Nil
             /\ pool' = Delete(pool, f)
             /\ owed' = OwedDelete(owed, pool, f)
             /\ UNCHANGED <<stack, uCtl>>

\* grbl.on_execute_realtime() or on_execute_delay(): task_execute up to its first task_run
Execute ==
    /\ MayPoll /\ Len(stack) < MaxDepth
    /\ IF pool.head["immediate"] # Nil /\ driver_started
       THEN /\ stack' = Append(stack, Frame("imm", pool.head["immediate"]))
            /\ pool' = [pool EXCEPT !.head["immediate"] = Nil]
       ELSE stack' = Append(stack, Frame("gate", Nil)) /\ UNCHANGED pool
    /\ UNCHANGED <<owed, uCtl>>

\* task_run: the node is free before its function is called
RunFrom(pc, l, fnpc, next) ==
    /\ At(pc)
    /\ LET n == Top.task IN
         /\ SetTop([Top EXCEPT !.pc = fnpc, !.task = next[n], !.f = pool.fn[n]])
         /\ pool' = Free(pool, n)
         /\ owed' = owed (-) SetToBag({Req(l, pool.fn[n], 0)})
    /\ UNCHANGED uCtl

RunLosesRest(pc, l, fnpc) ==      \* the node is freed before its link is read
    RunFrom(pc, l, fnpc, [n \in Node |-> Nil])
Run(pc, l, fnpc) == RunFrom(pc, l, fnpc, pool.next)

RunImmediate == Run("imm", "immediate", "immfn")
RunBooted == Run("boot", "booted", "bootfn")
RunReset == Run("reset", "reset", "resetfn")

\* the rest of task_execute is entered by one activation at a time, once per tick
Gate ==
    /\ At("gate")
    /\ LET idle == polled \/ pool.head["delayed"] = pool.head["systick"] IN
         IF lock \/ idle THEN Pop /\ UNCHANGED <<lock, polled>>
         ELSE /\ lock' = TRUE /\ polled' = TRUE
              /\ SetTop([Frame(IF pool.head["systick"] # Nil THEN "sys" ELSE "peek",
                               pool.head["systick"]) EXCEPT !.now = clock])
    /\ UNCHANGED <<pool, owed, clock, boot, driver_started, rt, abort>>

PollSystick ==
    /\ At("sys")
    /\ SetTop([Top EXCEPT !.pc = "sysfn", !.f = pool.fn[Top.task]])
    /\ UNCHANGED <<pool, owed, uCtl>>

IsDueNextTick(t, now) == NotAfter(t, (now + 1) % Period)
IsDue(t, now) == NotAfter(t, now)

\* head and time of the first delayed task are read outside the critical section
PeekDelayed ==
    /\ At("peek")
    /\ LET h == pool.head["delayed"] IN
         IF h # Nil /\ IsDue(pool.time[h], Top.now)
         THEN SetTop([Top EXCEPT !.pc = "take", !.task = h]) /\ UNCHANGED lock
         ELSE Pop /\ lock' = FALSE
    /\ UNCHANGED <<pool, owed, clock, polled, boot, driver_started, rt, abort>>

TakeDelayed ==
    /\ At("take")
    /\ LET n == Top.task IN
         /\ pool' = Free(Unlink(pool, "delayed", n), n)
         /\ SetTop([Top EXCEPT !.pc = "delfn", !.task = Nil, !.f = pool.fn[n]])
         /\ owed' = owed (-) SetToBag({Req("delayed", pool.fn[n], pool.time[n])})
    /\ UNCHANGED uCtl

-----------------------------------------------------------------------------
\* Start-up and reset.

\* task_execute_on_startup: what is left to run, in this order, then back or to the endless loop
StartupFrame(h, nextReset) ==
    IF h # Nil THEN Frame("boot", h)
    ELSE IF nextReset # Nil THEN Frame("reset", nextReset) ELSE Frame("halt", Nil)

EndsOr(fr) == IF fr.pc = "halt" /\ driver_started THEN Pop ELSE SetTop(fr)

\* the function at the top returns to the loop that called it
Return ==
    /\ stack # <<>> /\ Top.pc \in FnPcs
    /\ LET n == Top.task
           up == [Top EXCEPT !.f = NoFn]
           to(pc, m) == SetTop([up EXCEPT !.pc = pc, !.task = m])
       IN  CASE Top.pc = "immfn" -> to(IF n # Nil THEN "imm" ELSE "gate", n) /\ UNCHANGED pool
             [] Top.pc = "sysfn" -> /\ to(IF pool.next[n] # Nil THEN "sys" ELSE "peek", pool.next[n])
                                    /\ UNCHANGED pool
             [] Top.pc = "delfn" -> to("peek", Nil) /\ UNCHANGED pool
             [] Top.pc = "bootfn" -> /\ pool' = [pool EXCEPT !.head["booted"] = n]
                                     /\ EndsOr(StartupFrame(n, pool.head["reset"]))
             [] Top.pc = "resetfn" -> /\ pool' = [pool EXCEPT !.head["reset"] = n]
                                      /\ EndsOr(StartupFrame(Nil, n))
    /\ UNCHANGED <<owed, uCtl>>

\* the walk that takes the tasks with a function in fs out of list l and frees them
Drop(p, l, fs) ==
    LET w == Walk(p.next, p.head[l])
        doomed(n) == n # Nil /\ p.fn[n] \in fs
        dropped[k \in 0..Size] ==
            IF k = 0 THEN p
            ELSE IF doomed(w[k - 1]) THEN Free(Unlink(dropped[k - 1], l, w[k - 1]), w[k - 1])
            ELSE dropped[k - 1]
    IN  dropped[Size]

\* a driver that did not start keeps only the warnings
KeepWarnings(p) == Drop(Drop(Drop(p, "booted", Task \ Warning), "delayed", Task), "systick", Task)

ExecuteOnStartup ==
    LET p == IF driver_started THEN pool ELSE KeepWarnings(pool)
        fr == StartupFrame(p.head["booted"], p.head["reset"])
    IN  /\ pool' = p
        /\ stack' = IF fr.pc = "halt" /\ driver_started THEN stack ELSE Append(stack, fr)
        /\ owed' = IF driver_started THEN owed
                   ELSE LET keep == {r \in DOMAIN owed : \/ r.list \in {"immediate", "reset"}
                                                         \/ r.list = "booted" /\ r.fn \in Warning}
                        IN  [r \in keep |-> owed[r]]

\* protocol_exec_rt_system: RESET is served alone, whatever was fetched with it; delayed
\* and systick functions do not call it
ServeRealtime ==
    /\ stack # <<>> => Top.pc \in {"immfn", "bootfn", "resetfn"}
    /\ Len(stack) < MaxDepth /\ boot # "init" /\ rt # {}
    /\ rt' = {}
    /\ IF "RESET" \in rt THEN abort' = TRUE /\ UNCHANGED <<pool, stack, owed>>
       ELSE ExecuteOnStartup /\ UNCHANGED abort
    /\ UNCHANGED <<clock, polled, lock, boot, driver_started>>

DriverStarts == /\ boot = "init" /\ stack = <<>>
                /\ boot' = "loop" /\ driver_started' \in BOOLEAN
                /\ UNCHANGED <<pool, owed, stack, clock, polled, lock, rt, abort>>

ColdStartSilent == {}
ColdStartFlags == {"RT_COMMAND"}

\* the end of protocol_main_loop's start checks on a cold start
ColdStartEnds == /\ boot = "loop" /\ stack = <<>>
                 /\ boot' = "up" /\ rt' = rt \cup ColdStartFlags
                 /\ UNCHANGED <<pool, owed, stack, clock, polled, lock, driver_started, abort>>

\* back in grbl_enter's loop: sys is cleared, the reset tasks are announced
Reinitialize == /\ abort /\ boot = "up" /\ stack = <<>>
                /\ abort' = FALSE
                /\ rt' = IF pool.head["reset"] # Nil THEN {"RT_COMMAND"} ELSE {}
                /\ UNCHANGED <<pool, owed, stack, clock, polled, lock, boot, driver_started>>

-----------------------------------------------------------------------------
\* Interrupts and other threads.

IsrPost(l, f, d) == PostTask(l, f, d) /\ UNCHANGED <<stack, uCtl>>

\* st_go_idle in the step interrupt: cancel and start the deenergize task again
StGoIdle(f, d) ==
    /\ CancelRaces \/ ~\E i \in DOMAIN stack : stack[i].pc = "take"
    /\ LET p == Delete(pool, f) IN
         /\ pool' = Add(p, "delayed", f, After(d))
         /\ owed' = OwedAdd(OwedDelete(owed, pool, f), p, "delayed", f, After(d))
    /\ UNCHANGED <<stack, uCtl>>

SoftReset == /\ boot # "init" /\ "RESET" \notin rt
             /\ (IF boot = "up" /\ "RT_COMMAND" \notin rt THEN "late" ELSE "early") \in Resets
             /\ rt' = rt \cup {"RESET"}
             /\ UNCHANGED <<pool, owed, stack, clock, polled, lock, boot, driver_started, abort>>

\* Bound: neither an activation that will go on nor a due task is left behind by more
\* than a tick, so that differences stay below half the counter (2^31 ms in the code).
KeepsUp == /\ \A n \in Chain(pool, pool.head["delayed"]) : ~Before(pool.time[n], clock)
           /\ \A i \in DOMAIN stack :
                 /\ stack[i].pc \in {"sys", "sysfn", "peek", "take", "delfn"}
                 /\ \A j \in DOMAIN stack : stack[j].pc = "halt" => j < i
                 => stack[i].now = clock

Tick == /\ KeepsUp
        /\ clock' = (clock + 1) % Period /\ polled' = FALSE
        /\ UNCHANGED <<pool, owed, stack, lock, boot, driver_started, rt, abort>>

-----------------------------------------------------------------------------
Init == /\ pool = [fn |-> [n \in Node |-> NoFn], next |-> [n \in Node |-> Nil],
                   time |-> [n \in Node |-> 0], head |-> [l \in Lists |-> Nil],
                   last_freed |-> Nil]
        /\ owed = EmptyBag /\ stack = <<>>
        /\ clock = 0 /\ polled = TRUE /\ lock = FALSE
        /\ boot = "init" /\ driver_started = FALSE /\ rt = {} /\ abort = FALSE

TaskSteps == \/ RunImmediate \/ RunBooted \/ RunReset
             \/ Gate \/ PollSystick \/ PeekDelayed \/ TakeDelayed

Next == \/ \E lf \in Posts, d \in Delays \cup {0} : Post(lf[1], lf[2], d)
        \/ \E f \in Cancels : Cancel(f)
        \/ Execute \/ TaskSteps \/ Return
        \/ ServeRealtime \/ DriverStarts \/ ColdStartEnds \/ Reinitialize
        \/ \E lf \in IsrPosts, d \in Delays \cup {0} : IsrPost(lf[1], lf[2], d)
        \/ \E f \in Cancels, d \in Delays : StGoIdle(f, d)
        \/ SoftReset \/ Tick

Spec == Init /\ [][Next]_vars

-----------------------------------------------------------------------------
\* Properties

\* the list entries a running loop of the main thread has taken off a list
Detached(pcs) == UNION {Chain(pool, stack[i].task) : i \in {j \in DOMAIN stack : stack[j].pc \in pcs}}
Runs(pc) == \E i \in DOMAIN stack : stack[i].pc = pc

\* the nodes that hold requests of list l
Held(l) == CASE l = "immediate" -> Chain(pool, pool.head[l]) \cup Detached({"imm", "immfn"})
             [] l = "booted" /\ Runs("bootfn") -> Detached({"bootfn"})
             [] l = "reset" /\ Runs("resetfn") -> Detached({"resetfn"})
             [] OTHER -> Chain(pool, pool.head[l])

\* The pool, the statics and the frames keep their types.
TypeOK ==
    /\ pool \in [fn : [Node -> Task \cup {NoFn}], next : [Node -> Node \cup {Nil}],
                 time : [Node -> Times], head : [Lists -> Node \cup {Nil}],
                 last_freed : Node \cup {Nil}]
    /\ \A i \in DOMAIN stack : stack[i] \in [pc : Pcs, task : Node \cup {Nil}, now : Times,
                                              f : Task \cup {NoFn}]
    /\ Len(stack) <= MaxDepth
    /\ clock \in Times /\ polled \in BOOLEAN /\ lock \in BOOLEAN
    /\ boot \in {"init", "loop", "up"} /\ driver_started \in BOOLEAN
    /\ rt \subseteq {"RESET", "RT_COMMAND"} /\ abort \in BOOLEAN

Copies(r, b) == IF r \in DOMAIN b THEN b[r] ELSE 0

\* What the callers are owed is what the lists hold, request by request: an
\* accepted task is neither lost nor doubled when lists are spliced, detached
\* by task_execute or walked while interrupts append to them.
Accounted ==
    \A r \in DOMAIN owed \cup {Req(l, pool.fn[n], pool.time[n]) : l \in Lists, n \in Node} :
        r.fn \in Task =>
            Copies(r, owed) = Cardinality({n \in Held(r.list) :
                                               Req(r.list, pool.fn[n], pool.time[n]) = r})

\* A node is in use exactly when one list holds it, and last_freed never hands
\* out a node in use: nothing leaks, no two lists share a node.
PoolPartition ==
    /\ \A n \in Node : pool.fn[n] # NoFn <=> \E l \in Lists : n \in Held(l)
    /\ \A l, m \in Lists : l # m => Held(l) \cap Held(m) = {}
    /\ pool.last_freed # Nil => pool.fn[pool.last_freed] = NoFn

\* The delayed list stays sorted across the wrap of the counter, so that a due
\* task is never hidden behind one that is not.
DelayedInOrder ==
    \A n \in Chain(pool, pool.head["delayed"]) :
        pool.next[n] # Nil => NotAfter(pool.time[n], pool.time[pool.next[n]])

\* the functions the first k activations are running
Functions(st) == LET fns[k \in 0..Len(st)] ==
                         IF k = 0 THEN <<>>
                         ELSE IF st[k].pc \in FnPcs THEN Append(fns[k - 1], st[k].f)
                         ELSE fns[k - 1]
                 IN  fns
Running == Functions(stack)[Len(stack)]

TS == INSTANCE TaskService WITH running <- Running

\* The lists implement the service: a function runs only while a call for it is
\* owed, so not after task_delete, not twice, and a delayed one not early.
ImplementsTaskService == TS!ServiceSpec

\* The main thread keeps running: it goes on with its set-up, comes back to its loop,
\* polls from there, its functions return, and the counter counts.
Fairness == /\ WF_vars(TaskSteps) /\ WF_vars(Tick)
            /\ SF_vars(DriverStarts) /\ SF_vars(ColdStartEnds) /\ SF_vars(Reinitialize)
            /\ SF_vars(ServeRealtime /\ stack = <<>>)
            /\ SF_vars(Execute /\ (stack = <<>> \/ At("halt")))
            /\ \A d \in 1..MaxDepth : SF_vars(Return /\ Len(stack) = d)

FairSpec == Spec /\ Fairness

Owes(l, f) == \E r \in DOMAIN owed : r.list = l /\ r.fn = f
Starts(f) == \E i \in DOMAIN stack : stack[i].pc \in FnPcs /\ stack[i].f = f

\* A task accepted for immediate execution runs once the driver is up.
ImmediateTasksRun == \A f \in Task : Owes("immediate", f) ~> (Starts(f) \/ (boot # "init" /\ ~driver_started))

\* A delayed task runs or is cancelled, however the list changes meanwhile.
DelayedTasksRun == \A f \in Task : Owes("delayed", f) ~> (Starts(f) \/ ~Owes("delayed", f))

\* A task enqueued for start-up runs after the boot sequence is completed.
StartupTasksRun == \A f \in Task : Owes("booted", f) ~> (Starts(f) \/ ~Owes("booted", f))

\* What main() and the drivers queue while they start is executed, at once or when
\* the machine has started.
StartupCompletes == ImmediateTasksRun /\ StartupTasksRun
=============================================================================
