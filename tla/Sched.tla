------------------------------- MODULE Sched --------------------------------
(***************************************************************************)
(* The scheduler of sched/: the task table, the FCFS and the CFS way to    *)
(* pick a task, sched_add_task and the loop over sched_exec.  The loop is  *)
(* the thread that sched_init starts, or the application's own where there *)
(* are no threads; tasks are added by another thread, or by the loop's own *)
(* thread between calls and from callbacks.                                *)
(*                                                                         *)
(* Time stamps are kept as the ticks left until them, due; a call of       *)
(* sched_exec that runs nothing and a scan of the table take no tick.      *)
(***************************************************************************)
EXTENDS Integers

CONSTANTS
  TaskMax,        \* SCHED_TASK_MAX
  Cfgs,           \* task configurations: id, priority, freq, max, delay, cb
  TicksPerSecond, \* by e_tick
  Modes,          \* the kinds of scheduler and user: [type, threads]
  Late,           \* a bound: the loop lets no task wait longer than this
  NoTask

Slots == 0..TaskMax-1

ASSUME SchedAssumption ==
  /\ TaskMax \in Nat \ {0} /\ Late \in Nat /\ NoTask \notin Slots
  /\ \A c \in Cfgs : c.freq > 0 /\ {c.id, c.priority, c.max, c.delay} \subseteq Nat

VARIABLES
  mode,                  \* e_type, and whether tasks are added by another thread
  num,                   \* task_num
  cfg, state, cnt, due,  \* per slot: configuration, e_state, exec_cnt, next_exec_ts
  tree, prev,            \* algo_ctx: the tree of ready tasks, prev_idx
  exec,                  \* the loop: pc, the task picked, iteration and start of a scan
  add                    \* sched_add_task: pc, and the place found in the tree

vars == <<mode, num, cfg, state, cnt, due, tree, prev, exec, add>>

T == INSTANCE RbTree WITH Nodes <- Slots, Null <- NoTask

Cfs == mode.type = "cfs"

Init ==
  /\ mode \in Modes
  /\ num = 0 /\ prev = 0 /\ tree = T!EmptyTree
  /\ cfg = [t \in Slots |-> NoTask] /\ state = [t \in Slots |-> "unused"]
  /\ cnt = [t \in Slots |-> 0] /\ due = [t \in Slots |-> 0]
  /\ exec = [pc |-> "idle", task |-> NoTask, i |-> 0, from |-> 0]
  /\ add = [pc |-> "idle", place |-> <<NoTask, "left">>]

(* sched_hz2tick, cut to whole ticks.                                      *)
Period(c) == TicksPerSecond \div c.freq

(* sched_cfs_task_cmp(a, b) < 0, for keys of due date and priority.        *)
Key(t) == <<due[t], cfg[t].priority>>
Less(k, l) == k[1] < l[1] \/ (k[1] = l[1] /\ k[2] < l[2])

(* Where sched_cfs_insert_task hangs a key: behind all it is not before.   *)
Place(k) ==
  LET side(t) == IF Less(k, Key(t)) THEN "left" ELSE "right"
      free[t \in Slots] == LET next == tree.kid[side(t)][t]
                           IN  IF next = NoTask THEN <<t, side(t)>> ELSE free[next]
  IN  IF tree.root = NoTask THEN <<NoTask, "left">> ELSE free[tree.root]

Linked(t, place) == T!rb_link_node(tree, t, place[1], place[2])

(* A task number out of range is silently not inserted.                    *)
Listed(c) == c.id < TaskMax

(* Without a second thread one side only moves while the other rests.      *)
MayAdd  == mode.threads \/ exec.pc \in {"idle", "call"}
MayExec == mode.threads \/ add.pc = "idle"

-----------------------------------------------------------------------------
(* sched_add_task: the slot is filled, counted, and for CFS inserted.      *)
AddFill(c) ==
  /\ add.pc = "idle" /\ MayAdd /\ num < TaskMax
  /\ cfg' = [cfg EXCEPT ![num] = c] /\ state' = [state EXCEPT ![num] = "running"]
  /\ due' = [due EXCEPT ![num] = c.delay]
  /\ add' = [add EXCEPT !.pc = "count"]
  /\ UNCHANGED <<mode, num, cnt, tree, prev, exec>>

AddCount ==
  /\ add.pc = "count"
  /\ num' = num + 1
  /\ add' = [add EXCEPT !.pc = IF Cfs /\ Listed(cfg[num]) THEN "find" ELSE "idle"]
  /\ UNCHANGED <<mode, cfg, state, cnt, due, tree, prev, exec>>

AddFind ==
  /\ add.pc = "find"
  /\ add' = [pc |-> "link", place |-> Place(Key(num - 1))]
  /\ UNCHANGED <<mode, num, cfg, state, cnt, due, tree, prev, exec>>

AddLink ==
  /\ add.pc = "link"
  /\ tree' = Linked(num - 1, add.place)
  /\ add' = [add EXCEPT !.pc = "color"]
  /\ UNCHANGED <<mode, num, cfg, state, cnt, due, prev, exec>>

AddColor ==
  /\ add.pc = "color"
  /\ tree' = T!rb_insert_color[tree, num - 1]
  /\ add' = [pc |-> "idle", place |-> <<NoTask, "left">>]
  /\ UNCHANGED <<mode, num, cfg, state, cnt, due, prev, exec>>

-----------------------------------------------------------------------------
(* sched_exec: a task is picked, and only if it has a callback and is due  *)
(* does the call go on.                                                    *)
Due(t) == cfg[t].cb /\ due[t] <= 0

ExecStart ==
  /\ exec.pc = "idle" /\ MayExec
  /\ LET first == T!rb_first(tree)
     IN  exec' = IF ~Cfs THEN [exec EXCEPT !.pc = "scan", !.i = 0, !.from = prev]
                 ELSE IF first # NoTask /\ Due(first)
                 THEN [exec EXCEPT !.pc = "take", !.task = first] ELSE exec
  /\ UNCHANGED <<mode, num, cfg, state, cnt, due, tree, prev, add>>

(* A due date is not read while the task runs, and stays 0.                *)
Called(t) ==
  /\ exec' = [pc |-> "call", task |-> t, i |-> 0, from |-> 0]
  /\ due' = [due EXCEPT ![t] = 0]

(* A mistake: the task stays in the tree while it runs.                    *)
ExecTakeLinked ==
  /\ exec.pc = "take" /\ Called(exec.task)
  /\ UNCHANGED <<mode, num, cfg, state, cnt, tree, prev, add>>

(* sched_cfs_remove_task: only a node without parent and colour is not in. *)
ExecTake ==
  /\ exec.pc = "take" /\ Called(exec.task)
  /\ tree' = IF T!Black(tree, exec.task) \/ tree.up[exec.task] # NoTask
             THEN T!Forget(T!rb_erase(tree, exec.task), exec.task) ELSE tree
  /\ UNCHANGED <<mode, num, cfg, state, cnt, prev, add>>

(* A mistake: the next scan starts at the task that ran.                   *)
ExecScanAgain ==
  /\ exec.pc = "scan"
  /\ LET t == (exec.from + exec.i) % num
         idle == [pc |-> "idle", task |-> NoTask, i |-> 0, from |-> 0]
     IN  IF exec.i >= num THEN exec' = idle /\ UNCHANGED <<prev, due>>
         ELSE IF state[t] # "running"
         THEN exec' = [exec EXCEPT !.i = exec.i + 1] /\ UNCHANGED <<prev, due>>
         ELSE /\ prev' = t
              /\ IF Due(t) THEN Called(t) ELSE exec' = idle /\ UNCHANGED due
  /\ UNCHANGED <<mode, num, cfg, state, cnt, tree, add>>

(* One round of sched_fcfs_get_task; it stops at the first RUNNING task,   *)
(* due or not.                                                             *)
ExecScan ==
  /\ exec.pc = "scan"
  /\ LET t == (exec.from + exec.i) % num
         idle == [pc |-> "idle", task |-> NoTask, i |-> 0, from |-> 0]
     IN  IF exec.i >= num THEN exec' = idle /\ UNCHANGED <<prev, due>>
         ELSE IF state[t] # "running"
         THEN exec' = [exec EXCEPT !.i = exec.i + 1] /\ UNCHANGED <<prev, due>>
         ELSE /\ prev' = t + 1
              /\ IF Due(t) THEN Called(t) ELSE exec' = idle /\ UNCHANGED due
  /\ UNCHANGED <<mode, num, cfg, state, cnt, tree, add>>

(* A mistake: the task is inserted before its due date is renewed.         *)
AgainStale(t) ==
  /\ due' = [due EXCEPT ![t] = Period(cfg[t])]
  /\ tree' = IF Cfs THEN T!rb_insert_color[Linked(t, Place(<<due[t], cfg[t].priority>>)), t] ELSE tree

(* The task is due again a period from now.                                *)
Again(t) ==
  LET key == <<Period(cfg[t]), cfg[t].priority>>
  IN  /\ due' = [due EXCEPT ![t] = key[1]]
      /\ tree' = IF Cfs THEN T!rb_insert_color[Linked(t, Place(key)), t] ELSE tree

(* The callback returns; the executions of a task without limit, max = 0,  *)
(* are not counted here.                                                   *)
ExecReturn ==
  LET t == exec.task
      c == cfg[t]
  IN  /\ exec.pc = "call" /\ MayExec
      /\ cnt' = [cnt EXCEPT ![t] = IF c.max = 0 THEN 0 ELSE cnt[t] + 1]
      /\ exec' = [pc |-> "idle", task |-> NoTask, i |-> 0, from |-> 0]
      /\ IF c.max = 0 \/ cnt[t] + 1 < c.max
         THEN Again(t) /\ UNCHANGED state
         ELSE state' = [state EXCEPT ![t] = "dead"] /\ UNCHANGED <<due, tree>>
      /\ UNCHANGED <<mode, num, cfg, prev, add>>

(* Time passes; it is bounded by the task that waits longest for its turn. *)
Counted(t) == t < num \/ (t = num /\ add.pc = "count")
Aging(t)   == state[t] = "running" /\ Counted(t) /\ ~(exec.pc = "call" /\ exec.task = t)

Tick ==
  /\ exec.pc # "scan"
  /\ \A t \in Slots : Aging(t) /\ cfg[t].cb /\ (Cfs => Listed(cfg[t])) => due[t] > -Late
  /\ due' = [t \in Slots |-> IF Aging(t) /\ due[t] >= -Late THEN due[t] - 1 ELSE due[t]]
  /\ UNCHANGED <<mode, num, cfg, state, cnt, tree, prev, exec, add>>

Add  == AddCount \/ AddFind \/ AddLink \/ AddColor
Exec == ExecStart \/ ExecTake \/ ExecScan \/ ExecReturn

Next == (\E c \in Cfgs : AddFill(c)) \/ Add \/ Exec \/ Tick

Spec == Init /\ [][Next]_vars /\ WF_vars(Add) /\ WF_vars(Exec) /\ SF_vars(Tick)

-----------------------------------------------------------------------------
Below[t \in Slots \cup {NoTask}] ==
  IF t = NoTask THEN {} ELSE {t} \cup Below[tree.kid["left"][t]] \cup Below[tree.kid["right"][t]]
InTree == Below[tree.root]

Running(t) == exec.pc = "call" /\ exec.task = t
Adding(t)  == add.pc \in {"find", "link"} /\ t = num - 1

(* RUNNING means ready or running, as the enumeration says: under CFS the  *)
(* tasks in the tree are the RUNNING ones but for the one whose callback   *)
(* runs and the one being added - and those with an id out of range, which *)
(* sched_cfs_insert_task turns away without a word.  A task that slips out *)
(* of the tree never runs again.                                           *)
ReadyTasksAreQueued ==
  Cfs => \A t \in 0..num - 1 :
           t \in InTree
             <=> state[t] = "running" /\ ~Running(t) /\ ~Adding(t) /\ Listed(cfg[t])

(* Under CFS the task that is started is one that nobody ready precedes    *)
(* in due date and priority: keys only change outside of the tree, so its  *)
(* order is never stale.                                                   *)
StartsTheEarliest ==
  [][(Cfs /\ exec.pc = "take" /\ exec'.pc = "call")
      => \A t \in InTree : ~Less(Key(t), Key(exec.task))]_vars

(* Every task that is not dead keeps getting its turn, whatever the others *)
(* do, under both schedulers and beside sched_add_task.  Two exceptions    *)
(* under CFS: an id out of range, and any task once one without a callback *)
(* is in the tree, which is picked for ever when it comes first.           *)
Wanting(t) == t < num /\ state[t] = "running" /\ cfg[t].cb /\ (Cfs => Listed(cfg[t]))
Stuck      == Cfs /\ \E t \in InTree : ~cfg[t].cb

EachTaskGetsItsTurn ==
  \A t \in Slots : Wanting(t) ~> Running(t) \/ Stuck
=============================================================================
