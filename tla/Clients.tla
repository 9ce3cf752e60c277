------------------------------ MODULE Clients ------------------------------
(***************************************************************************)
(* The programs that talk through the event queue: the command-line REPL   *)
(* (clawshake-channels/src/cli_repl.rs), `cron_add` and `cron_remove`      *)
(* (clawshake-broker/src/invoke/cron.rs), `spawn`                          *)
(* (clawshake-broker/src/invoke/spawn.rs), and an agent that listens for   *)
(* all of them.  The queue is the one that EventLog promises and that      *)
(* EventQueue implements: its calls are single steps here.                 *)
(*                                                                         *)
(* The REPL publishes a question on `channel.cli` and takes the next       *)
(* events on `channel.cli.response` for its answer.  Nothing in an event   *)
(* says which question, or which REPL, it answers.                         *)
(*                                                                         *)
(* Left out: the text of questions and answers, the two transports of the  *)
(* REPL beyond the ways their calls fail, and a cron job's period.         *)
(***************************************************************************)
EXTENDS Naturals, Sequences, FiniteSets

CONSTANTS
  Repls,        \* processes of `clawshake chat`
  Agent,        \* the agent that listens and answers
  MaxSize,      \* capacity of the ring buffer (DEFAULT_MAX_SIZE)
  MaxEvents,    \* bound of the model: number of events ever pushed
  MaxDue,       \* bound of the model: ticks of a job that are due at once
  Budgets       \* bounds of the model: <<questions, jobs, tasks>>, one of
                \* which holds in a behaviour

ASSUME ClientsAssumption ==
  /\ Agent \notin Repls
  /\ MaxSize \in Nat \ {0}
  /\ MaxEvents \in Nat
  /\ MaxDue \in Nat
  /\ Budgets \subseteq Nat \X Nat \X Nat

VARIABLES
  log, cursor, handed,  \* the event queue, as in EventLog
  budget,   \* the bounds of this behaviour
  repl,     \* repl[r]: where process r is in repl_loop
  asker,    \* history: asker[q] is the REPL whose q-th question it is
  printed,  \* printed[r]: pairs of an event and the question under which it was printed
  strayed,  \* history: REPLs that came back to the prompt without an answer
  unanswered,  \* questions the agent has been handed and has not answered
  jobs,     \* SchedulerInner::jobs
  worker,   \* worker[j]: the task spawned for job j
  due,      \* due[j]: ticks of j whose time has come and that are not taken
  late,     \* history: late[j], firings of j pushed after it was removed
  excused,  \* history: excused[j], how many of those the abort cannot stop
  task      \* task[t]: the background call with task id t

logVars == <<log, cursor, handed>>
replVars == <<repl, asker, printed, strayed>>
cronVars == <<jobs, worker, due, late, excused>>
talkVars == <<logVars, budget, replVars, unanswered, cronVars, task>>

Highest(n) == CHOOSE m \in {b[n] : b \in Budgets} : \A b \in Budgets : b[n] <= m

Jobs == 1 .. Highest(2)
Tasks == 1 .. Highest(3)

\* An event: its topic, and the question, job or task its data is about.
Event == [topic : {"cli", "cli.response", "cron.fired", "task.done", "task.failed"},
          of : Nat]

Answers == [topic : {"cli.response"}, of : Nat]

\* Topics match by prefix: who listens on "channel" or "channel.cli" is
\* handed its own answers too.
Queue == INSTANCE EventLog WITH
  Listeners <- Repls \cup {Agent},
  TimedListeners <- Repls \cup {Agent},
  Topics <- Event,
  Subscription <- [l \in Repls \cup {Agent} |-> IF l = Agent THEN Event ELSE Answers]

Push(topic, of) ==
  /\ Len(log) < MaxEvents
  /\ Queue!Publish([topic |-> topic, of |-> of])

ClientsInit ==
  /\ Queue!Init
  /\ budget \in Budgets
  /\ repl = [r \in Repls |-> "down"]
  /\ asker = <<>>
  /\ printed = [r \in Repls |-> {}]
  /\ strayed = {}
  /\ unanswered = {}
  /\ jobs = {}
  /\ worker = [j \in Jobs |-> "none"]
  /\ due = [j \in Jobs |-> 0]
  /\ late = [j \in Jobs |-> 0]
  /\ excused = [j \in Jobs |-> 0]
  /\ task = [t \in Tasks |-> "none"]
-----------------------------------------------------------------------------
(* The REPL *)

\* local_get_cursor, remote_get_cursor: a listen without `after` that times
\* out at once.
ReplStarts(r) ==
  /\ repl[r] = "down"
  /\ budget[1] > 0
  /\ Queue!Join(r)
  /\ repl' = [repl EXCEPT ![r] = "prompt"]
  /\ UNCHANGED <<budget, asker, printed, strayed, unanswered, cronVars, task>>

\* A line was read and emitted.  When the call fails, the event may have been
\* pushed all the same, and the REPL does not listen.
ReplAsks(r) ==
  /\ repl[r] = "prompt"
  /\ Len(asker) < budget[1]
  /\ asker' = Append(asker, r)
  /\ \/ /\ Push("cli", Len(asker) + 1)
        /\ \/ /\ repl' = [repl EXCEPT ![r] = "listening"]
              /\ UNCHANGED strayed
           \/ /\ strayed' = strayed \cup {r}
              /\ UNCHANGED repl
     \/ /\ strayed' = strayed \cup {r}
        /\ UNCHANGED <<logVars, repl>>
  /\ UNCHANGED <<budget, printed, unanswered, cronVars, task>>

\* The question that r asked last.
Question(r) ==
  CHOOSE q \in 1 .. Len(asker) :
    asker[q] = r /\ \A p \in 1 .. Len(asker) : asker[p] = r => p <= q

\* Mutant: the answer's cursor is not kept, and the next call resumes from
\* the one before.
BugReplReads(r) ==
  /\ repl[r] = "listening"
  /\ Queue!Owed(r) # {}
  /\ printed' = [printed EXCEPT ![r] = @ \cup (Queue!Owed(r) \X {Question(r)})]
  /\ repl' = [repl EXCEPT ![r] = "prompt"]
  /\ UNCHANGED <<logVars, budget, asker, strayed, unanswered, cronVars, task>>

\* do_listen returned events: all of them are printed.
ReplReads(r) ==
  /\ repl[r] = "listening"
  /\ Queue!Read(r)
  /\ printed' = [printed EXCEPT ![r] = @ \cup (Queue!Owed(r) \X {Question(r)})]
  /\ repl' = [repl EXCEPT ![r] = "prompt"]
  /\ UNCHANGED <<budget, asker, strayed, unanswered, cronVars, task>>

\* do_listen returned nothing after 120 s, or failed and left the cursor alone.
ReplGivesUp(r) ==
  /\ repl[r] = "listening"
  /\ Queue!TimeOut(r) \/ UNCHANGED logVars
  /\ repl' = [repl EXCEPT ![r] = "prompt"]
  /\ strayed' = strayed \cup {r}
  /\ UNCHANGED <<budget, asker, printed, unanswered, cronVars, task>>

\* "exit", end of file, or a signal while it waits.
ReplExits(r) ==
  /\ repl[r] # "down"
  /\ repl' = [repl EXCEPT ![r] = "down"]
  /\ strayed' = IF repl[r] = "listening" THEN strayed \cup {r} ELSE strayed
  /\ UNCHANGED <<logVars, budget, asker, printed, unanswered, cronVars, task>>
-----------------------------------------------------------------------------
(* The agent: a client of `listen` and `emit` *)

AgentStartsOver ==
  /\ Queue!Join(Agent)
  /\ UNCHANGED <<budget, replVars, unanswered, cronVars, task>>

AgentReads ==
  /\ Queue!Read(Agent)
  /\ unanswered' = unanswered \cup {log[i].of : i \in {k \in Queue!Owed(Agent) : log[k].topic = "cli"}}
  /\ UNCHANGED <<budget, replVars, cronVars, task>>

AgentTimesOut ==
  /\ Queue!TimeOut(Agent)
  /\ UNCHANGED <<budget, replVars, unanswered, cronVars, task>>

AgentAnswers(q) ==
  /\ q \in unanswered
  /\ Push("cli.response", q)
  /\ unanswered' = unanswered \ {q}
  /\ UNCHANGED <<budget, replVars, cronVars, task>>
-----------------------------------------------------------------------------
(* Cron jobs *)

\* cron_add: job, task and handle under one lock.  Ids are not used again.
CronAdd(j) ==
  /\ j <= budget[2]
  /\ worker[j] = "none"
  /\ \A k \in 1 .. j - 1 : worker[k] # "none"
  /\ jobs' = jobs \cup {j}
  /\ worker' = [worker EXCEPT ![j] = "ticking"]
  /\ UNCHANGED <<logVars, budget, replVars, unanswered, due, late, excused, task>>

\* The interval has passed once more.  What is not taken in time is kept
\* (MissedTickBehavior::Burst).
CronDue(j) ==
  /\ worker[j] \in {"ticking", "firing", "aborted"}
  /\ due[j] < MaxDue
  /\ due' = [due EXCEPT ![j] = @ + 1]
  /\ excused' = [excused EXCEPT ![j] = IF worker[j] = "aborted" THEN @ + 1 ELSE @]
  /\ UNCHANGED <<logVars, budget, replVars, unanswered, jobs, worker, late, task>>

\* interval.tick() has returned to a task that waited there.
CronTicks(j) ==
  /\ worker[j] = "ticking"
  /\ due[j] > 0
  /\ due' = [due EXCEPT ![j] = @ - 1]
  /\ worker' = [worker EXCEPT ![j] = "firing"]
  /\ UNCHANGED <<logVars, budget, replVars, unanswered, jobs, late, excused, task>>

\* The push.  While a tick is due, tick() is ready at once and the poll goes on
\* to the next push; where the task awaits, an aborted one ends.
CronPushes(j) ==
  /\ worker[j] \in {"firing", "aborted"}
  /\ Push("cron.fired", j)
  /\ late' = [late EXCEPT ![j] = IF j \in jobs THEN @ ELSE @ + 1]
  /\ \/ /\ due[j] > 0
        /\ due' = [due EXCEPT ![j] = @ - 1]
        /\ UNCHANGED worker
     \/ /\ worker' = [worker EXCEPT ![j] = IF @ = "firing" THEN "ticking" ELSE "ended"]
        /\ UNCHANGED due
  /\ UNCHANGED <<budget, replVars, unanswered, jobs, excused, task>>

\* An aborted task has to wait for the lock of the queue: it ends there.
CronEnds(j) ==
  /\ worker[j] = "aborted"
  /\ worker' = [worker EXCEPT ![j] = "ended"]
  /\ UNCHANGED <<logVars, budget, replVars, unanswered, jobs, due, late, excused, task>>

\* Mutant: the handle is dropped, not aborted; the task goes on.
BugCronRemove(j) ==
  /\ j \in jobs
  /\ jobs' = jobs \ {j}
  /\ UNCHANGED <<logVars, budget, replVars, unanswered, worker, due, late, excused, task>>

\* cron_remove: abort() takes effect where the task awaits.  Another thread may
\* be polling it, with this firing and those that are due still to push.
CronRemove(j) ==
  /\ j \in jobs
  /\ jobs' = jobs \ {j}
  /\ \/ /\ worker' = [worker EXCEPT ![j] = "ended"]
        /\ UNCHANGED excused
     \/ /\ worker[j] = "firing"
        /\ worker' = [worker EXCEPT ![j] = "aborted"]
        /\ excused' = [excused EXCEPT ![j] = 1 + due[j]]
  /\ UNCHANGED <<logVars, budget, replVars, unanswered, due, late, task>>
-----------------------------------------------------------------------------
(* Background calls *)

\* spawn: the tool is registered and is not `spawn` itself.
Spawn(t) ==
  /\ t <= budget[3]
  /\ task[t] = "none"
  /\ \A k \in 1 .. t - 1 : task[k] # "none"
  /\ task' = [task EXCEPT ![t] = "running"]
  /\ UNCHANGED <<logVars, budget, replVars, unanswered, cronVars>>

\* router::dispatch has returned to the task.
TaskReturns(t) ==
  /\ task[t] = "running"
  /\ \E outcome \in {"task.done", "task.failed"} :
       task' = [task EXCEPT ![t] = outcome]
  /\ UNCHANGED <<logVars, budget, replVars, unanswered, cronVars>>

\* Mutant: an error ends the task with a log line and no event.
BugTaskPublishes(t) ==
  /\ task[t] \in {"task.done", "task.failed"}
  /\ IF task[t] = "task.failed" THEN UNCHANGED logVars ELSE Push(task[t], t)
  /\ task' = [task EXCEPT ![t] = "over"]
  /\ UNCHANGED <<budget, replVars, unanswered, cronVars>>

TaskPublishes(t) ==
  /\ task[t] \in {"task.done", "task.failed"}
  /\ Push(task[t], t)
  /\ task' = [task EXCEPT ![t] = "over"]
  /\ UNCHANGED <<budget, replVars, unanswered, cronVars>>
-----------------------------------------------------------------------------
Repl(r) ==
  \/ ReplStarts(r)
  \/ ReplAsks(r)
  \/ ReplReads(r)
  \/ ReplGivesUp(r)
  \/ ReplExits(r)

AgentNext ==
  \/ AgentStartsOver
  \/ AgentReads
  \/ AgentTimesOut
  \/ \E q \in unanswered : AgentAnswers(q)

Cron(j) ==
  \/ CronAdd(j)
  \/ CronDue(j)
  \/ CronTicks(j)
  \/ CronPushes(j)
  \/ CronEnds(j)
  \/ CronRemove(j)

Background(t) == Spawn(t) \/ TaskReturns(t) \/ TaskPublishes(t)

ClientsNext ==
  \/ \E r \in Repls : Repl(r)
  \/ AgentNext
  \/ \E j \in Jobs : Cron(j)
  \/ \E t \in Tasks : Background(t)

ClientsSpec == ClientsInit /\ [][ClientsNext]_talkVars

(***************************************************************************)
(* The executor runs a task that can run, and an agent that listens with a *)
(* timeout gets its answer and calls again.  Nothing makes a tool return   *)
(* or a user type.                                                         *)
(***************************************************************************)
ClientsFairness ==
  /\ WF_talkVars(AgentReads \/ AgentTimesOut)
  /\ \A t \in Tasks : WF_talkVars(TaskPublishes(t))

ClientsFairSpec == ClientsSpec /\ ClientsFairness
-----------------------------------------------------------------------------
(***************************************************************************)
(* No REPL prints an event twice; and a REPL that has had the answers to   *)
(* itself, and has never come back to the prompt without one, has printed  *)
(* under each question the answer to it and nothing else.                  *)
(* (repl_loop: the cursor, and the order of emit and listen)               *)
(***************************************************************************)
AnswersFollowQuestions ==
  \A r \in Repls :
    /\ \A p, s \in printed[r] : p[1] = s[1] => p = s
    /\ (r \notin strayed /\ \A q \in 1 .. Len(asker) : asker[q] = r) =>
         /\ \A p \in printed[r] : log[p[1]].of = p[2]
         /\ \A q \in 1 .. Len(asker) :
              (\E p \in printed[r] : p[2] = q) \/ (repl[r] = "listening" /\ q = Len(asker))

(***************************************************************************)
(* After cron_remove has answered, a job whose task waited at that time    *)
(* never fires again.  One that was being polled may still push: the event *)
(* under way, and those of the ticks that it finds due before it waits.    *)
(* (handle_remove: jobs and handles change together, abort)                *)
(***************************************************************************)
RemovedJobsFallSilent ==
  \A j \in Jobs :
    /\ late[j] <= excused[j]
    /\ j \notin jobs => worker[j] \in {"none", "aborted", "ended"}

(***************************************************************************)
(* The outcome of a background call, good or bad, is pushed, and an agent  *)
(* that goes on listening comes past it: it has been handed the event, or  *)
(* lost it as EventLog allows, by a full ring, a timeout or a fresh start. *)
(* (spawn's task pushes one event whatever the tool returned; one whose    *)
(* call panics ends without, and here stays running)                       *)
(***************************************************************************)
TaskIsHeard ==
  \A t \in Tasks :
    task[t] \in {"task.done", "task.failed"} ~>
      (\/ Len(log) = MaxEvents /\ task[t] # "over"
       \/ \E i \in 1 .. Len(log) :
            /\ log[i].topic \in {"task.done", "task.failed"} /\ log[i].of = t
            /\ cursor[Agent] >= i)
=============================================================================
