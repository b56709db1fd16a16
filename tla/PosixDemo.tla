------------------------------- MODULE PosixDemo -------------------------------
(***************************************************************************)
(* The actor demo of posix_demo.c: a dispatcher thread hands jobs to       *)
(* worker threads through message queues, round robin, and ends with a     *)
(* terminate message to each; posix_demo_main opens the queues, starts the *)
(* threads, joins them and closes the queues.                              *)
(*                                                                         *)
(* A job that finds the inbox full for MQUEUE_TIMEOUT_SECONDS is dropped;  *)
(* the terminate message is sent with a call that blocks.  The threads     *)
(* have one priority, so any of them may run next.  Queues and threads are *)
(* FreeRTOS-POSIX's.  Nothing in the repository calls posix_demo_main.     *)
(***************************************************************************)
EXTENDS Naturals, Sequences

CONSTANTS
  NumWorkers,   \* MQUEUE_NUMBER_OF_WORKERS
  NumMsgs,      \* MQUEUE_NUM_MSGS
  InboxSize     \* MQUEUE_MAX_NUMBER_OF_MESSAGES_WORKER

ASSUME NumberAssumption ==
  NumWorkers \in Nat \ {0} /\ NumMsgs \in Nat \ {0} /\ InboxSize \in Nat \ {0}

Worker == 0..(NumWorkers - 1)

VARIABLES
  at,         \* where posix_demo_main is
  i,          \* its loop index
  failed,     \* iStatus is DEMO_ERROR: a queue was not opened
  open,       \* the workers whose inbox is open
  worker,     \* each worker thread: "none", "run" or "end"
  inbox,      \* the message queues
  disp,       \* the dispatcher thread: "none", "jobs", "exits" or "end"
  j,          \* its loop index
  tried,      \* history: jobs meant for each worker
  done,       \* history: jobs each worker has received
  dropped     \* history: jobs for each worker that timed out

mainVars == <<at, i, failed, open>>
jobVars == <<tried, done, dropped>>
vars == <<mainVars, worker, inbox, disp, j, jobVars>>

-----------------------------------------------------------------------------
(* posix_demo_main *)

Init ==
  /\ at = "open" /\ i = 0 /\ failed = FALSE /\ open = {}
  /\ worker = [w \in Worker |-> "none"] /\ inbox = [w \in Worker |-> <<>>]
  /\ disp = "none" /\ j = 0
  /\ tried = [w \in Worker |-> 0] /\ done = tried /\ dropped = tried

\* A loop over the workers: the next of them, or the step after the loop.
LoopTo(next) ==
  IF i + 1 = NumWorkers THEN at' = next /\ i' = 0 ELSE at' = at /\ i' = i + 1

OpenQueue ==
  /\ at = "open"
  /\ open' = open \cup {i}
  /\ LoopTo("create")
  /\ UNCHANGED <<failed, worker, inbox, disp, j, jobVars>>

\* Mutant: the clean-up belongs to the success.
LeaveAtOnce == at' = "done"
AfterFailure == at' = "close"

\* mq_open returns -1: the loop ends, no thread is created.
OpenFails ==
  /\ at = "open"
  /\ failed' = TRUE /\ i' = 0
  /\ AfterFailure
  /\ UNCHANGED <<open, worker, inbox, disp, j, jobVars>>

\* pthread_create: the thread may run at once.
CreateWorker ==
  /\ at = "create"
  /\ worker' = [worker EXCEPT ![i] = "run"]
  /\ LoopTo("dispatch")
  /\ UNCHANGED <<failed, open, inbox, disp, j, jobVars>>

CreateDispatcher ==
  /\ at = "dispatch"
  /\ disp' = "jobs"
  /\ at' = "join"
  /\ UNCHANGED <<i, failed, open, worker, inbox, j, jobVars>>

\* Mutant: the threads are detached.
NoJoin(ended) == TRUE
Join(ended) == ended

JoinWorker ==
  /\ at = "join" /\ Join(worker[i] = "end")
  /\ LoopTo("joinDispatcher")
  /\ UNCHANGED <<failed, open, worker, inbox, disp, j, jobVars>>

JoinDispatcher ==
  /\ at = "joinDispatcher" /\ Join(disp = "end")
  /\ at' = "close"
  /\ UNCHANGED <<i, failed, open, worker, inbox, disp, j, jobVars>>

\* mq_close and mq_unlink, of every slot that is not NULL.  The slot whose mq_open failed
\* is among them: it holds (mqd_t)-1, on which both calls fail without effect.
CloseQueue ==
  /\ at = "close"
  /\ open' = open \ {i}
  /\ LoopTo("done")
  /\ UNCHANGED <<failed, worker, inbox, disp, j, jobVars>>

Main == \/ OpenQueue \/ OpenFails \/ CreateWorker \/ CreateDispatcher
        \/ JoinWorker \/ JoinDispatcher \/ CloseQueue

-----------------------------------------------------------------------------
(* prvDispatcherThread *)

HasRoom(w) == Len(inbox[w]) < InboxSize

\* Mutant: a message goes in front of those that wait.
Overtake(q, m) == <<m>> \o q
Enqueue(q, m) == Append(q, m)

\* The worker of the n-th message.
RoundRobin(n) == n % NumWorkers

NextJob ==
  IF j + 1 = NumMsgs THEN disp' = "exits" /\ j' = 0 ELSE disp' = disp /\ j' = j + 1

\* mq_timedsend puts a job in the inbox.
SendJob ==
  /\ disp = "jobs"
  /\ LET w == RoundRobin(j) IN
       /\ HasRoom(w)
       /\ inbox' = [inbox EXCEPT ![w] = Enqueue(@, "continue")]
       /\ tried' = [tried EXCEPT ![w] = @ + 1]
  /\ NextJob
  /\ UNCHANGED <<mainVars, worker, done, dropped>>

\* mq_timedsend has found the inbox full until its time was over.
DropJob ==
  /\ disp = "jobs"
  /\ LET w == RoundRobin(j) IN
       /\ ~HasRoom(w)
       /\ dropped' = [dropped EXCEPT ![w] = @ + 1]
       /\ tried' = [tried EXCEPT ![w] = @ + 1]
  /\ NextJob
  /\ UNCHANGED <<mainVars, worker, inbox, done>>

\* Mutant: the terminate message times out like a job.
ExitTimesOut(w) == inbox' = IF HasRoom(w) THEN [inbox EXCEPT ![w] = Enqueue(@, "exit")]
                            ELSE inbox
ExitBlocks(w) == HasRoom(w) /\ inbox' = [inbox EXCEPT ![w] = Enqueue(@, "exit")]

\* mq_send of the terminate message blocks until there is room.
SendExit ==
  /\ disp = "exits"
  /\ ExitBlocks(RoundRobin(j))
  /\ IF j + 1 = NumWorkers THEN disp' = "end" /\ j' = j ELSE disp' = disp /\ j' = j + 1
  /\ UNCHANGED <<mainVars, worker, jobVars>>

Dispatcher == SendJob \/ DropJob \/ SendExit

-----------------------------------------------------------------------------
(* prvWorkerThread *)

\* mq_receive blocks until there is a message.
Receive(w) ==
  /\ worker[w] = "run" /\ inbox[w] # <<>>
  /\ inbox' = [inbox EXCEPT ![w] = Tail(@)]
  /\ IF Head(inbox[w]) = "exit"
     THEN worker' = [worker EXCEPT ![w] = "end"] /\ UNCHANGED done
     ELSE done' = [done EXCEPT ![w] = @ + 1] /\ UNCHANGED worker
  /\ UNCHANGED <<mainVars, disp, j, tried, dropped>>

Next == Main \/ Dispatcher \/ \E w \in Worker : Receive(w)

Spec == Init /\ [][Next]_vars

\* The threads have the same priority and share the processor.
FairSpec == /\ Spec /\ WF_vars(Main) /\ WF_vars(Dispatcher)
            /\ \A w \in Worker : WF_vars(Receive(w))

-----------------------------------------------------------------------------
(* Properties *)

\* Every variable stays in its type; no inbox holds more than it has room for.
TypeOK ==
  /\ at \in {"open", "create", "dispatch", "join", "joinDispatcher", "close", "done"}
  /\ i \in Worker /\ failed \in BOOLEAN /\ open \subseteq Worker
  /\ worker \in [Worker -> {"none", "run", "end"}]
  /\ inbox \in [Worker -> Seq({"continue", "exit"})]
  /\ \A w \in Worker : Len(inbox[w]) <= InboxSize
  /\ disp \in {"none", "jobs", "exits", "end"} /\ j \in Nat
  /\ tried \in [Worker -> Nat] /\ done \in [Worker -> Nat] /\ dropped \in [Worker -> Nat]

\* A queue is closed only when no thread will use it again: a worker that still runs and
\* a dispatcher that still sends have all queues open.
ClosedAfterUse ==
  /\ \A w \in Worker : worker[w] = "run" => w \in open
  /\ disp \in {"jobs", "exits"} => open = Worker

\* The terminate message overtakes no job: when a worker has ended, every job meant for
\* it was received or its drop was noticed, and nothing is left in its inbox.
JobsAccounted ==
  \A w \in Worker : worker[w] = "end" =>
    inbox[w] = <<>> /\ tried[w] = done[w] + dropped[w]

\* posix_demo_main leaves no queue open and no thread running, worker or dispatcher, also
\* when a queue could not be opened.
NothingLeft ==
  at = "done" =>
    open = {} /\ disp \in {"none", "end"} /\ \A w \in Worker : worker[w] # "run"

\* Who can take its next step: a thread that does not wait for another.
MainMoves ==
  \/ at \in {"open", "create", "dispatch", "close"}
  \/ at = "join" /\ worker[i] = "end"
  \/ at = "joinDispatcher" /\ disp = "end"
DispatcherMoves == disp = "jobs" \/ (disp = "exits" /\ HasRoom(RoundRobin(j)))
WorkerMoves(w) == worker[w] = "run" /\ inbox[w] # <<>>

SomeoneMoves == MainMoves \/ DispatcherMoves \/ \E w \in Worker : WorkerMoves(w)

\* What is left: the loops of posix_demo_main, the messages the dispatcher has to send,
\* and those a worker has, or may get, to receive.
PhasesLeft ==
  CASE at = "open" -> 6 [] at = "create" -> 5 [] at = "dispatch" -> 4 [] at = "join" -> 3
    [] at = "joinDispatcher" -> 2 [] at = "close" -> 1 [] at = "done" -> 0
MainLeft == PhasesLeft * NumWorkers + (NumWorkers - i)
ToSend ==
  CASE disp \in {"none", "jobs"} -> NumMsgs - j + NumWorkers
    [] disp = "exits" -> NumWorkers - j [] disp = "end" -> 0
ToReceive(w) == 2 * ToSend + Len(inbox[w])

LeftIsNatural ==
  MainLeft \in Nat /\ ToSend \in Nat /\ \A w \in Worker : ToReceive(w) \in Nat

NothingGrows == MainLeft' <= MainLeft /\ ToSend' <= ToSend
                  /\ \A w \in Worker : ToReceive(w)' <= ToReceive(w)
SomethingShrinks == \/ MainLeft' < MainLeft \/ ToSend' < ToSend
                    \/ \E w \in Worker : ToReceive(w)' < ToReceive(w)

\* Until posix_demo_main is done the threads never all wait for each other, in a join, in
\* a receive or in the send of a terminate message; and every step leaves less to do.  So
\* the demo has an end in sight whatever the scheduler does, with no fairness between the
\* threads: any schedule that runs some thread while one can run reaches it.
EndsInAnySchedule ==
  /\ [](LeftIsNatural /\ (at # "done" => SomeoneMoves))
  /\ [][NothingGrows /\ SomethingShrinks]_vars

\* The demo ends, whichever jobs time out: every worker gets its terminate message.
Terminates == <>(at = "done")
=============================================================================
