---------------------------- MODULE PosixDemo_proofs ----------------------------
(***************************************************************************)
(* Proofs about PosixDemo, for any number of workers and messages and any  *)
(* size of the inboxes: the queues outlive their use, no job is lost to    *)
(* the terminate message, and nothing is left behind.                      *)
(***************************************************************************)
EXTENDS PosixDemo, TLAPS

\* What posix_demo_main has done at each place.
Lifetime ==
  /\ at = "open" => open = 0..(i - 1) /\ disp = "none" /\ \A w \in Worker : worker[w] = "none"
  /\ at = "create" => open = Worker /\ disp = "none" /\ \A w \in Worker : i <= w => worker[w] = "none"
  /\ at = "dispatch" => open = Worker /\ disp = "none" /\ i = 0
  /\ at = "join" => open = Worker /\ disp # "none" /\ \A w \in Worker : w < i => worker[w] = "end"
  /\ at = "joinDispatcher" => open = Worker /\ i = 0 /\ \A w \in Worker : worker[w] = "end"
  /\ at = "close" => \A w \in Worker : w < i => w \notin open
  /\ at = "done" => open = {}
  /\ at \in {"close", "done"} => disp \in {"none", "end"} /\ \A w \in Worker : worker[w] # "run"

\* The workers whose terminate message was sent, and those who have it in their inbox,
\* where it is the last one.
ExitSent == {w \in Worker : (disp = "exits" /\ w < j) \/ disp = "end"}
ExitWaits == {w \in ExitSent : worker[w] # "end"}

Mail ==
  /\ disp = "exits" => j \in Worker
  /\ \A w \in Worker :
       /\ worker[w] = "end" => w \in ExitSent /\ inbox[w] = <<>>
       /\ w \in ExitWaits => 0 < Len(inbox[w])
       /\ \A k \in 1..Len(inbox[w]) :
            inbox[w][k] = "exit" <=> w \in ExitWaits /\ k = Len(inbox[w])

\* Every job is received, dropped or in the inbox.
Jobs ==
  \A w \in Worker :
    /\ w \in ExitWaits => tried[w] + 1 = done[w] + dropped[w] + Len(inbox[w])
    /\ w \notin ExitWaits => tried[w] = done[w] + dropped[w] + Len(inbox[w])

Inv == TypeOK /\ Lifetime /\ Mail /\ Jobs

-----------------------------------------------------------------------------
(* Numbers and sequences *)

LEMMA ModSmall == ASSUME NEW m \in Nat \ {0}, NEW x \in 0..(m - 1) PROVE x % m = x
OBVIOUS

LEMMA ModRange == ASSUME NEW m \in Nat \ {0}, NEW x \in Nat PROVE x % m \in 0..(m - 1)
OBVIOUS

LEMMA CountFacts ==
  ASSUME NEW a \in Nat, NEW b \in Nat, NEW c \in Nat
  PROVE  /\ c # 0 /\ c # 1 => 0 < c - 1
         /\ (a + 1) + b + (c - 1) = a + b + c
         /\ \A d \in Nat : d + 1 = a + b + 1 => d = a + b + 0
OBVIOUS

LEMMA WorkerFacts ==
  /\ NumWorkers \in Nat \ {0} /\ 0 \in Worker
  /\ \A w \in Worker : w \in Nat /\ w < NumWorkers /\ (w + 1 # NumWorkers => w + 1 \in Worker)
BY NumberAssumption DEF Worker

LEMMA RobinFacts ==
  /\ \A n \in Nat : RoundRobin(n) \in Worker
  /\ \A n \in Worker : RoundRobin(n) = n
BY WorkerFacts, ModRange, ModSmall DEF RoundRobin, Worker

Message == {"continue", "exit"}

LEMMA AppendFacts ==
  ASSUME NEW q \in Seq(Message), NEW m \in Message
  PROVE  /\ Append(q, m) \in Seq(Message)
         /\ Len(q) \in Nat /\ Len(Append(q, m)) = Len(q) + 1
         /\ Append(q, m)[Len(q) + 1] = m
         /\ \A k \in 1..Len(q) : Append(q, m)[k] = q[k]
OBVIOUS

LEMMA TailFacts ==
  ASSUME NEW q \in Seq(Message), q # <<>>
  PROVE  /\ Tail(q) \in Seq(Message) /\ Head(q) = q[1] /\ Len(q) \in Nat \ {0}
         /\ Len(Tail(q)) = Len(q) - 1 /\ (Len(q) = 1 => Tail(q) = <<>>)
         /\ \A k \in 1..(Len(q) - 1) : Tail(q)[k] = q[k + 1]
OBVIOUS

-----------------------------------------------------------------------------
(* Each part is kept *)

LEMMA InitInv == Init => Inv
<1> SUFFICES ASSUME Init PROVE Inv
  OBVIOUS
<1>1. TypeOK
  BY WorkerFacts, NumberAssumption DEF Init, TypeOK
<1>2. Lifetime
  BY WorkerFacts DEF Init, Lifetime
<1>3. Mail /\ Jobs
  BY WorkerFacts DEF Init, Mail, Jobs, ExitWaits, ExitSent
<1> QED
  BY <1>1, <1>2, <1>3 DEF Inv

LEMMA LoopFacts ==
  ASSUME NEW next, LoopTo(next), i \in Worker
  PROVE  /\ i' \in Worker
         /\ \/ i + 1 = NumWorkers /\ at' = next /\ i' = 0
            \/ i + 1 # NumWorkers /\ at' = at /\ i' = i + 1
BY WorkerFacts DEF LoopTo

\* What a message sent does to an inbox, and what a receive does.
LEMMA SendFacts ==
  ASSUME TypeOK, NEW w \in Worker, NEW m \in Message, HasRoom(w),
         inbox' = [inbox EXCEPT ![w] = Enqueue(@, m)]
  PROVE  /\ inbox' \in [Worker -> Seq(Message)]
         /\ \A v \in Worker : Len(inbox'[v]) <= InboxSize
         /\ \A v \in Worker : v # w => inbox'[v] = inbox[v]
         /\ Len(inbox'[w]) = Len(inbox[w]) + 1 /\ Len(inbox[w]) \in Nat
         /\ inbox'[w][Len(inbox[w]) + 1] = m
         /\ \A k \in 1..Len(inbox[w]) : inbox'[w][k] = inbox[w][k]
<1>1. inbox \in [Worker -> Seq(Message)] /\ inbox[w] \in Seq(Message)
  BY DEF TypeOK, Message
<1>2. inbox' = [inbox EXCEPT ![w] = Append(inbox[w], m)]
  BY DEF Enqueue
<1>3. inbox'[w] = Append(inbox[w], m) /\ \A v \in Worker : v # w => inbox'[v] = inbox[v]
  BY <1>1, <1>2
<1>4. /\ Append(inbox[w], m) \in Seq(Message)
      /\ Len(inbox[w]) \in Nat /\ Len(Append(inbox[w], m)) = Len(inbox[w]) + 1
      /\ Append(inbox[w], m)[Len(inbox[w]) + 1] = m
      /\ \A k \in 1..Len(inbox[w]) : Append(inbox[w], m)[k] = inbox[w][k]
  BY <1>1, AppendFacts
<1>5. inbox' \in [Worker -> Seq(Message)]
  BY <1>1, <1>2, <1>4
<1>6. \A v \in Worker : Len(inbox'[v]) <= InboxSize
  BY <1>3, <1>4, NumberAssumption DEF TypeOK, HasRoom
<1> QED
  BY <1>3, <1>4, <1>5, <1>6

LEMMA ReceiveFacts ==
  ASSUME TypeOK, NEW w \in Worker, Receive(w)
  PROVE  /\ inbox' \in [Worker -> Seq(Message)]
         /\ \A v \in Worker : v # w => inbox'[v] = inbox[v]
         /\ Len(inbox[w]) \in Nat \ {0} /\ Len(inbox'[w]) = Len(inbox[w]) - 1
         /\ Len(inbox[w]) = 1 => inbox'[w] = <<>>
         /\ \A k \in 1..(Len(inbox[w]) - 1) : inbox'[w][k] = inbox[w][k + 1]
         /\ Head(inbox[w]) = inbox[w][1]
<1>1. inbox \in [Worker -> Seq(Message)] /\ inbox[w] \in Seq(Message) /\ inbox[w] # <<>>
  BY DEF TypeOK, Message, Receive
<1>2. inbox' = [inbox EXCEPT ![w] = Tail(inbox[w])]
  BY DEF Receive
<1>3. inbox'[w] = Tail(inbox[w]) /\ \A v \in Worker : v # w => inbox'[v] = inbox[v]
  BY <1>1, <1>2
<1>4. /\ Tail(inbox[w]) \in Seq(Message) /\ Head(inbox[w]) = inbox[w][1]
      /\ Len(inbox[w]) \in Nat \ {0}
      /\ Len(Tail(inbox[w])) = Len(inbox[w]) - 1 /\ (Len(inbox[w]) = 1 => Tail(inbox[w]) = <<>>)
      /\ \A k \in 1..(Len(inbox[w]) - 1) : Tail(inbox[w])[k] = inbox[w][k + 1]
  BY <1>1, TailFacts
<1>5. inbox' \in [Worker -> Seq(Message)]
  BY <1>1, <1>2, <1>4
<1> QED
  BY <1>3, <1>4, <1>5

LEMMA TypeStep == TypeOK /\ Mail /\ [Next]_vars => TypeOK'
<1> SUFFICES ASSUME TypeOK, Mail, [Next]_vars PROVE TypeOK'
  OBVIOUS
<1>1. CASE OpenQueue \/ CloseQueue
  <2>1. i' \in Worker /\ at' \in {"open", "create", "close", "done"}
    BY <1>1, LoopFacts DEF OpenQueue, CloseQueue, TypeOK
  <2> QED
    BY <1>1, <2>1 DEF OpenQueue, CloseQueue, TypeOK, jobVars
<1>2. CASE OpenFails
  BY <1>2, WorkerFacts DEF OpenFails, AfterFailure, TypeOK, jobVars
<1>3. CASE CreateWorker \/ JoinWorker
  <2>1. i' \in Worker /\ at' \in {"create", "dispatch", "join", "joinDispatcher"}
    BY <1>3, LoopFacts DEF CreateWorker, JoinWorker, TypeOK
  <2> QED
    BY <1>3, <2>1 DEF CreateWorker, JoinWorker, TypeOK, jobVars
<1>4. CASE CreateDispatcher \/ JoinDispatcher
  BY <1>4 DEF CreateDispatcher, JoinDispatcher, TypeOK, jobVars
<1>5. CASE SendJob
  <2>1. RoundRobin(j) \in Worker /\ HasRoom(RoundRobin(j)) /\ "continue" \in Message
        /\ inbox' = [inbox EXCEPT ![RoundRobin(j)] = Enqueue(@, "continue")]
    BY <1>5, RobinFacts DEF SendJob, TypeOK, Message
  <2>2. inbox' \in [Worker -> Seq(Message)] /\ \A v \in Worker : Len(inbox'[v]) <= InboxSize
    BY <2>1, SendFacts
  <2>3. tried' \in [Worker -> Nat]
    BY <1>5, <2>1 DEF SendJob, TypeOK
  <2>4. disp' \in {"jobs", "exits"} /\ j' \in Nat
    BY <1>5 DEF SendJob, NextJob, TypeOK
  <2> QED
    BY <1>5, <2>2, <2>3, <2>4 DEF SendJob, TypeOK, mainVars, Message
<1>6. CASE DropJob
  <2>1. RoundRobin(j) \in Worker
    BY RobinFacts DEF TypeOK
  <2>2. tried' \in [Worker -> Nat] /\ dropped' \in [Worker -> Nat]
    BY <1>6, <2>1 DEF DropJob, TypeOK
  <2>3. disp' \in {"jobs", "exits"} /\ j' \in Nat
    BY <1>6 DEF DropJob, NextJob, TypeOK
  <2> QED
    BY <1>6, <2>2, <2>3 DEF DropJob, TypeOK, mainVars
<1>7. CASE SendExit
  <2>1. j \in Worker /\ RoundRobin(j) = j
    BY <1>7, RobinFacts DEF SendExit, Mail
  <2>2. HasRoom(j) /\ inbox' = [inbox EXCEPT ![j] = Enqueue(@, "exit")] /\ "exit" \in Message
    BY <1>7, <2>1 DEF SendExit, ExitBlocks, Message
  <2>3. inbox' \in [Worker -> Seq(Message)] /\ \A v \in Worker : Len(inbox'[v]) <= InboxSize
    BY <2>1, <2>2, SendFacts
  <2>4. disp' \in {"exits", "end"} /\ j' \in Nat
    BY <1>7 DEF SendExit, TypeOK
  <2> QED
    BY <1>7, <2>3, <2>4 DEF SendExit, TypeOK, mainVars, jobVars, Message
<1>8. CASE \E w \in Worker : Receive(w)
  <2>1. PICK w \in Worker : Receive(w)
    BY <1>8
  <2>2. inbox' \in [Worker -> Seq(Message)] /\ \A v \in Worker : Len(inbox'[v]) <= InboxSize
    <3>1. /\ inbox' \in [Worker -> Seq(Message)]
          /\ \A v \in Worker : v # w => inbox'[v] = inbox[v]
          /\ Len(inbox[w]) \in Nat \ {0} /\ Len(inbox'[w]) = Len(inbox[w]) - 1
      BY <2>1, ReceiveFacts
    <3>2. \A v \in Worker : Len(inbox[v]) <= InboxSize
      BY DEF TypeOK
    <3>3. Len(inbox'[w]) <= InboxSize
      BY <3>1, <3>2, NumberAssumption
    <3> QED
      BY <3>1, <3>2, <3>3
  <2>3. worker' \in [Worker -> {"none", "run", "end"}] /\ done' \in [Worker -> Nat]
    <3>1. worker \in [Worker -> {"none", "run", "end"}] /\ done \in [Worker -> Nat]
      BY DEF TypeOK
    <3>2. CASE worker' = [worker EXCEPT ![w] = "end"] /\ done' = done
      BY <3>1, <3>2
    <3>3. CASE done' = [done EXCEPT ![w] = @ + 1] /\ worker' = worker
      BY <3>1, <3>3
    <3> QED
      BY <2>1, <3>2, <3>3 DEF Receive
  <2> QED
    BY <2>1, <2>2, <2>3 DEF Receive, TypeOK, mainVars, Message
<1>9. CASE UNCHANGED vars
  BY <1>9 DEF vars, mainVars, jobVars, TypeOK
<1> QED
  BY <1>1, <1>2, <1>3, <1>4, <1>5, <1>6, <1>7, <1>8, <1>9 DEF Next, Main, Dispatcher

LEMMA LifetimeStep == TypeOK /\ Lifetime /\ [Next]_vars => Lifetime'
<1> SUFFICES ASSUME TypeOK, Lifetime, [Next]_vars PROVE Lifetime'
  OBVIOUS
<1>0. i \in Worker /\ i \in Nat /\ i < NumWorkers
  BY WorkerFacts DEF TypeOK
<1>1. CASE OpenQueue
  <2>1. /\ open' = open \cup {i} /\ at = "open" /\ UNCHANGED <<worker, disp>>
        /\ open = 0..(i - 1) /\ disp = "none" /\ \A w \in Worker : worker[w] = "none"
    BY <1>1 DEF OpenQueue, Lifetime
  <2>2. open' = 0..i
    BY <1>0, <2>1
  <2>3. CASE i + 1 = NumWorkers /\ at' = "create" /\ i' = 0
    BY <1>0, <2>1, <2>2, <2>3 DEF Lifetime, Worker
  <2>4. CASE i + 1 # NumWorkers /\ at' = at /\ i' = i + 1
    BY <1>0, <2>1, <2>2, <2>4 DEF Lifetime, Worker
  <2> QED
    BY <1>0, <1>1, <2>3, <2>4, LoopFacts DEF OpenQueue
<1>2. CASE OpenFails
  BY <1>2 DEF OpenFails, AfterFailure, Lifetime, Worker
<1>3. CASE CreateWorker
  <2>1. \A w \in Worker : w # i => worker'[w] = worker[w]
    BY <1>0, <1>3 DEF CreateWorker, TypeOK
  <2>2. at = "create" /\ UNCHANGED <<open, disp>> /\ open = Worker /\ disp = "none"
        /\ \A w \in Worker : i <= w => worker[w] = "none"
    BY <1>3 DEF CreateWorker, Lifetime
  <2>3. CASE i + 1 = NumWorkers /\ at' = "dispatch" /\ i' = 0
    BY <2>2, <2>3 DEF Lifetime
  <2>4. CASE i + 1 # NumWorkers /\ at' = at /\ i' = i + 1
    BY <1>0, <2>1, <2>2, <2>4, WorkerFacts DEF Lifetime
  <2> QED
    BY <1>0, <1>3, <2>3, <2>4, LoopFacts DEF CreateWorker
<1>4. CASE CreateDispatcher
  <2>1. at' = "join" /\ disp' = "jobs" /\ i = 0 /\ UNCHANGED <<i, open, worker>> /\ open = Worker
    BY <1>4 DEF CreateDispatcher, Lifetime
  <2>2. \A w \in Worker : ~(w < 0)
    BY WorkerFacts
  <2> QED
    BY <2>1, <2>2 DEF Lifetime
<1>5. CASE JoinWorker
  <2>1. at = "join" /\ worker[i] = "end" /\ UNCHANGED <<open, disp, worker>> /\ open = Worker
        /\ disp # "none" /\ \A w \in Worker : w < i => worker[w] = "end"
    BY <1>5 DEF JoinWorker, Join, Lifetime
  <2>2. \A w \in Worker : w < i + 1 => worker[w] = "end"
    BY <1>0, <2>1, WorkerFacts
  <2>3. CASE i + 1 = NumWorkers /\ at' = "joinDispatcher" /\ i' = 0
    BY <2>1, <2>2, <2>3, WorkerFacts DEF Lifetime
  <2>4. CASE i + 1 # NumWorkers /\ at' = at /\ i' = i + 1
    BY <2>1, <2>2, <2>4 DEF Lifetime
  <2> QED
    BY <1>0, <1>5, <2>3, <2>4, LoopFacts DEF JoinWorker
<1>6. CASE JoinDispatcher
  BY <1>6, WorkerFacts DEF JoinDispatcher, Join, Lifetime
<1>7. CASE CloseQueue
  <2>1. at = "close" /\ open' = open \ {i} /\ UNCHANGED <<worker, disp>>
        /\ disp \in {"none", "end"} /\ (\A w \in Worker : worker[w] # "run")
        /\ \A w \in Worker : w < i => w \notin open
    BY <1>7 DEF CloseQueue, Lifetime
  <2>2. \A w \in Worker : w < i + 1 => w \notin open'
    BY <1>0, <2>1, WorkerFacts
  <2>3. CASE i + 1 = NumWorkers /\ at' = "done" /\ i' = 0
    <3>1. open' = {}
      BY <2>1, <2>2, <2>3, WorkerFacts DEF TypeOK
    <3> QED
      BY <2>1, <2>3, <3>1 DEF Lifetime
  <2>4. CASE i + 1 # NumWorkers /\ at' = at /\ i' = i + 1
    BY <2>1, <2>2, <2>4 DEF Lifetime
  <2> QED
    BY <1>0, <1>7, <2>3, <2>4, LoopFacts DEF CloseQueue
<1>8. CASE SendJob \/ DropJob \/ SendExit
  BY <1>8 DEF SendJob, DropJob, SendExit, NextJob, mainVars, Lifetime
<1>9. CASE \E w \in Worker : Receive(w)
  <2>1. PICK w \in Worker : Receive(w)
    BY <1>9
  <2>2. /\ UNCHANGED <<at, i, open, disp>> /\ worker[w] = "run"
        /\ \A v \in Worker : worker'[v] = worker[v] \/ (v = w /\ worker'[v] = "end")
    BY <2>1 DEF Receive, mainVars, TypeOK
  <2>3. at \notin {"open", "joinDispatcher", "close", "done"}
    BY <2>1, <2>2 DEF Lifetime
  <2>4. at = "create" => \A v \in Worker : i <= v => worker'[v] = "none"
    BY <2>2 DEF Lifetime
  <2>5. at = "join" => \A v \in Worker : v < i => worker'[v] = "end"
    BY <2>2 DEF Lifetime
  <2> QED
    BY <2>2, <2>3, <2>4, <2>5 DEF Lifetime
<1>10. CASE UNCHANGED vars
  BY <1>10 DEF vars, mainVars, Lifetime
<1> QED
  BY <1>1, <1>2, <1>3, <1>4, <1>5, <1>6, <1>7, <1>8, <1>9, <1>10 DEF Next, Main, Dispatcher

\* The mail of one worker; a step that changes neither its inbox nor its thread nor what
\* was sent to it keeps it.
MailOf(w) ==
  /\ worker[w] = "end" => w \in ExitSent /\ inbox[w] = <<>>
  /\ w \in ExitWaits => 0 < Len(inbox[w])
  /\ \A k \in 1..Len(inbox[w]) :
       inbox[w][k] = "exit" <=> w \in ExitWaits /\ k = Len(inbox[w])

JobsOf(w) ==
  /\ w \in ExitWaits => tried[w] + 1 = done[w] + dropped[w] + Len(inbox[w])
  /\ w \notin ExitWaits => tried[w] = done[w] + dropped[w] + Len(inbox[w])

LEMMA MailParts ==
  /\ Mail <=> (disp = "exits" => j \in Worker) /\ \A w \in Worker : MailOf(w)
  /\ Jobs <=> \A w \in Worker : JobsOf(w)
BY DEF Mail, Jobs, MailOf, JobsOf

LEMMA SameMail ==
  ASSUME NEW w, MailOf(w), JobsOf(w), inbox'[w] = inbox[w], worker'[w] = worker[w],
         w \in ExitSent' <=> w \in ExitSent, UNCHANGED <<tried, done, dropped>>
  PROVE  MailOf(w)' /\ JobsOf(w)'
BY DEF MailOf, JobsOf, ExitWaits

LEMMA MailStep == Inv /\ [Next]_vars => (Mail /\ Jobs)'
<1> SUFFICES ASSUME Inv, [Next]_vars PROVE (Mail /\ Jobs)'
  OBVIOUS
<1> USE DEF Inv
<1>0. /\ disp = "exits" => j \in Worker
      /\ \A w \in Worker : MailOf(w) /\ JobsOf(w)
  BY MailParts
<1>N. \A w \in Worker : /\ tried[w] \in Nat /\ done[w] \in Nat /\ dropped[w] \in Nat
                        /\ inbox[w] \in Seq(Message) /\ Len(inbox[w]) \in Nat
  BY DEF TypeOK, Message
<1>Q. SUFFICES /\ disp' = "exits" => j' \in Worker
               /\ \A w \in Worker : MailOf(w)' /\ JobsOf(w)'
  BY DEF Mail, Jobs, MailOf, JobsOf
<1>1. CASE OpenQueue \/ OpenFails \/ JoinWorker \/ JoinDispatcher \/ CloseQueue \/ UNCHANGED vars
  <2>1. UNCHANGED <<worker, inbox, disp, j, tried, done, dropped>>
    BY <1>1 DEF OpenQueue, OpenFails, JoinWorker, JoinDispatcher, CloseQueue, vars, mainVars, jobVars
  <2> QED
    BY <1>0, <2>1, SameMail DEF ExitSent
<1>2. CASE CreateWorker
  <2>1. /\ UNCHANGED <<inbox, disp, j, tried, done, dropped>> /\ i \in Worker
        /\ worker[i] = "none" /\ worker'[i] = "run" /\ disp = "none"
        /\ \A w \in Worker : w # i => worker'[w] = worker[w]
    <3>1. i \in Worker /\ i <= i /\ worker \in [Worker -> {"none", "run", "end"}]
      BY WorkerFacts DEF TypeOK, Worker
    <3>2. worker' = [worker EXCEPT ![i] = "run"] /\ at = "create"
          /\ UNCHANGED <<inbox, disp, j, tried, done, dropped>>
      BY <1>2 DEF CreateWorker, jobVars
    <3>3. worker[i] = "none" /\ disp = "none"
      BY <3>1, <3>2 DEF Lifetime
    <3> QED
      BY <3>1, <3>2, <3>3
  <2>2. \A w \in Worker : w \notin ExitSent /\ w \notin ExitSent'
    BY <2>1 DEF ExitSent
  <2> QED
    BY <1>0, <2>1, <2>2 DEF MailOf, JobsOf, ExitWaits
<1>3. CASE CreateDispatcher
  <2>1. disp = "none" /\ disp' = "jobs" /\ UNCHANGED <<inbox, worker, tried, done, dropped>>
    BY <1>3 DEF CreateDispatcher, Lifetime, jobVars
  <2>2. \A w \in Worker : w \notin ExitSent /\ w \notin ExitSent'
    BY <2>1 DEF ExitSent
  <2> QED
    BY <1>0, <2>1, <2>2, SameMail
<1>4. CASE SendJob
  <2>0. PICK t \in Worker : t = RoundRobin(j)
    BY RobinFacts DEF TypeOK
  <2>1. /\ t \in Worker /\ HasRoom(t) /\ "continue" \in Message /\ disp = "jobs"
        /\ inbox' = [inbox EXCEPT ![t] = Enqueue(@, "continue")]
        /\ tried' = [tried EXCEPT ![t] = @ + 1] /\ UNCHANGED <<worker, done, dropped>>
    BY <1>4, <2>0 DEF SendJob, Message
  <2>2. disp' = "jobs" \/ (disp' = "exits" /\ j' = 0)
    BY <1>4 DEF SendJob, NextJob
  <2>3. \A w \in Worker : w \notin ExitSent /\ w \notin ExitSent'
    BY <2>1, <2>2, WorkerFacts DEF ExitSent
  <2>4. /\ \A v \in Worker : v # t => inbox'[v] = inbox[v]
        /\ Len(inbox'[t]) = Len(inbox[t]) + 1
        /\ inbox'[t][Len(inbox[t]) + 1] = "continue"
        /\ \A k \in 1..Len(inbox[t]) : inbox'[t][k] = inbox[t][k]
    BY <2>1, SendFacts
  <2>5. tried'[t] = tried[t] + 1 /\ \A v \in Worker : v # t => tried'[v] = tried[v]
    BY <2>1 DEF TypeOK
  <2>6. \A v \in Worker : v # t => MailOf(v)' /\ JobsOf(v)'
    BY <1>0, <2>1, <2>3, <2>4, <2>5 DEF MailOf, JobsOf, ExitWaits
  <2>7. MailOf(t)'
    <3>1. worker'[t] # "end" /\ t \notin ExitWaits /\ t \notin ExitWaits'
      BY <1>0, <2>1, <2>3 DEF MailOf, ExitWaits
    <3>2. \A k \in 1..Len(inbox'[t]) : inbox'[t][k] # "exit"
      BY <1>0, <1>N, <2>1, <2>4, <3>1 DEF MailOf
    <3> QED
      BY <3>1, <3>2 DEF MailOf
  <2>8. JobsOf(t)'
    <3>1. tried[t] = done[t] + dropped[t] + Len(inbox[t]) /\ t \notin ExitWaits'
      BY <1>0, <2>3 DEF JobsOf, ExitWaits
    <3>2. done'[t] = done[t] /\ dropped'[t] = dropped[t]
      BY <2>1
    <3>3. tried'[t] = done'[t] + dropped'[t] + Len(inbox'[t])
      BY <1>N, <2>4, <2>5, <3>1, <3>2
    <3> QED
      BY <3>1, <3>3 DEF JobsOf
  <2>9. disp' = "exits" => j' \in Worker
    BY <2>2, WorkerFacts
  <2> QED
    BY <2>6, <2>7, <2>8, <2>9
<1>5. CASE DropJob
  <2>0. PICK t \in Worker : t = RoundRobin(j)
    BY RobinFacts DEF TypeOK
  <2>1. /\ t \in Worker /\ disp = "jobs" /\ UNCHANGED <<worker, inbox, done>>
        /\ tried' = [tried EXCEPT ![t] = @ + 1] /\ dropped' = [dropped EXCEPT ![t] = @ + 1]
    BY <1>5, <2>0 DEF DropJob
  <2>2. disp' = "jobs" \/ (disp' = "exits" /\ j' = 0)
    BY <1>5 DEF DropJob, NextJob
  <2>3. \A w \in Worker : w \notin ExitSent /\ w \notin ExitSent'
    BY <2>1, <2>2, WorkerFacts DEF ExitSent
  <2>4. /\ tried'[t] = tried[t] + 1 /\ dropped'[t] = dropped[t] + 1
        /\ \A v \in Worker : v # t => tried'[v] = tried[v] /\ dropped'[v] = dropped[v]
    BY <2>1 DEF TypeOK
  <2>5. \A v \in Worker : MailOf(v)'
    BY <1>0, <2>1, <2>3 DEF MailOf, ExitWaits
  <2>6. \A v \in Worker : v # t => JobsOf(v)'
    BY <1>0, <2>1, <2>3, <2>4 DEF JobsOf, ExitWaits
  <2>7. JobsOf(t)'
    BY <1>0, <1>N, <2>1, <2>3, <2>4 DEF JobsOf, ExitWaits
  <2>8. disp' = "exits" => j' \in Worker
    BY <2>2, WorkerFacts
  <2> QED
    BY <2>5, <2>6, <2>7, <2>8
<1>6. CASE SendExit
  <2>0. disp = "exits" /\ j \in Worker /\ RoundRobin(j) = j
    BY <1>0, <1>6, RobinFacts DEF SendExit
  <2>1. PICK t \in Worker : t = j
    BY <2>0
  <2>2. /\ HasRoom(t) /\ "exit" \in Message /\ inbox' = [inbox EXCEPT ![t] = Enqueue(@, "exit")]
        /\ UNCHANGED <<worker, tried, done, dropped>>
    BY <1>6, <2>0, <2>1 DEF SendExit, ExitBlocks, Message, jobVars
  <2>3. /\ \A v \in Worker : v # t => inbox'[v] = inbox[v]
        /\ Len(inbox'[t]) = Len(inbox[t]) + 1
        /\ inbox'[t][Len(inbox[t]) + 1] = "exit"
        /\ \A k \in 1..Len(inbox[t]) : inbox'[t][k] = inbox[t][k]
    BY <2>1, <2>2, SendFacts
  <2>4. \/ disp' = "end" /\ j + 1 = NumWorkers
        \/ disp' = "exits" /\ j' = j + 1 /\ j + 1 # NumWorkers
    BY <1>6, <2>0 DEF SendExit
  <2>5. /\ t \notin ExitSent /\ t \in ExitSent'
        /\ \A v \in Worker : v # t => (v \in ExitSent' <=> v \in ExitSent)
    BY <2>0, <2>1, <2>4, WorkerFacts DEF ExitSent
  <2>6. \A v \in Worker : v # t => MailOf(v)' /\ JobsOf(v)'
    BY <1>0, <2>2, <2>3, <2>5, SameMail
  <2>7. worker'[t] # "end" /\ t \notin ExitWaits /\ t \in ExitWaits'
    BY <1>0, <2>1, <2>2, <2>5 DEF MailOf, ExitWaits
  <2>8. MailOf(t)'
    <3>1. \A k \in 1..Len(inbox'[t]) : inbox'[t][k] = "exit" <=> k = Len(inbox'[t])
      <4>1. SUFFICES ASSUME NEW k \in 1..Len(inbox'[t])
                     PROVE  inbox'[t][k] = "exit" <=> k = Len(inbox'[t])
        OBVIOUS
      <4>2. CASE k = Len(inbox[t]) + 1
        BY <2>3, <4>2
      <4>3. CASE k # Len(inbox[t]) + 1
        <5>1. k \in 1..Len(inbox[t]) /\ k # Len(inbox'[t])
          BY <1>N, <2>1, <2>3, <4>3
        <5>2. inbox[t][k] # "exit"
          BY <1>0, <2>7, <5>1 DEF MailOf
        <5> QED
          BY <2>3, <5>1, <5>2
      <4> QED
        BY <4>2, <4>3
    <3>2. 0 < Len(inbox'[t])
      BY <1>N, <2>1, <2>3
    <3> QED
      BY <2>7, <3>1, <3>2 DEF MailOf
  <2>9. JobsOf(t)'
    BY <1>0, <1>N, <2>1, <2>2, <2>3, <2>7 DEF JobsOf
  <2>10. disp' = "exits" => j' \in Worker
    BY <2>0, <2>4, WorkerFacts
  <2> QED
    BY <2>6, <2>8, <2>9, <2>10
<1>7. CASE \E w \in Worker : Receive(w)
  <2>1. PICK w \in Worker : Receive(w)
    BY <1>7
  <2>2. /\ \A v \in Worker : v # w => inbox'[v] = inbox[v]
        /\ Len(inbox[w]) \in Nat \ {0} /\ Len(inbox'[w]) = Len(inbox[w]) - 1
        /\ Len(inbox[w]) = 1 => inbox'[w] = <<>>
        /\ \A k \in 1..(Len(inbox[w]) - 1) : inbox'[w][k] = inbox[w][k + 1]
        /\ Head(inbox[w]) = inbox[w][1]
    BY <2>1, ReceiveFacts
  <2>3. /\ UNCHANGED <<disp, j, tried, dropped>> /\ worker[w] = "run"
        /\ \/ inbox[w][1] = "exit" /\ worker' = [worker EXCEPT ![w] = "end"] /\ done' = done
           \/ inbox[w][1] # "exit" /\ done' = [done EXCEPT ![w] = @ + 1] /\ worker' = worker
    BY <2>1, <2>2 DEF Receive
  <2>4. \A v \in Worker : v # w => worker'[v] = worker[v] /\ done'[v] = done[v]
    BY <2>3 DEF TypeOK
  <2>5. \A v \in Worker : v \in ExitSent' <=> v \in ExitSent
    BY <2>3 DEF ExitSent
  <2>6. \A v \in Worker : v # w => MailOf(v)' /\ JobsOf(v)'
    BY <1>0, <2>2, <2>3, <2>4, <2>5 DEF MailOf, JobsOf, ExitWaits
  <2>7. MailOf(w)' /\ JobsOf(w)'
    <3>1. CASE inbox[w][1] = "exit" /\ worker' = [worker EXCEPT ![w] = "end"] /\ done' = done
      <4>1. worker'[w] = "end"
        BY <3>1 DEF TypeOK
      <4>2. w \in ExitWaits /\ 1 = Len(inbox[w])
        <5>1. 1 \in 1..Len(inbox[w]) /\ MailOf(w)
          BY <1>0, <2>2
        <5> QED
          BY <3>1, <5>1 DEF MailOf
      <4>3. inbox'[w] = <<>> /\ Len(inbox'[w]) = 0 /\ w \in ExitSent' /\ w \notin ExitWaits'
        BY <2>2, <2>5, <4>1, <4>2 DEF ExitWaits
      <4>4. MailOf(w)'
        BY <4>1, <4>3 DEF MailOf
      <4>5. JobsOf(w)'
        <5>1. tried[w] + 1 = done[w] + dropped[w] + Len(inbox[w])
          BY <1>0, <4>2 DEF JobsOf
        <5>2. tried'[w] = done'[w] + dropped'[w] + Len(inbox'[w])
          <6>1. tried[w] + 1 = done[w] + dropped[w] + 1
            BY <4>2, <5>1
          <6>2. tried[w] = done[w] + dropped[w] + 0
            <7>1. PICK a \in Nat, b \in Nat, d \in Nat :
                    a = done[w] /\ b = dropped[w] /\ d = tried[w]
              BY <1>N
            <7>2. d + 1 = a + b + 1
              BY <6>1, <7>1
            <7>3. d = a + b + 0
              BY <7>2, CountFacts
            <7> QED
              BY <7>1, <7>3
          <6>3. tried'[w] = tried[w] /\ done'[w] = done[w] /\ dropped'[w] = dropped[w]
            BY <2>3, <3>1
          <6> QED
            BY <4>3, <6>2, <6>3
        <5> QED
          BY <4>3, <5>2 DEF JobsOf
      <4> QED
        BY <4>4, <4>5
    <3>2. CASE inbox[w][1] # "exit" /\ done' = [done EXCEPT ![w] = @ + 1] /\ worker' = worker
      <4>1. done'[w] = done[w] + 1
        BY <3>2 DEF TypeOK
      <4>2. w \in ExitWaits' <=> w \in ExitWaits
        BY <2>5, <3>2 DEF ExitWaits
      <4>3. w \in ExitWaits => 1 # Len(inbox[w])
        <5>1. 1 \in 1..Len(inbox[w]) /\ MailOf(w)
          BY <1>0, <2>2
        <5> QED
          BY <3>2, <5>1 DEF MailOf
      <4>4. \A k \in 1..Len(inbox'[w]) :
              inbox'[w][k] = "exit" <=> w \in ExitWaits' /\ k = Len(inbox'[w])
        <5>1. SUFFICES ASSUME NEW k \in 1..Len(inbox'[w])
                       PROVE  inbox'[w][k] = "exit" <=> w \in ExitWaits' /\ k = Len(inbox'[w])
          OBVIOUS
        <5>2. k + 1 \in 1..Len(inbox[w]) /\ inbox'[w][k] = inbox[w][k + 1]
              /\ (k + 1 = Len(inbox[w]) <=> k = Len(inbox'[w]))
          BY <2>2
        <5>3. inbox[w][k + 1] = "exit" <=> w \in ExitWaits /\ k + 1 = Len(inbox[w])
          BY <1>0, <5>2 DEF MailOf
        <5> QED
          BY <4>2, <5>2, <5>3
      <4>5. MailOf(w)'
        <5>1. worker'[w] # "end"
          BY <2>3, <3>2
        <5>2. w \in ExitWaits' => 0 < Len(inbox'[w])
          <6>1. Len(inbox[w]) \in Nat \ {0} /\ Len(inbox'[w]) = Len(inbox[w]) - 1
            BY <2>2
          <6>2. Len(inbox[w]) # 1 => 0 < Len(inbox'[w])
            BY <6>1, CountFacts
          <6> QED
            BY <4>2, <4>3, <6>2
        <5> QED
          BY <4>4, <5>1, <5>2 DEF MailOf
      <4>6. JobsOf(w)'
        <5>1. /\ w \in ExitWaits => tried[w] + 1 = done[w] + dropped[w] + Len(inbox[w])
              /\ w \notin ExitWaits => tried[w] = done[w] + dropped[w] + Len(inbox[w])
          BY <1>0 DEF JobsOf
        <5>2. tried'[w] = tried[w] /\ dropped'[w] = dropped[w] /\ done'[w] = done[w] + 1
              /\ Len(inbox'[w]) = Len(inbox[w]) - 1
          BY <2>2, <2>3, <4>1
        <5>3. tried[w] \in Nat /\ done[w] \in Nat /\ dropped[w] \in Nat /\ Len(inbox[w]) \in Nat
          BY <1>N
        <5>4. done'[w] + dropped'[w] + Len(inbox'[w]) = done[w] + dropped[w] + Len(inbox[w])
          <6>1. (done[w] + 1) + dropped[w] + (Len(inbox[w]) - 1) = done[w] + dropped[w] + Len(inbox[w])
            <7>1. PICK a \in Nat, b \in Nat, c \in Nat :
                    a = done[w] /\ b = dropped[w] /\ c = Len(inbox[w])
              BY <5>3
            <7>2. (a + 1) + b + (c - 1) = a + b + c
              BY CountFacts
            <7> QED
              BY <7>1, <7>2
          <6> QED
            BY <5>2, <6>1
        <5> QED
          BY <4>2, <5>1, <5>2, <5>4 DEF JobsOf
      <4> QED
        BY <4>5, <4>6
    <3> QED
      BY <2>3, <3>1, <3>2
  <2> QED
    BY <1>0, <2>3, <2>6, <2>7
<1> QED
  BY <1>1, <1>2, <1>3, <1>4, <1>5, <1>6, <1>7 DEF Next, Main, Dispatcher

LEMMA InvAlways == Spec => []Inv
<1>1. Init => Inv
  BY InitInv
<1>2. Inv /\ [Next]_vars => Inv'
  BY TypeStep, LifetimeStep, MailStep DEF Inv
<1> QED
  BY <1>1, <1>2, PTL DEF Spec

-----------------------------------------------------------------------------
(* The theorems *)

\* Every variable stays in its type, and no inbox ever holds more messages than the queue
\* was opened for.
THEOREM TypeCorrect == Spec => []TypeOK
<1>1. Inv => TypeOK
  BY DEF Inv
<1> QED
  BY <1>1, InvAlways, PTL

\* posix_demo_main closes a queue only after every thread that uses it has been joined.
THEOREM QueuesOutliveUse == Spec => []ClosedAfterUse
<1>1. Inv => ClosedAfterUse
  <2> SUFFICES ASSUME Inv PROVE ClosedAfterUse
    OBVIOUS
  <2>1. ASSUME NEW w \in Worker, worker[w] = "run" PROVE w \in open
    BY <2>1 DEF Inv, TypeOK, Lifetime
  <2>2. disp \in {"jobs", "exits"} => open = Worker
    BY DEF Inv, TypeOK, Lifetime
  <2> QED
    BY <2>1, <2>2 DEF ClosedAfterUse
<1> QED
  BY <1>1, InvAlways, PTL

\* The blocking terminate message is the last one in a worker's inbox: when the worker
\* ends, every job meant for it was received or counted as dropped.
THEOREM JobsKept == Spec => []JobsAccounted
<1>1. Inv => JobsAccounted
  <2> SUFFICES ASSUME Inv, NEW w \in Worker, worker[w] = "end"
               PROVE  inbox[w] = <<>> /\ tried[w] = done[w] + dropped[w]
    BY DEF JobsAccounted
  <2>1. inbox[w] = <<>> /\ Len(inbox[w]) = 0 /\ w \notin ExitWaits
    BY DEF Inv, Mail, ExitWaits
  <2> QED
    BY <2>1 DEF Inv, TypeOK, Jobs
<1> QED
  BY <1>1, InvAlways, PTL

\* posix_demo_main leaves no queue open and no worker running, whether it ends well or
\* mq_open failed for one of the queues.
THEOREM NothingLeftBehind == Spec => []NothingLeft
<1>1. Inv => NothingLeft
  BY DEF Inv, Lifetime, NothingLeft
<1> QED
  BY <1>1, InvAlways, PTL

-----------------------------------------------------------------------------
(* The end *)

\* Which threads have been created, and how far the dispatcher is in its loops.
Created ==
  /\ at = "create" => \A w \in Worker : w < i => worker[w] # "none"
  /\ at \in {"dispatch", "join", "joinDispatcher"} => \A w \in Worker : worker[w] # "none"

Counting ==
  /\ disp = "none" => j = 0
  /\ disp = "jobs" => j < NumMsgs

EndInv == Inv /\ Created /\ Counting

LEMMA CreatedStep == TypeOK /\ Lifetime /\ Created /\ [Next]_vars => Created'
<1> SUFFICES ASSUME TypeOK, Lifetime, Created, [Next]_vars PROVE Created'
  OBVIOUS
<1>0. i \in Worker /\ i \in Nat /\ i < NumWorkers
  BY WorkerFacts DEF TypeOK
<1>1. CASE OpenQueue
  <2>1. at' \in {"open", "create"} /\ (at' = "create" => i' = 0)
    BY <1>0, <1>1, LoopFacts DEF OpenQueue
  <2>2. \A w \in Worker : ~(w < 0)
    BY WorkerFacts
  <2> QED
    BY <2>1, <2>2 DEF Created
<1>2. CASE OpenFails \/ JoinDispatcher \/ CloseQueue
  <2>1. at' \in {"close", "done"}
    BY <1>0, <1>2, LoopFacts DEF OpenFails, AfterFailure, JoinDispatcher, CloseQueue
  <2> QED
    BY <2>1 DEF Created
<1>3. CASE CreateWorker
  <2>1. /\ at = "create" /\ worker'[i] = "run"
        /\ \A w \in Worker : w # i => worker'[w] = worker[w]
    BY <1>0, <1>3 DEF CreateWorker, TypeOK
  <2>2. \A w \in Worker : w < i + 1 => worker'[w] # "none"
    BY <1>0, <2>1, WorkerFacts DEF Created
  <2>3. CASE i + 1 = NumWorkers /\ at' = "dispatch" /\ i' = 0
    BY <2>2, <2>3, WorkerFacts DEF Created
  <2>4. CASE i + 1 # NumWorkers /\ at' = at /\ i' = i + 1
    BY <2>1, <2>2, <2>4 DEF Created
  <2> QED
    BY <1>0, <1>3, <2>3, <2>4, LoopFacts DEF CreateWorker
<1>4. CASE CreateDispatcher \/ JoinWorker
  <2>1. UNCHANGED worker /\ at \in {"dispatch", "join"} /\ at' \in {"join", "joinDispatcher"}
    BY <1>0, <1>4, LoopFacts DEF CreateDispatcher, JoinWorker
  <2> QED
    BY <2>1 DEF Created
<1>5. CASE Dispatcher \/ UNCHANGED vars
  <2>1. UNCHANGED <<at, i, worker>>
    BY <1>5 DEF Dispatcher, SendJob, DropJob, SendExit, vars, mainVars
  <2> QED
    BY <2>1 DEF Created
<1>6. CASE \E w \in Worker : Receive(w)
  <2>1. PICK w \in Worker : Receive(w)
    BY <1>6
  <2>2. /\ UNCHANGED <<at, i>> /\ worker[w] = "run"
        /\ \A v \in Worker : worker'[v] = worker[v] \/ (v = w /\ worker'[v] = "end")
    BY <2>1 DEF Receive, mainVars, TypeOK
  <2> QED
    BY <2>2 DEF Created
<1> QED
  BY <1>1, <1>2, <1>3, <1>4, <1>5, <1>6 DEF Next, Main

LEMMA CountingStep == TypeOK /\ Lifetime /\ Counting /\ [Next]_vars => Counting'
<1> SUFFICES ASSUME TypeOK, Lifetime, Counting, [Next]_vars PROVE Counting'
  OBVIOUS
<1>1. CASE Main /\ ~CreateDispatcher
  <2>1. UNCHANGED <<disp, j>>
    BY <1>1 DEF Main, OpenQueue, OpenFails, CreateWorker, JoinWorker, JoinDispatcher, CloseQueue
  <2> QED
    BY <2>1 DEF Counting
<1>2. CASE CreateDispatcher
  <2>1. disp = "none" /\ disp' = "jobs" /\ UNCHANGED j
    BY <1>2 DEF CreateDispatcher, Lifetime
  <2> QED
    BY <2>1, NumberAssumption DEF Counting
<1>3. CASE SendJob \/ DropJob
  <2>1. disp = "jobs" /\ NextJob
    BY <1>3 DEF SendJob, DropJob
  <2> QED
    BY <2>1, NumberAssumption DEF NextJob, Counting, TypeOK
<1>4. CASE SendExit
  <2>1. disp' \in {"exits", "end"}
    BY <1>4 DEF SendExit
  <2> QED
    BY <2>1 DEF Counting
<1>5. CASE (\E w \in Worker : Receive(w)) \/ UNCHANGED vars
  <2>1. UNCHANGED <<disp, j>>
    BY <1>5 DEF Receive, vars
  <2> QED
    BY <2>1 DEF Counting
<1> QED
  BY <1>1, <1>2, <1>3, <1>4, <1>5 DEF Next, Dispatcher

\* Whoever is waited for can go on, or waits for one who can.
LEMMA NobodyStuck == EndInv /\ at # "done" => SomeoneMoves
<1> SUFFICES ASSUME EndInv, ~MainMoves, at # "done"
             PROVE  DispatcherMoves \/ \E w \in Worker : WorkerMoves(w)
  BY DEF SomeoneMoves
<1>0. i \in Worker /\ at \in {"join", "joinDispatcher"} /\ disp # "none"
      /\ \A w \in Worker : worker[w] \in {"run", "end"}
  <2>1. at \in {"join", "joinDispatcher"} /\ i \in Worker
    BY DEF EndInv, Inv, TypeOK, MainMoves
  <2>2. \A w \in Worker : worker[w] # "none" /\ worker[w] \in {"none", "run", "end"}
    BY <2>1 DEF EndInv, Created, Inv, TypeOK
  <2>3. disp # "none"
    <3>1. CASE at = "join"
      BY <3>1 DEF EndInv, Inv, Lifetime
    <3>2. CASE disp = "none"
      <4>1. worker[i] = "end" \/ at = "join"
        BY <2>1 DEF EndInv, Inv, Lifetime
      <4>2. i \in ExitSent \/ at = "join"
        BY <2>1, <4>1 DEF EndInv, Inv, Mail
      <4> QED
        BY <3>1, <3>2, <4>2 DEF ExitSent
    <3> QED
      BY <3>2
  <2> QED
    BY <2>1, <2>2, <2>3
<1>1. CASE disp = "jobs"
  BY <1>1 DEF DispatcherMoves
<1>2. CASE disp = "exits" /\ ~HasRoom(RoundRobin(j))
  <2>1. j \in Worker /\ RoundRobin(j) = j
    BY <1>2, RobinFacts DEF EndInv, Inv, Mail
  <2>2. ~HasRoom(j) /\ inbox[j] \in Seq(Message)
    BY <1>2, <2>1 DEF EndInv, Inv, TypeOK, Message
  <2>3. inbox[j] # <<>>
    BY <2>2, NumberAssumption DEF HasRoom
  <2>4. worker[j] # "end"
    BY <2>1, <2>3 DEF EndInv, Inv, Mail
  <2> QED
    BY <1>0, <2>1, <2>3, <2>4 DEF WorkerMoves
<1>3. CASE disp = "exits" /\ HasRoom(RoundRobin(j))
  BY <1>3 DEF DispatcherMoves
<1>4. CASE disp = "end"
  <2>1. at = "join" /\ worker[i] # "end"
    BY <1>0, <1>4 DEF MainMoves
  <2>2. i \in ExitWaits /\ worker[i] = "run"
    BY <1>0, <1>4, <2>1 DEF ExitWaits, ExitSent
  <2>3. 0 < Len(inbox[i])
    BY <1>0, <2>2 DEF EndInv, Inv, Mail
  <2>4. inbox[i] # <<>>
    BY <2>3
  <2> QED
    BY <1>0, <2>2, <2>4 DEF WorkerMoves
<1> QED
  BY <1>0, <1>1, <1>2, <1>3, <1>4 DEF EndInv, Inv, TypeOK

\* The measures are natural numbers, and a step of an actor makes its own smaller.
LEMMA ReceiveSums ==
  ASSUME NEW a \in Nat, NEW b \in Nat
  PROVE  /\ 2 * a + b \in Nat /\ 2 * a + b <= 2 * a + b
         /\ \A c \in Nat : c < a => 2 * c + b < 2 * a + b /\ 2 * c + (b + 1) < 2 * a + b
         /\ 0 < b => 2 * a + (b - 1) < 2 * a + b
OBVIOUS

LEMMA MeasuresNatural == EndInv => LeftIsNatural
<1> SUFFICES ASSUME EndInv PROVE LeftIsNatural
  OBVIOUS
<1>1. i \in Nat /\ i < NumWorkers /\ NumWorkers \in Nat
  BY WorkerFacts DEF EndInv, Inv, TypeOK
<1>2. MainLeft \in Nat
  <2>1. PhasesLeft \in 0..6
    BY DEF EndInv, Inv, TypeOK, PhasesLeft
  <2>2. PhasesLeft * NumWorkers \in Nat
    BY <1>1, <2>1
  <2> QED
    BY <1>1, <2>2 DEF MainLeft
<1>3. ToSend \in Nat
  <2>1. disp \in {"none", "jobs", "exits", "end"} /\ j \in Nat
    BY DEF EndInv, Inv, TypeOK
  <2>2. disp = "exits" => j < NumWorkers
    BY WorkerFacts DEF EndInv, Inv, Mail
  <2>3. disp \in {"none", "jobs"} => j < NumMsgs
    BY NumberAssumption DEF EndInv, Counting
  <2> QED
    BY <2>1, <2>2, <2>3, NumberAssumption DEF ToSend
<1>4. \A w \in Worker : ToReceive(w) \in Nat
  <2>1. \A w \in Worker : inbox[w] \in Seq(Message)
    BY DEF EndInv, Inv, TypeOK, Message
  <2>2. \A w \in Worker : Len(inbox[w]) \in Nat
    BY <2>1
  <2> QED
    BY <1>3, <2>2, ReceiveSums DEF ToReceive
<1> QED
  BY <1>2, <1>3, <1>4 DEF LeftIsNatural

LEMMA MainMeasure ==
  EndInv /\ Main => MainLeft' < MainLeft /\ ToSend' = ToSend /\ UNCHANGED inbox
<1> SUFFICES ASSUME EndInv, Main
             PROVE  MainLeft' < MainLeft /\ ToSend' = ToSend /\ UNCHANGED inbox
  OBVIOUS
<1>0. i \in Worker /\ i \in Nat /\ i < NumWorkers /\ NumWorkers \in Nat
  BY WorkerFacts DEF EndInv, Inv, TypeOK
<1>1. UNCHANGED inbox
  BY DEF Main, OpenQueue, OpenFails, CreateWorker, CreateDispatcher, JoinWorker,
         JoinDispatcher, CloseQueue
<1>2. ToSend' = ToSend
  <2>1. UNCHANGED j /\ (disp' = disp \/ (disp = "none" /\ disp' = "jobs"))
    BY DEF Main, OpenQueue, OpenFails, CreateWorker, CreateDispatcher, JoinWorker,
           JoinDispatcher, CloseQueue, EndInv, Inv, Lifetime
  <2> QED
    BY <2>1 DEF ToSend
<1> SUFFICES MainLeft' < MainLeft
  BY <1>1, <1>2
<1>3. CASE OpenQueue \/ CreateWorker \/ JoinWorker \/ CloseQueue
  <2>1. \/ i + 1 # NumWorkers /\ at' = at /\ i' = i + 1
        \/ /\ i' = 0
           /\ \/ at = "open" /\ at' = "create"
              \/ at = "create" /\ at' = "dispatch"
              \/ at = "join" /\ at' = "joinDispatcher"
              \/ at = "close" /\ at' = "done"
    BY <1>0, <1>3, LoopFacts DEF OpenQueue, CreateWorker, JoinWorker, CloseQueue
  <2>2. CASE at' = at /\ i' = i + 1
    <3>1. PhasesLeft' = PhasesLeft /\ PhasesLeft \in 0..6
      BY <2>2 DEF PhasesLeft, EndInv, Inv, TypeOK
    <3>2. PhasesLeft * NumWorkers \in Nat
      BY <1>0, <3>1
    <3> QED
      BY <1>0, <2>2, <3>1, <3>2 DEF MainLeft
  <2>3. CASE i' = 0 /\ at = "open" /\ at' = "create"
    BY <1>0, <2>3 DEF MainLeft, PhasesLeft
  <2>4. CASE i' = 0 /\ at = "create" /\ at' = "dispatch"
    BY <1>0, <2>4 DEF MainLeft, PhasesLeft
  <2>5. CASE i' = 0 /\ at = "join" /\ at' = "joinDispatcher"
    BY <1>0, <2>5 DEF MainLeft, PhasesLeft
  <2>6. CASE i' = 0 /\ at = "close" /\ at' = "done"
    BY <1>0, <2>6 DEF MainLeft, PhasesLeft
  <2> QED
    BY <2>1, <2>2, <2>3, <2>4, <2>5, <2>6
<1>4. CASE OpenFails
  <2>1. at = "open" /\ at' = "close" /\ i' = 0
    BY <1>4 DEF OpenFails, AfterFailure
  <2> QED
    BY <1>0, <2>1 DEF MainLeft, PhasesLeft
<1>5. CASE CreateDispatcher
  <2>1. at = "dispatch" /\ at' = "join" /\ i' = i
    BY <1>5 DEF CreateDispatcher
  <2> QED
    BY <1>0, <2>1 DEF MainLeft, PhasesLeft
<1>6. CASE JoinDispatcher
  <2>1. at = "joinDispatcher" /\ at' = "close" /\ i' = i
    BY <1>6 DEF JoinDispatcher
  <2> QED
    BY <1>0, <2>1 DEF MainLeft, PhasesLeft
<1> QED
  BY <1>3, <1>4, <1>5, <1>6 DEF Main

LEMMA DispatcherMeasure ==
  EndInv /\ Dispatcher =>
    /\ UNCHANGED <<at, i>> /\ ToSend \in Nat /\ ToSend' \in Nat /\ ToSend' < ToSend
    /\ \A w \in Worker : Len(inbox'[w]) = Len(inbox[w]) \/ Len(inbox'[w]) = Len(inbox[w]) + 1
<1> SUFFICES ASSUME EndInv, Dispatcher
    PROVE  /\ UNCHANGED <<at, i>> /\ ToSend \in Nat /\ ToSend' \in Nat /\ ToSend' < ToSend
           /\ \A w \in Worker :
                Len(inbox'[w]) = Len(inbox[w]) \/ Len(inbox'[w]) = Len(inbox[w]) + 1
  OBVIOUS
<1>0. /\ UNCHANGED <<at, i>> /\ ToSend \in Nat /\ TypeOK /\ j \in Nat
      /\ NumMsgs \in Nat /\ NumWorkers \in Nat \ {0}
  BY MeasuresNatural, NumberAssumption
  DEF LeftIsNatural, Dispatcher, SendJob, DropJob, SendExit, mainVars, EndInv, Inv, TypeOK
<1>1. CASE SendJob \/ DropJob
  <2>1. /\ disp = "jobs" /\ j < NumMsgs
        /\ \/ j + 1 = NumMsgs /\ disp' = "exits" /\ j' = 0
           \/ disp' = "jobs" /\ j' = j + 1 /\ j + 1 # NumMsgs
    BY <1>1 DEF SendJob, DropJob, NextJob, EndInv, Counting
  <2>2. ToSend' \in Nat /\ ToSend' < ToSend
    BY <1>0, <2>1 DEF ToSend
  <2>3. CASE DropJob
    <3>1. UNCHANGED inbox
      BY <2>3 DEF DropJob
    <3> QED
      BY <1>0, <2>2, <3>1
  <2>4. CASE SendJob
    <3>1. /\ RoundRobin(j) \in Worker /\ HasRoom(RoundRobin(j)) /\ "continue" \in Message
          /\ inbox' = [inbox EXCEPT ![RoundRobin(j)] = Enqueue(@, "continue")]
      BY <1>0, <2>4, RobinFacts DEF SendJob, Message
    <3> QED
      BY <1>0, <2>2, <3>1, SendFacts
  <2> QED
    BY <1>1, <2>3, <2>4
<1>2. CASE SendExit
  <2>1. /\ disp = "exits" /\ j \in Worker /\ j < NumWorkers /\ RoundRobin(j) = j
        /\ \/ j + 1 = NumWorkers /\ disp' = "end"
           \/ j + 1 # NumWorkers /\ disp' = "exits" /\ j' = j + 1
    BY <1>2, RobinFacts, WorkerFacts DEF SendExit, EndInv, Inv, Mail
  <2>2. ToSend' \in Nat /\ ToSend' < ToSend
    BY <1>0, <2>1 DEF ToSend
  <2>3. HasRoom(j) /\ inbox' = [inbox EXCEPT ![j] = Enqueue(@, "exit")] /\ "exit" \in Message
    BY <1>2, <2>1 DEF SendExit, ExitBlocks, Message
  <2> QED
    BY <1>0, <2>1, <2>2, <2>3, SendFacts
<1> QED
  BY <1>1, <1>2 DEF Dispatcher

LEMMA MeasureStep == EndInv /\ LeftIsNatural' /\ Next => NothingGrows /\ SomethingShrinks
<1> SUFFICES ASSUME EndInv, LeftIsNatural', Next PROVE NothingGrows /\ SomethingShrinks
  OBVIOUS
<1>0. /\ MainLeft \in Nat /\ ToSend \in Nat
      /\ \A w \in Worker : Len(inbox[w]) \in Nat
  <2>1. \A w \in Worker : inbox[w] \in Seq(Message)
    BY DEF EndInv, Inv, TypeOK, Message
  <2> QED
    BY <2>1, MeasuresNatural DEF LeftIsNatural
<1>1. CASE Main
  <2>1. MainLeft' < MainLeft /\ ToSend' = ToSend /\ UNCHANGED inbox
    BY <1>1, MainMeasure
  <2>2. \A w \in Worker : ToReceive(w)' <= ToReceive(w)
    <3>1. \A w \in Worker : ToReceive(w)' = ToReceive(w)
      BY <2>1 DEF ToReceive
    <3>2. \A w \in Worker : ToReceive(w) \in Nat
      BY MeasuresNatural DEF LeftIsNatural
    <3> QED
      BY <3>1, <3>2
  <2>3. MainLeft' <= MainLeft /\ ToSend' <= ToSend
    <3>1. MainLeft' \in Nat
      BY DEF LeftIsNatural
    <3> QED
      BY <1>0, <2>1, <3>1
  <2> QED
    BY <2>1, <2>2, <2>3 DEF NothingGrows, SomethingShrinks
<1>2. CASE Dispatcher
  <2>1. /\ UNCHANGED <<at, i>> /\ ToSend' \in Nat /\ ToSend' < ToSend
        /\ \A w \in Worker :
             Len(inbox'[w]) = Len(inbox[w]) \/ Len(inbox'[w]) = Len(inbox[w]) + 1
    BY <1>2, DispatcherMeasure
  <2>2. \A w \in Worker : ToReceive(w)' <= ToReceive(w)
    <3>1. SUFFICES ASSUME NEW w \in Worker PROVE ToReceive(w)' <= ToReceive(w)
      OBVIOUS
    <3>2. /\ 2 * ToSend' + Len(inbox[w]) < 2 * ToSend + Len(inbox[w])
          /\ 2 * ToSend' + (Len(inbox[w]) + 1) < 2 * ToSend + Len(inbox[w])
      BY <1>0, <2>1, ReceiveSums
    <3>3. ToReceive(w)' < ToReceive(w)
      BY <2>1, <3>2 DEF ToReceive
    <3>4. ToReceive(w)' \in Nat /\ ToReceive(w) \in Nat
      BY MeasuresNatural DEF LeftIsNatural
    <3> QED
      BY <3>3, <3>4
  <2>3. MainLeft' = MainLeft
    BY <2>1 DEF MainLeft, PhasesLeft
  <2> QED
    BY <1>0, <2>1, <2>2, <2>3 DEF NothingGrows, SomethingShrinks
<1>3. CASE \E w \in Worker : Receive(w)
  <2>1. PICK w \in Worker : Receive(w)
    BY <1>3
  <2>2. UNCHANGED <<at, i, disp, j>> /\ TypeOK
    BY <2>1 DEF Receive, mainVars, EndInv, Inv
  <2>3. /\ \A v \in Worker : v # w => inbox'[v] = inbox[v]
        /\ Len(inbox[w]) \in Nat \ {0} /\ Len(inbox'[w]) = Len(inbox[w]) - 1
    BY <2>1, <2>2, ReceiveFacts
  <2>4. MainLeft' = MainLeft /\ ToSend' = ToSend
    BY <2>2 DEF MainLeft, PhasesLeft, ToSend
  <2>5. ToReceive(w)' < ToReceive(w)
    BY <1>0, <2>3, <2>4 DEF ToReceive
  <2>6. \A v \in Worker : ToReceive(v)' <= ToReceive(v)
    BY <1>0, <2>3, <2>4 DEF ToReceive
  <2> QED
    BY <1>0, <2>4, <2>5, <2>6 DEF NothingGrows, SomethingShrinks
<1> QED
  BY <1>1, <1>2, <1>3 DEF Next

\* For any number of workers and messages and inboxes of any size: until the demo is done
\* some thread can take a step, and every step of any thread leaves less to do.  This is
\* all of Terminates but the assumption that the scheduler runs a thread that can run.
THEOREM EndInSight == Spec => EndsInAnySchedule
<1>1. Init => EndInv
  <2> SUFFICES ASSUME Init PROVE EndInv
    OBVIOUS
  <2>1. Created /\ Counting
    BY DEF Init, Created, Counting
  <2> QED
    BY <2>1, InitInv DEF EndInv
<1>2. EndInv /\ [Next]_vars => EndInv'
  BY TypeStep, LifetimeStep, MailStep, CreatedStep, CountingStep DEF EndInv, Inv
<1>3. EndInv => LeftIsNatural /\ (at # "done" => SomeoneMoves)
  BY MeasuresNatural, NobodyStuck
<1>4. EndInv /\ LeftIsNatural' /\ [Next]_vars => [NothingGrows /\ SomethingShrinks]_vars
  BY MeasureStep
<1> QED
  BY <1>1, <1>2, <1>3, <1>4, PTL DEF Spec, EndsInAnySchedule
=============================================================================
