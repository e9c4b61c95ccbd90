-------------------------------- MODULE Feed --------------------------------
(***************************************************************************)
(* What feeds the scheduler: the clock (clk.c), the process generator      *)
(* (process_generator.c) and the message queue between the generator and   *)
(* the scheduler.  Scheduler takes them for inputs; here they are actors   *)
(* that step on their own: the clock does not wait for those that poll it. *)
(***************************************************************************)
EXTENDS Scheduler

CONSTANTS
  Arrivals,          \* the arrival times in the file
  Capacity,          \* how many messages the queue can hold
  PunctualGenerator  \* TRUE: the generator sees every second and sends all
                     \*   that is due before it is over

VARIABLES
  clk,          \* the shared integer
  file,         \* the list that Read_file made
  pg_follow,    \* the clock value the generator saw last (its follow)
  curr,         \* the next process to send
  skips,        \* no more is sent in this second: msgsnd failed, or it is the
                \*   second in which the generator started
  msg_queue     \* the numbers of the processes sent and not yet received

feedVars == <<clk, file, pg_follow, curr, skips, msg_queue>>

ASSUME FeedAssumption ==
  /\ Arrivals \subseteq Nat
  /\ Capacity \in Nat \ {0}
  /\ PunctualGenerator \in BOOLEAN

Entries ==
  [Arrival_time : Arrivals, Running_time : RunTimes, Priority : Priorities,
   no_of_blocks : BlockCounts]

\* "processes arrives in order"
Files ==
  {f \in [Procs -> Entries] :
     \A p, x \in Procs : p < x => f[p].Arrival_time <= f[x].Arrival_time}

FeedInit ==
  /\ clk = StartTime
  /\ file \in Files
  /\ pg_follow = StartTime
  /\ curr = 1
  /\ skips = TRUE
  /\ msg_queue = <<>>

\* Mutant of Due: a process is due when its time is over.
DueLate == curr <= Count_OF_Processes /\ pg_follow > file[curr].Arrival_time

\* x == curr->Process_Data.Arrival_time, for the x read last.
Due == curr <= Count_OF_Processes /\ pg_follow = file[curr].Arrival_time

Sending == Due /\ ~skips

\* (*shmaddr)++, however far the others are; only the scheduler's bound on
\* missed seconds holds it up.
ClockTick ==
  /\ clk - follow <= MaxMissed - missed
  /\ PunctualGenerator => pg_follow = clk /\ ~Sending
  /\ clk' = clk + 1
  /\ UNCHANGED <<file, pg_follow, curr, skips, msg_queue>>

\* Mutant of Look: that nothing more was to be sent is not reset.
LookOnly ==
  /\ ~Sending
  /\ pg_follow # clk
  /\ pg_follow' = clk
  /\ UNCHANGED <<clk, file, curr, skips, msg_queue>>

\* The generator's loop finds another clock value.
Look ==
  /\ ~Sending
  /\ pg_follow # clk
  /\ pg_follow' = clk
  /\ skips' = FALSE
  /\ UNCHANGED <<clk, file, curr, msg_queue>>

\* msgsnd with IPC_NOWAIT.
Send ==
  /\ Sending
  /\ IF Len(msg_queue) < Capacity
     THEN /\ msg_queue' = Append(msg_queue, curr)
          /\ curr' = curr + 1
          /\ UNCHANGED skips
     ELSE /\ skips' = TRUE
          /\ UNCHANGED <<msg_queue, curr>>
  /\ UNCHANGED <<clk, file, pg_follow>>

Generator == Look \/ Send

\* The scheduler's side: it reads the clock, takes a message, or finds none.
ReadClock == follow' = clk /\ UNCHANGED feedVars

IsEntry(n, e) ==
  /\ n.Arrival_time = e.Arrival_time
  /\ n.Running_time = e.Running_time
  /\ n.no_of_blocks = e.no_of_blocks
  /\ mode # "SJF" => n.Priority = e.Priority

TakeMessage ==
  /\ msg_queue # <<>>
  /\ IsEntry(proc'[received + 1], file[Head(msg_queue)])
  /\ msg_queue' = Tail(msg_queue)
  /\ UNCHANGED <<clk, file, pg_follow, curr, skips>>

NoMessage == msg_queue = <<>> /\ UNCHANGED feedVars

-----------------------------------------------------------------------------
FeedTypeOK ==
  /\ clk \in Nat
  /\ file \in [Procs -> Entries]
  /\ pg_follow \in Nat
  /\ curr \in 1 .. Count_OF_Processes + 1
  /\ skips \in BOOLEAN
  /\ msg_queue \in Seq(Procs)

\* The scheduler's next message is one of those Scheduler allows for: the next
\* process of the file, found before or after the pass of its arrival time at
\* most by the seconds that may be missed and one.
KeepsSchedule ==
  /\ msg_queue = [i \in 1 .. curr - 1 - received |-> received + i]
  /\ phase = "receive" /\ msg_queue # <<>> =>
       LET e == file[Head(msg_queue)] IN
         /\ follow - e.Arrival_time \in Lags
         /\ received > 0 => proc[received].Arrival_time <= e.Arrival_time

\* "Send the information to the scheduler at the appropriate time": every
\* process is sent.
EverySent == <>(curr > Count_OF_Processes)
=============================================================================
