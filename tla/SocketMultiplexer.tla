------------------------- MODULE SocketMultiplexer -------------------------
(***************************************************************************)
(* The socket multiplexer (lib/net/SocketMultiplexer.cpp): one thread      *)
(* polls all sockets and runs their jobs; other threads add and remove     *)
(* jobs.                                                                   *)
(*                                                                         *)
(* The list of jobs belongs to whoever holds m_jobListLock, which the      *)
(* service thread does even while it polls.  A thread that wants the list  *)
(* first takes m_jobListLockLocked, so that the service thread cannot take *)
(* the list again before it, then writes a byte to the pipe that ends the  *)
(* poll.                                                                   *)
(*                                                                         *)
(* A step is a critical section of m_mutex, a system call, or the run of a *)
(* job.  A thread that waits on a condition variable sleeps until it is    *)
(* signalled: that POSIX wakes it every 100 ms is not relied on.           *)
(* Abstracted: the cursor marks in the list (a position does, while the    *)
(* list is locked), what a job does, and the end of the thread.            *)
(***************************************************************************)
EXTENDS Naturals, Sequences, FiniteSets

CONSTANTS
  User,       \* threads that add and remove jobs
  Service,    \* the service thread
  Socket,
  Job,        \* what jobs are interested in
  NoJob,      \* nullptr
  NoThread,
  MaxCalls    \* bound: calls of addSocket and removeSocket

ASSUME ServiceAssumption ==
  Service \notin User /\ NoThread \notin User \union {Service}
ASSUME JobAssumption == NoJob \notin Job
ASSUME CallAssumption == MaxCalls \in Nat

Runner == User \union {Service}

VARIABLES
  pc, call,             \* where a thread is, and what a user has called
  calls,
  asleep,               \* the condition variable a thread sleeps on, or "no"
  m_jobsReady, m_jobListLock, m_jobListLockLocked,
  m_jobListLocker, m_jobListLockLocker,
  m_update,
  m_socketJobs,         \* the list: sockets, in the order of their jobs
  job,                  \* the job in each socket's node of the list
  pfds,                 \* what is polled: sockets and their jobs' interest
  unblockPipe,          \* a byte is in the pipe
  hot,                  \* sockets with something to read or to write
  polled,               \* those among pfds that the last poll reported
  cursor, index         \* places in m_socketJobs and in pfds

lockVars == <<asleep, m_jobsReady, m_jobListLock, m_jobListLockLocked,
              m_jobListLocker, m_jobListLockLocker>>
jobVars == <<m_update, m_socketJobs, job>>
pollVars == <<pfds, polled, cursor, index>>
muxVars == <<pc, call, calls, asleep, m_jobsReady, m_jobListLock,
             m_jobListLockLocked, m_jobListLocker, m_jobListLockLocker, m_update,
             m_socketJobs, job, pfds, unblockPipe, hot, polled, cursor, index>>

MuxInit ==
  /\ pc = [t \in Runner |-> IF t = Service THEN "jobs" ELSE "idle"]
  /\ call = [u \in User |-> << >>]
  /\ calls = 0
  /\ asleep = [t \in Runner |-> "no"]
  /\ m_jobsReady = FALSE /\ m_jobListLock = FALSE /\ m_jobListLockLocked = FALSE
  /\ m_jobListLocker = NoThread /\ m_jobListLockLocker = NoThread
  /\ m_update = FALSE /\ m_socketJobs = << >>
  /\ job = [s \in Socket |-> NoJob]
  /\ pfds = << >> /\ unblockPipe = FALSE /\ hot = {} /\ polled = {}
  /\ cursor = 1 /\ index = 1

Goto(t, place) == pc' = [pc EXCEPT ![t] = place]
SleepOn(t, cv) == asleep' = [asleep EXCEPT ![t] = cv]
Registered == {m_socketJobs[i] : i \in 1 .. Len(m_socketJobs)}   \* m_socketJobMap

-----------------------------------------------------------------------------
(* The two locks.                                                          *)

lockJobListLock(t, next) ==
  /\ pc[t] = "lockLock" /\ asleep[t] = "no"
  /\ IF m_jobListLockLocked
     THEN /\ SleepOn(t, "lockLock")
          /\ UNCHANGED <<pc, m_jobListLockLocked, m_jobListLockLocker>>
     ELSE /\ m_jobListLockLocked' = TRUE
          /\ m_jobListLockLocker' = t
          /\ Goto(t, next)
          /\ UNCHANGED asleep
  /\ UNCHANGED <<call, calls, m_jobsReady, m_jobListLock, m_jobListLocker,
                 jobVars, pollVars, unblockPipe, hot>>

\* mutant: the lock on the lock is released, and nobody is woken
WakesNobody == UNCHANGED asleep

\* broadcast
WakeLockers ==
  asleep' = [t \in Runner |-> IF asleep[t] = "lockLock" THEN "no" ELSE asleep[t]]

\* mutant: the list is taken whoever holds it
NeverLocked == FALSE
IsLocked == m_jobListLock

lockJobList(t, next) ==
  /\ pc[t] = "lockList" /\ asleep[t] = "no"
  /\ IF IsLocked
     THEN /\ SleepOn(t, "list")
          /\ UNCHANGED <<pc, m_jobListLock, m_jobListLockLocked, m_jobListLocker,
                         m_jobListLockLocker>>
     ELSE /\ m_jobListLock' = TRUE
          /\ m_jobListLocker' = m_jobListLockLocker
          /\ m_jobListLockLocker' = NoThread
          /\ m_jobListLockLocked' = FALSE
          /\ WakeLockers
          /\ Goto(t, next)
  /\ UNCHANGED <<call, calls, m_jobsReady, jobVars, pollVars, unblockPipe, hot>>

HasJobs == m_socketJobs # << >>

\* signal wakes one of the threads that sleep on the list's lock, if any, and
\* the service thread if the list has ceased to be empty, or to have jobs.
unlockJobList(t, next) ==
  /\ pc[t] = "unlock"
  /\ m_jobListLock' = FALSE
  /\ m_jobListLocker' = NoThread
  /\ m_jobsReady' = HasJobs
  /\ \E w \in Runner :
       /\ (\E v \in Runner : asleep[v] = "list") => asleep[w] = "list"
       /\ asleep' = [v \in Runner |->
            IF (v = w /\ asleep[v] = "list")
               \/ (asleep[v] = "jobs" /\ m_jobsReady # HasJobs)
            THEN "no" ELSE asleep[v]]
  /\ Goto(t, next)
  /\ UNCHANGED <<call, calls, m_jobListLockLocked, m_jobListLockLocker, jobVars,
                 pollVars, unblockPipe, hot>>

-----------------------------------------------------------------------------
(* addSocket (j is a job) and removeSocket (j is NoJob).                   *)

Call(u, s, j) ==
  /\ pc[u] = "idle" /\ calls < MaxCalls
  /\ calls' = calls + 1
  /\ call' = [call EXCEPT ![u] = <<s, j>>]
  /\ Goto(u, "lockLock")
  /\ UNCHANGED <<lockVars, jobVars, pollVars, unblockPipe, hot>>

\* mutant: the poll is not interrupted
LeavesPolling == UNCHANGED unblockPipe
WritesByte == unblockPipe' = TRUE

unblockPollSocket(u) ==
  /\ pc[u] = "unblock"
  /\ WritesByte
  /\ Goto(u, "lockList")
  /\ UNCHANGED <<call, calls, lockVars, jobVars, pollVars, hot>>

\* mutant: a job is taken out of the list when it is removed, which goes
\* unnoticed
ErasesAtOnce(s, j) ==
  /\ job' = [job EXCEPT ![s] = j]
  /\ m_socketJobs' = IF j = NoJob THEN SelectSeq(m_socketJobs, LAMBDA x : x # s)
                     ELSE IF s \in Registered THEN m_socketJobs
                     ELSE Append(m_socketJobs, s)
  /\ m_update' = (m_update \/ j # NoJob)

\* A new job goes to the end of the list; one that is removed leaves nullptr.
SetJob(s, j) ==
  /\ m_socketJobs' = IF j # NoJob /\ s \notin Registered
                     THEN Append(m_socketJobs, s) ELSE m_socketJobs
  /\ job' = [job EXCEPT ![s] = j]
  /\ m_update' = (m_update \/ j # NoJob \/ job[s] # NoJob)

Edit(u) ==
  /\ pc[u] = "edit"
  /\ SetJob(call[u][1], call[u][2])
  /\ call' = [call EXCEPT ![u] = << >>]
  /\ Goto(u, "unlock")
  /\ UNCHANGED <<calls, lockVars, pollVars, unblockPipe, hot>>

-----------------------------------------------------------------------------
(* The service thread.                                                     *)

WaitForJobs ==
  /\ pc[Service] = "jobs" /\ asleep[Service] = "no"
  /\ IF m_jobsReady THEN Goto(Service, "lockLock") /\ UNCHANGED asleep
                    ELSE SleepOn(Service, "jobs") /\ UNCHANGED pc
  /\ UNCHANGED <<call, calls, m_jobsReady, m_jobListLock, m_jobListLockLocked,
                 m_jobListLocker, m_jobListLockLocker, jobVars, pollVars,
                 unblockPipe, hot>>

\* The places in the list that have a job, those before a place, and the sockets
\* and the jobs at them, in the order of the list.
Live == {i \in 1 .. Len(m_socketJobs) : job[m_socketJobs[i]] # NoJob}
LiveBefore(i) == Cardinality({j \in Live : j < i})
LivePlace(k) == CHOOSE i \in Live : LiveBefore(i) = k - 1
LiveSockets == [k \in 1 .. Cardinality(Live) |-> m_socketJobs[LivePlace(k)]]
Entries ==
  [k \in 1 .. Cardinality(Live) |->
     <<m_socketJobs[LivePlace(k)], job[m_socketJobs[LivePlace(k)]]>>]

Collect ==
  /\ pc[Service] = "collect"
  /\ m_update' = FALSE
  /\ pfds' = IF m_update THEN Entries ELSE pfds
  /\ Goto(Service, IF pfds' = << >> THEN "sweep" ELSE "poll")
  /\ UNCHANGED <<call, calls, lockVars, m_socketJobs, job, polled, cursor, index,
                 unblockPipe, hot>>

\* pollSocket: it returns when a socket is ready or a byte is in the pipe,
\* which it empties.
Poll ==
  LET ready == {s \in hot : \E i \in 1 .. Len(pfds) : pfds[i][1] = s}
  IN /\ pc[Service] = "poll"
     /\ ready # {} \/ unblockPipe
     /\ unblockPipe' = FALSE
     /\ polled' = ready
     /\ Goto(Service, IF ready = {} THEN "sweep" ELSE "next")
     /\ UNCHANGED <<call, calls, lockVars, jobVars, pfds, cursor, index, hot>>

NextCursor ==
  /\ pc[Service] = "next"
  /\ IF index > Len(pfds) \/ cursor > Len(m_socketJobs)
     THEN Goto(Service, "sweep") /\ UNCHANGED cursor
     ELSE IF job[m_socketJobs[cursor]] # NoJob
     THEN Goto(Service, "run") /\ UNCHANGED cursor
     ELSE cursor' = cursor + 1 /\ UNCHANGED pc
  /\ UNCHANGED <<call, calls, lockVars, jobVars, pfds, polled, index,
                 unblockPipe, hot>>

\* job->run does what there is to do and returns the job, another or nullptr.
Run(j) ==
  LET s == m_socketJobs[cursor]
  IN /\ pc[Service] = "run"
     /\ hot' = IF pfds[index][1] \in polled THEN hot \ {s} ELSE hot
     /\ job' = [job EXCEPT ![s] = j]
     /\ m_update' = (m_update \/ j # job[s])
     /\ cursor' = cursor + 1 /\ index' = index + 1
     /\ Goto(Service, "next")
     /\ UNCHANGED <<call, calls, lockVars, m_socketJobs, pfds, polled,
                    unblockPipe>>

\* "delete any removed socket jobs"
Sweep ==
  /\ pc[Service] = "sweep"
  /\ m_socketJobs' = LiveSockets
  /\ m_update' = (m_update \/ LiveSockets # m_socketJobs)
  /\ polled' = {} /\ cursor' = 1 /\ index' = 1
  /\ Goto(Service, "unlock")
  /\ UNCHANGED <<call, calls, lockVars, job, pfds, unblockPipe, hot>>

\* The peer or the network: a socket that is known becomes ready.
BecomesReady(s) ==
  /\ s \in Registered \ hot
  /\ hot' = hot \union {s}
  /\ UNCHANGED <<pc, call, calls, lockVars, jobVars, pollVars, unblockPipe>>

UserLocks(u) == lockJobListLock(u, "unblock")
UserTakes(u) == UserLocks(u) /\ ~m_jobListLockLocked
UserStep(u) ==
  \/ UserLocks(u) \/ unblockPollSocket(u) \/ lockJobList(u, "edit")
  \/ Edit(u) \/ unlockJobList(u, "idle")

ServiceStep ==
  \/ WaitForJobs \/ lockJobListLock(Service, "lockList")
  \/ lockJobList(Service, "collect") \/ Collect \/ Poll \/ NextCursor
  \/ (\E j \in Job \union {NoJob} : Run(j)) \/ Sweep
  \/ unlockJobList(Service, "jobs")

MuxNext ==
  \/ \E u \in User, s \in Socket, j \in Job \union {NoJob} : Call(u, s, j)
  \/ \E u \in User : UserStep(u)
  \/ ServiceStep
  \/ \E s \in Socket : BecomesReady(s)

MuxSpec == MuxInit /\ [][MuxNext]_muxVars

\* Threads go on, and one that wants the lock on the lock gets it before the
\* service thread has gone round for ever: it is woken each time the lock is
\* free, which is as long as the service thread polls and runs jobs.
MuxFairness ==
  /\ WF_muxVars(ServiceStep)
  /\ \A u \in User : WF_muxVars(UserStep(u)) /\ SF_muxVars(UserTakes(u))
MuxFairSpec == MuxSpec /\ MuxFairness

-----------------------------------------------------------------------------
(* Properties.                                                             *)

Entry == Socket \X Job

\* Every variable has its type.
MuxTypeOK ==
  /\ pc \in [Runner -> {"idle", "lockLock", "unblock", "lockList", "edit",
                        "unlock", "jobs", "collect", "poll", "next", "run",
                        "sweep"}]
  /\ call \in [User -> (Socket \X (Job \union {NoJob})) \union {<< >>}]
  /\ calls \in 0 .. MaxCalls
  /\ asleep \in [Runner -> {"no", "lockLock", "list", "jobs"}]
  /\ m_jobsReady \in BOOLEAN /\ m_jobListLock \in BOOLEAN
  /\ m_jobListLockLocked \in BOOLEAN
  /\ m_jobListLocker \in Runner \union {NoThread}
  /\ m_jobListLockLocker \in Runner \union {NoThread}
  /\ m_update \in BOOLEAN /\ m_socketJobs \in Seq(Socket)
  /\ job \in [Socket -> Job \union {NoJob}]
  /\ pfds \in Seq(Entry) /\ unblockPipe \in BOOLEAN
  /\ hot \subseteq Socket /\ polled \subseteq Socket
  /\ cursor \in Nat \ {0} /\ index \in Nat \ {0}

\* Threads at a place where they hold the list, or the lock on its lock.
HasList(t) ==
  pc[t] \in {"edit", "unlock", "collect", "poll", "next", "run", "sweep"}
HasLockLock(t) == pc[t] \in {"unblock", "lockList"}

\* One thread at most has the list, and likewise the lock on its lock (the
\* assertions in lockJobList and unlockJobList).
OneThreadHasTheList ==
  /\ \A t \in Runner :
       /\ HasList(t) <=> m_jobListLock /\ m_jobListLocker = t
       /\ HasLockLock(t) <=> m_jobListLockLocked /\ m_jobListLockLocker = t
  /\ m_jobListLock <=> m_jobListLocker # NoThread
  /\ m_jobListLockLocked <=> m_jobListLockLocker # NoThread

\* So the list does not change, and no job is deleted, while it is polled and
\* walked: what is polled are the jobs of the list, in its order, and the entry
\* that the service thread looks at is that of the job it runs.
EntriesMatchJobs ==
  /\ pc[Service] = "poll" => pfds = Entries
  /\ pc[Service] = "run" =>
       /\ job[m_socketJobs[cursor]] # NoJob
       /\ pfds[index] = <<m_socketJobs[cursor], job[m_socketJobs[cursor]]>>
ListIsStable == MuxTypeOK /\ OneThreadHasTheList /\ EntriesMatchJobs

\* A thread sleeps only while what it waits for is not the case, and one at most
\* sleeps on the list's lock, so that signal does what broadcast would.
SleepersHaveReason ==
  /\ \A t \in Runner :
       /\ asleep[t] = "lockLock" => pc[t] = "lockLock" /\ m_jobListLockLocked
       /\ asleep[t] = "list" => pc[t] = "lockList" /\ m_jobListLock
       /\ asleep[t] = "jobs" => pc[t] = "jobs" /\ ~m_jobsReady
  /\ \A t, u \in Runner : asleep[t] = "list" /\ asleep[u] = "list" => t = u

\* A user that waits for the list finds no poll that could go on for ever, and
\* the service thread knows whether there are jobs.
PollIsInterrupted ==
  \A u \in User :
    pc[u] = "lockList" /\ pc[Service] = "poll" => unblockPipe
JobsReadyIsTrue == ~m_jobListLock => m_jobsReady = (m_socketJobs # << >>)

\* No thread sleeps or polls while there is something for it to do.
NobodyOversleeps == SleepersHaveReason /\ PollIsInterrupted /\ JobsReadyIsTrue

\* Every call of addSocket and removeSocket returns, and a socket that is ready
\* and has a job is served.
CallsReturn == \A u \in User : pc[u] # "idle" ~> pc[u] = "idle"
ReadyIsServed ==
  \A s \in Socket :
    s \in hot /\ job[s] # NoJob ~> s \notin hot \/ job[s] = NoJob
EveryoneIsServed == CallsReturn /\ ReadyIsServed
=============================================================================
