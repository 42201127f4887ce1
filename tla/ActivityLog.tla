----------------------------- MODULE ActivityLog -----------------------------
(***************************************************************************)
(* log.txt, as main() and the handlers of server2.c write it.  Every entry *)
(* is one call that opens the file for appending, takes the time, writes   *)
(* into stdio's buffer and closes the file: the bytes reach it at once, in *)
(* fclose().  The threads of a process share one thing more, the struct    *)
(* localtime() returns: the C library fills it under a lock, the caller    *)
(* copies it field by field without.                                       *)
(*                                                                         *)
(* An entry names its connection by the descriptor alone (accept() is      *)
(* given no room for an address), and a descriptor is used again once      *)
(* close() has returned.  A server may end at any moment (SIGPIPE, an      *)
(* exit() of main()), and the program may be started while it runs: main() *)
(* empties the file before it finds out, in bind(), whether the port it    *)
(* was given is free, and on another port both serve, each with threads    *)
(* and descriptors of its own, and write to the one file.                  *)
(***************************************************************************)
EXTENDS Integers, SequencesExt

CONSTANTS
  Conns,         (* the connections clients will make                      *)
  Fds,           (* the descriptors accept() has to give                   *)
  MaxRequests,   (* bound: messages read from a connection                 *)
  Servers,       (* bound: the processes the program is started as         *)
  Minute,        (* seconds in a minute                                    *)
  FirstSecond,   (* the second the log is looked at from                   *)
  MaxClock       (* bound: the last second                                 *)

ASSUME ActivityLogAssumption ==
  /\ {MaxRequests, MaxClock} \subseteq Nat
  /\ Minute \in Nat \ {0}
  /\ FirstSecond \in 0 .. MaxClock

VARIABLES
  proc,          (* of a server: not started, between emptying the file    *)
                 (* and bind(), running, or ended                          *)
  file,          (* the entries of log.txt                                 *)
  to,            (* the server a connection is made to (never changes)     *)
  pc,            (* where main() or its handler is with a connection       *)
  fd,
  req,           (* the messages read from a connection                    *)
  replies,       (* the replies written to it: "logged" or "unlogged"      *)
  since,         (* req when the file was last emptied                     *)
  clock,
  time,          (* what time() gave a log call under way, or None         *)
  seen,          (* the times the shared struct held since the log call    *)
                 (* filled it                                              *)
  alone          (* no other log call of the process was under way         *)
                 (* meanwhile                                              *)

server == <<proc, file, to>>
local == <<pc, fd, req, replies, since>>
stamp == <<time, seen, alone>>
vars == <<server, local, clock, stamp>>

None == -1

(* A log function is being called, by main() for "CONNECTION" and by the   *)
(* handler for the others.                                                 *)
Logging == {"CONNECTION", "FROM", "SEND"}

PC == {"none", "read", "reply", "gone"} \cup Logging

(* Mutant: the handler closes the connection, then logs what it sent.      *)
OpenUntilSent(c) == pc[c] \notin {"none", "gone", "SEND"}

Open(c) == pc[c] \notin {"none", "gone"}

Running(c) == proc[to[c]] = "running"

(* The log calls under way in the process that serves c.                   *)
Calls(c) == {d \in Conns : to[d] = to[c] /\ time[d] # None}

Goto(c, from, next) == Running(c) /\ pc[c] = from /\ pc' = [pc EXCEPT ![c] = next]

-----------------------------------------------------------------------------
(* A log call: time(), localtime(), and the entry.                         *)

TakeTime(c) ==
  /\ Running(c) /\ pc[c] \in Logging /\ time[c] = None
  /\ time' = [time EXCEPT ![c] = clock]
  /\ alone' = [d \in Conns |-> IF d = c THEN Calls(c) = {}
                               ELSE alone[d] /\ d \notin Calls(c)]
  /\ UNCHANGED <<server, local, clock, seen>>

(* Mutant: the struct is copied before localtime() fills it.               *)
LocaltimeStale(c) ==
  /\ Running(c) /\ time[c] # None /\ seen[c] = {}
  /\ seen' = [d \in Conns |-> IF d = c THEN {time[c], 0} ELSE seen[d]]
  /\ UNCHANGED <<server, local, clock, time, alone>>

(* localtime() fills the struct for all of the process who are copying it. *)
Localtime(c) ==
  /\ Running(c) /\ time[c] # None /\ seen[c] = {}
  /\ seen' = [d \in Conns |-> IF d = c \/ (d \in Calls(c) /\ seen[d] # {})
                              THEN seen[d] \cup {time[c]} ELSE seen[d]]
  /\ UNCHANGED <<server, local, clock, time, alone>>

Entry(c) == [kind |-> pc[c], fd |-> fd[c], conn |-> c, req |-> req[c]]

AfterLog == [CONNECTION |-> "read", FROM |-> "reply", SEND |-> "read"]

(* fclose(): the entry is in the file.                                     *)
WriteEntry(c) ==
  /\ Running(c) /\ seen[c] # {}
  /\ file' = Append(file, Entry(c))
  /\ Goto(c, pc[c], AfterLog[pc[c]])
  /\ time' = [time EXCEPT ![c] = None]
  /\ seen' = [seen EXCEPT ![c] = {}]
  /\ alone' = [alone EXCEPT ![c] = TRUE]
  /\ UNCHANGED <<proc, to, fd, req, replies, since, clock>>

-----------------------------------------------------------------------------
(* main() and work_function().                                             *)

(* main() of the server of c is not in connection_log().                   *)
MainIdle(c) == \A d \in Conns : to[d] = to[c] => pc[d] # "CONNECTION"

(* The handler begins once connection_log() has returned.                  *)
Accept(c) ==
  /\ Goto(c, "none", "CONNECTION")
  /\ MainIdle(c)
  /\ \E f \in Fds :
       /\ \A d \in Conns : Open(d) /\ to[d] = to[c] => fd[d] # f
       /\ fd' = [fd EXCEPT ![c] = f]
  /\ UNCHANGED <<server, req, replies, since, clock, stamp>>

(* Too many clients: the connection is closed and leaves no entry.         *)
Refuse(c) ==
  /\ Goto(c, "none", "gone")
  /\ MainIdle(c)
  /\ UNCHANGED <<server, fd, req, replies, since, clock, stamp>>

(* Mutant: the branch is taken first; receive_log() is forgotten.          *)
ReadUnlogged(c) ==
  /\ req[c] < MaxRequests
  /\ Goto(c, "read", "reply")
  /\ req' = [req EXCEPT ![c] = @ + 1]
  /\ UNCHANGED <<server, fd, replies, since, clock, stamp>>

(* Mutant: one message more than the bound.                                *)
ReadOneMore(c) ==
  /\ req[c] <= MaxRequests
  /\ Goto(c, "read", "FROM")
  /\ req' = [req EXCEPT ![c] = @ + 1]
  /\ UNCHANGED <<server, fd, replies, since, clock, stamp>>

Read(c) ==
  /\ req[c] < MaxRequests
  /\ Goto(c, "read", "FROM")
  /\ req' = [req EXCEPT ![c] = @ + 1]
  /\ UNCHANGED <<server, fd, replies, since, clock, stamp>>

(* The client has gone: close(), and no entry.                             *)
Close(c) ==
  /\ Goto(c, "read", "gone")
  /\ UNCHANGED <<server, fd, req, replies, since, clock, stamp>>

Reply(c) ==
  /\ Goto(c, "reply", "SEND")
  /\ replies' = [replies EXCEPT ![c] = Append(@, "logged")]
  /\ UNCHANGED <<server, fd, req, since, clock, stamp>>

(* The ERRO of a WORK over the limit or of the wrong length, and of any    *)
(* line with NULs in it, gets no entry.                                    *)
Reject(c) ==
  /\ Goto(c, "reply", "read")
  /\ replies' = [replies EXCEPT ![c] = Append(@, "unlogged")]
  /\ UNCHANGED <<server, fd, req, since, clock, stamp>>

(* Mutant: the result of write() is not looked at.                         *)
ReplyFailsUnseen(c) ==
  /\ Goto(c, "reply", "SEND")
  /\ UNCHANGED <<server, fd, req, replies, since, clock, stamp>>

(* write() fails: close(), and no entry.                                   *)
ReplyFails(c) ==
  /\ Goto(c, "reply", "gone")
  /\ UNCHANGED <<server, fd, req, replies, since, clock, stamp>>

-----------------------------------------------------------------------------
(* The process.                                                            *)

Tick ==
  /\ clock < MaxClock
  /\ clock' = clock + 1
  /\ UNCHANGED <<server, local, stamp>>

(* A process ends, with what its threads have in stdio's buffers.          *)
Crash(s) ==
  /\ proc[s] = "running" /\ proc' = [proc EXCEPT ![s] = "ended"]
  /\ pc' = [c \in Conns |-> IF to[c] = s /\ Open(c) THEN "gone" ELSE pc[c]]
  /\ time' = [c \in Conns |-> IF to[c] = s THEN None ELSE time[c]]
  /\ seen' = [c \in Conns |-> IF to[c] = s THEN {} ELSE seen[c]]
  /\ alone' = [c \in Conns |-> IF to[c] = s THEN TRUE ELSE alone[c]]
  /\ UNCHANGED <<file, to, fd, req, replies, since, clock>>

(* main(): the log file is created anew, whoever else writes to it.        *)
Start(s) ==
  /\ proc[s] = "none" /\ proc' = [proc EXCEPT ![s] = "starting"]
  /\ file' = <<>>
  /\ since' = req
  /\ UNCHANGED <<to, pc, fd, req, replies, clock, stamp>>

(* The port is an argument: it may be taken or not, whether or not another *)
(* server runs.                                                            *)
Bind(s) ==
  /\ proc[s] = "starting"
  /\ \E then \in {"running", "ended"} : proc' = [proc EXCEPT ![s] = then]
  /\ UNCHANGED <<file, to, local, clock, stamp>>

Init ==
  /\ proc = [s \in Servers |-> "none"] /\ file = <<>>
  /\ to \in [Conns -> Servers]
  /\ pc = [c \in Conns |-> "none"]
  /\ fd \in {[c \in Conns |-> f] : f \in Fds}
  /\ req = [c \in Conns |-> 0] /\ since = req
  /\ replies = [c \in Conns |-> <<>>]
  /\ clock = FirstSecond
  /\ time = [c \in Conns |-> None]
  /\ seen = [c \in Conns |-> {}]
  /\ alone = [c \in Conns |-> TRUE]

Next ==
  \/ \E c \in Conns :
       \/ Accept(c) \/ Refuse(c)
       \/ Read(c) \/ Close(c) \/ Reply(c) \/ Reject(c) \/ ReplyFails(c)
       \/ TakeTime(c) \/ Localtime(c) \/ WriteEntry(c)
  \/ \E s \in Servers : Crash(s) \/ Start(s) \/ Bind(s)
  \/ Tick

Spec == Init /\ [][Next]_vars

-----------------------------------------------------------------------------
(* Properties.                                                             *)

Logged(c, kind, k) ==
  \E i \in 1 .. Len(file) :
    file[i].conn = c /\ file[i].kind = kind /\ file[i].req = k

(* Entries of one server, with one descriptor.                             *)
SameName(i, j) == file[i].fd = file[j].fd /\ to[file[i].conn] = to[file[j].conn]

TypeOK ==
  /\ proc \in [Servers -> {"none", "starting", "running", "ended"}]
  /\ to \in [Conns -> Servers]
  /\ clock \in 0 .. MaxClock
  /\ file \in Seq([kind : Logging, fd : Fds, conn : Conns, req : 0 .. MaxRequests])
  /\ pc \in [Conns -> PC]
  /\ fd \in [Conns -> Fds]
  /\ req \in [Conns -> 0 .. MaxRequests] /\ since \in [Conns -> 0 .. MaxRequests]
  /\ replies \in [Conns -> Seq({"logged", "unlogged"})]
  /\ time \in [Conns -> None .. MaxClock]
  /\ seen \in [Conns -> SUBSET (0 .. MaxClock)]
  /\ alone \in [Conns -> BOOLEAN]

(* No client has a reply to a message that the log does not hold, even     *)
(* after the process has ended: receive_log() has closed the file before   *)
(* the branch begins.  Only messages read before the last start of the     *)
(* program, successful or not, are missing.                                *)
RepliesComeAfterTheLog ==
  \A c \in Conns : \A k \in since[c] + 1 .. Len(replies[c]) : Logged(c, "FROM", k)

(* The log says SEND of a reply only after it was written; and of the      *)
(* replies written, the one to the last message alone may be missing, and  *)
(* those that are never logged.  So whatever other handlers' entries come  *)
(* between, a connection's own are in the order of its conversation: an    *)
(* OKAY to ABRT comes after the SOLN of the job before it.                 *)
SendsKeepUp ==
  /\ \A c \in Conns : \A k \in 1 .. MaxRequests :
       /\ k > Len(replies[c]) => ~Logged(c, "SEND", k)
       /\ since[c] < k /\ k <= Len(replies[c]) /\ replies[c][k] = "logged"
            => k = req[c] \/ Logged(c, "SEND", k)
  /\ \A i \in 1 .. Len(file) : \A j \in i + 1 .. Len(file) :
       file[i].conn = file[j].conn =>
         \/ file[i].req < file[j].req
         \/ file[i].req = file[j].req /\ file[i].kind = "FROM" /\ file[j].kind = "SEND"

(* Within what one server writes the descriptor is enough to tell its      *)
(* connections apart, whatever other servers write in between: the entries *)
(* after a CONNECTION entry, up to the next one with its descriptor, are   *)
(* of that connection.  (An entry does not say whose it is: the log of two *)
(* servers that run side by side cannot be taken apart.)                   *)
DescriptorsTellApart ==
  \A i \in 1 .. Len(file) : file[i].kind = "CONNECTION" =>
    \A j \in i + 1 .. Len(file) :
      /\ SameName(i, j)
      /\ \A k \in i + 1 .. j : SameName(i, k) => file[k].kind # "CONNECTION"
      => file[i].conn = file[j].conn

(* The stamps the entry of c can get.                                      *)
Stamps(c) == {(a \div Minute) * Minute + (b % Minute) : a, b \in seen[c]}

(* The stamp of an entry is the time of its call if no other log call was  *)
(* under way with it.  Otherwise it may be the other's, or a mixture of    *)
(* both, but it is no later than now unless they lie in different minutes. *)
StampsTrue ==
  \A c \in Conns :
    /\ alone[c] => Stamps(c) \subseteq {time[c]}
    /\ \A s \in Stamps(c) :
         s > clock => \E a, b \in seen[c] : a \div Minute # b \div Minute

=============================================================================
