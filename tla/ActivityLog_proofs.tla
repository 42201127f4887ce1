------------------------- MODULE ActivityLog_proofs -------------------------
(***************************************************************************)
(* What can be read off log.txt, for any number of connections, messages,  *)
(* descriptors and servers, and any length of a minute.                    *)
(***************************************************************************)
EXTENDS ActivityLog, SequenceTheorems, TLAPS

LEMMA Bounds ==
  /\ MaxRequests \in Nat /\ MaxClock \in Nat
  /\ Minute \in Nat /\ Minute > 0
  /\ FirstSecond \in 0 .. MaxClock
BY ActivityLogAssumption DEF ActivityLogAssumption

(* A struct is being copied only in a call, a call is made only at one of  *)
(* the three control points for it.                                        *)
InCall ==
  \A c \in Conns :
    /\ seen[c] # {} => time[c] # None
    /\ time[c] # None => pc[c] \in Logging

TypeInv == TypeOK /\ InCall

EntryType == [kind : Logging, fd : Fds, conn : Conns, req : 0 .. MaxRequests]

LEMMA InitTypeInv == Init => TypeInv
<1> SUFFICES ASSUME Init PROVE TypeInv
  OBVIOUS
<1>1. file \in Seq(EntryType)
  BY DEF Init
<1>2. \A c \in Conns : replies[c] \in Seq({"logged", "unlogged"})
  BY DEF Init
<1>3. replies \in [Conns -> Seq({"logged", "unlogged"})]
  BY <1>2 DEF Init
<1>4. time \in [Conns -> None .. MaxClock] /\ seen \in [Conns -> SUBSET (0 .. MaxClock)]
  BY Bounds DEF Init, None
<1>5. req \in [Conns -> 0 .. MaxRequests] /\ fd \in [Conns -> Fds]
  BY Bounds DEF Init
<1>6. pc \in [Conns -> PC] /\ alone \in [Conns -> BOOLEAN]
  BY DEF Init, PC
<1>7. proc \in [Servers -> {"none", "starting", "running", "ended"}] /\ to \in [Conns -> Servers]
  BY DEF Init
<1>8. clock \in 0 .. MaxClock
  BY Bounds DEF Init
<1>9. since = req
  BY DEF Init
<1>10. InCall
  BY DEF Init, InCall
<1> QED
  BY <1>1, <1>3, <1>4, <1>5, <1>6, <1>7, <1>8, <1>9, <1>10 DEF TypeInv, TypeOK, EntryType

LEMMA TypeStep == TypeInv /\ [Next]_vars => TypeInv'
<1> SUFFICES ASSUME TypeInv, [Next]_vars PROVE TypeInv'
  OBVIOUS
<1> USE DEF TypeInv, TypeOK, InCall, PC, Logging, None, Goto, server, local, stamp
<1>1. ASSUME NEW c \in Conns, Accept(c) \/ Refuse(c) PROVE TypeInv'
  <2>1. CASE Accept(c) BY <2>1 DEF Accept
  <2>2. CASE Refuse(c) BY <2>2 DEF Refuse
  <2> QED BY <1>1, <2>1, <2>2
<1>2. ASSUME NEW c \in Conns, Read(c) \/ Close(c) PROVE TypeInv'
  <2>1. CASE Read(c)
    <3>1. req' \in [Conns -> 0 .. MaxRequests] /\ pc' \in [Conns -> PC]
      BY <2>1, Bounds DEF Read
    <3> QED BY <2>1, <3>1 DEF Read
  <2>2. CASE Close(c) BY <2>2 DEF Close
  <2> QED BY <1>2, <2>1, <2>2
<1>3. ASSUME NEW c \in Conns, Reply(c) \/ Reject(c) PROVE TypeInv'
  <2>1. \A r \in {"logged", "unlogged"} :
          Append(replies[c], r) \in Seq({"logged", "unlogged"})
    BY AppendProperties
  <2>2. replies' \in [Conns -> Seq({"logged", "unlogged"})]
    BY <1>3, <2>1 DEF Reply, Reject
  <2> QED BY <1>3, <2>2 DEF Reply, Reject
<1>4. ASSUME NEW c \in Conns, ReplyFails(c) PROVE TypeInv'
  BY <1>4 DEF ReplyFails
<1>5. ASSUME NEW c \in Conns, TakeTime(c) PROVE TypeInv'
  <2>1. alone' \in [Conns -> BOOLEAN]
    BY <1>5 DEF TakeTime
  <2>2. time' \in [Conns -> None .. MaxClock]
    BY <1>5 DEF TakeTime
  <2>3. InCall'
    BY <1>5 DEF TakeTime
  <2> QED BY <1>5, <2>1, <2>2, <2>3 DEF TakeTime
<1>6. ASSUME NEW c \in Conns, Localtime(c) PROVE TypeInv'
  <2>1. time[c] \in 0 .. MaxClock
    BY <1>6 DEF Localtime
  <2> QED BY <1>6, <2>1 DEF Localtime
<1>7. ASSUME NEW c \in Conns, WriteEntry(c) PROVE TypeInv'
  <2>1. pc[c] \in Logging /\ Entry(c) \in EntryType
    BY <1>7 DEF WriteEntry, Entry, EntryType
  <2>2. file' \in Seq(EntryType)
    BY <1>7, <2>1, AppendProperties DEF WriteEntry, EntryType
  <2>3. pc' \in [Conns -> PC]
    BY <1>7, <2>1 DEF WriteEntry, AfterLog
  <2>4. time' \in [Conns -> None .. MaxClock] /\ seen' \in [Conns -> SUBSET (0 .. MaxClock)]
    BY <1>7, Bounds DEF WriteEntry
  <2>5. alone' \in [Conns -> BOOLEAN]
    BY <1>7 DEF WriteEntry
  <2>6. InCall'
    BY <1>7 DEF WriteEntry
  <2> QED BY <1>7, <2>2, <2>3, <2>4, <2>5, <2>6 DEF WriteEntry, EntryType
<1>8. ASSUME Tick PROVE TypeInv'
  BY <1>8, Bounds DEF Tick
<1>9. ASSUME NEW s \in Servers, Crash(s) PROVE TypeInv'
  <2>1. pc' \in [Conns -> PC] /\ alone' \in [Conns -> BOOLEAN]
    BY <1>9 DEF Crash
  <2>2. time' \in [Conns -> None .. MaxClock] /\ seen' \in [Conns -> SUBSET (0 .. MaxClock)]
    BY <1>9, Bounds DEF Crash
  <2>3. InCall'
    BY <1>9 DEF Crash, Open
  <2>4. proc' \in [Servers -> {"none", "starting", "running", "ended"}]
    BY <1>9 DEF Crash
  <2> QED BY <1>9, <2>1, <2>2, <2>3, <2>4 DEF Crash
<1>10. ASSUME NEW s \in Servers, Start(s) \/ Bind(s) PROVE TypeInv'
  <2>1. proc' \in [Servers -> {"none", "starting", "running", "ended"}]
    BY <1>10 DEF Start, Bind
  <2>2. CASE Start(s) BY <2>1, <2>2, Bounds DEF Start
  <2>3. CASE Bind(s) BY <2>1, <2>3 DEF Bind
  <2> QED BY <1>10, <2>2, <2>3
<1>11. CASE UNCHANGED vars
  BY <1>11 DEF vars
<1> QED
  BY <1>1, <1>2, <1>3, <1>4, <1>5, <1>6, <1>7, <1>8, <1>9, <1>10, <1>11 DEF Next

LEMMA TypeAlways == Spec => []TypeInv
BY InitTypeInv, TypeStep, PTL DEF Spec

(* Every variable keeps its type, whatever handlers, clients and starts of *)
(* the program do.                                                         *)
THEOREM LogTypeCorrect == Spec => []TypeOK
BY TypeAlways, PTL DEF TypeInv

-----------------------------------------------------------------------------
(* Stamps.                                                                 *)

(* No call has a time from the future, and a call that was alone so far    *)
(* has seen its own time only, and is the only one.                        *)
Times ==
  \A c \in Conns :
    /\ time[c] <= clock /\ seen[c] \subseteq 0 .. clock
    /\ alone[c] => seen[c] \subseteq {time[c]}
    /\ alone[c] /\ time[c] # None => \A d \in Conns \ {c} : to[d] = to[c] => time[d] = None

LEMMA InitTimes == Init => Times
BY Bounds DEF Init, Times, None

LEMMA TimesStep == TypeInv /\ Times /\ [Next]_vars => Times'
<1> SUFFICES ASSUME TypeInv, Times, [Next]_vars PROVE Times'
  OBVIOUS
<1>0. /\ time \in [Conns -> None .. MaxClock] /\ seen \in [Conns -> SUBSET (0 .. MaxClock)]
      /\ alone \in [Conns -> BOOLEAN] /\ clock \in Int
      /\ \A c \in Conns : seen[c] # {} => time[c] # None
  BY Bounds DEF TypeInv, TypeOK, InCall
<1>1. CASE UNCHANGED <<to, clock, stamp>>
  BY <1>1 DEF Times, stamp
<1>2. ASSUME NEW c \in Conns, TakeTime(c) PROVE Times'
  <2>1. /\ time' = [time EXCEPT ![c] = clock] /\ clock' = clock /\ seen' = seen /\ to' = to
        /\ time[c] = None /\ seen[c] = {}
    BY <1>0, <1>2 DEF TakeTime, server
  <2>2. alone'[c] => \A d \in Conns : to[d] = to[c] => time[d] = None
    BY <1>2 DEF TakeTime, Calls
  <2>3. \A d \in Conns \ {c} : alone'[d] => alone[d] /\ (to[d] = to[c] => time[d] = None)
    BY <1>2 DEF TakeTime, Calls
  <2>4. ASSUME NEW d \in Conns, alone'[d] PROVE seen'[d] \subseteq {time'[d]}
    BY <1>0, <2>1, <2>3, <2>4 DEF Times
  <2>5. ASSUME NEW d \in Conns, alone'[d], time'[d] # None
        PROVE  \A e \in Conns \ {d} : to'[e] = to'[d] => time'[e] = None
    <3>1. CASE d = c
      BY <1>0, <2>1, <2>2, <2>5, <3>1
    <3>2. CASE d # c
      BY <1>0, <2>1, <2>3, <2>5, <3>2 DEF Times
    <3> QED BY <3>1, <3>2
  <2>6. \A d \in Conns : time'[d] <= clock' /\ seen'[d] \subseteq 0 .. clock'
    BY <1>0, <2>1 DEF Times
  <2> QED BY <2>4, <2>5, <2>6 DEF Times
<1>3. ASSUME NEW c \in Conns, Localtime(c) PROVE Times'
  <2>1. /\ time' = time /\ clock' = clock /\ alone' = alone /\ to' = to
        /\ time[c] # None /\ seen[c] = {}
        /\ time[c] \in 0 .. clock
    BY <1>0, <1>3 DEF Localtime, Times, None, server
  <2>2. \A d \in Conns : seen'[d] = IF d = c \/ (d \in Calls(c) /\ seen[d] # {})
                                       THEN seen[d] \cup {time[c]} ELSE seen[d]
    BY <1>0, <1>3 DEF Localtime
  <2>3. \A d \in Conns : seen'[d] \subseteq 0 .. clock'
    BY <2>1, <2>2 DEF Times
  <2>4. ASSUME NEW d \in Conns, alone'[d] PROVE seen'[d] \subseteq {time'[d]}
    <3>1. CASE d = c BY <2>1, <2>2, <3>1
    <3>2. CASE d # c
      <4>1. seen[d] # {} => d \notin Calls(c)
        BY <1>0, <2>1, <2>4, <3>2 DEF Times, Calls
      <4>2. seen'[d] = seen[d]
        BY <2>2, <3>2, <4>1
      <4> QED BY <2>1, <2>4, <4>2 DEF Times
    <3> QED BY <3>1, <3>2
  <2> QED BY <2>1, <2>3, <2>4 DEF Times
<1>4. ASSUME NEW c \in Conns, WriteEntry(c) PROVE Times'
  <2>1. /\ time' = [time EXCEPT ![c] = None] /\ seen' = [seen EXCEPT ![c] = {}]
        /\ alone' = [alone EXCEPT ![c] = TRUE] /\ clock' = clock /\ to' = to
    BY <1>4 DEF WriteEntry
  <2>2. None <= clock
    BY <1>0, Bounds DEF TypeInv, TypeOK, None
  <2> QED BY <1>0, <2>1, <2>2 DEF Times
<1>5. ASSUME Tick PROVE Times'
  BY <1>0, <1>5 DEF Tick, stamp, server, Times
<1>6. ASSUME NEW s \in Servers, Crash(s) PROVE Times'
  <2>1. None <= clock
    BY <1>0, Bounds DEF TypeInv, TypeOK, None
  <2> QED BY <1>6, <2>1 DEF Crash, Times
<1>7. ASSUME NEW c \in Conns, Accept(c) \/ Refuse(c) \/ Read(c) \/ Close(c) \/ Reply(c) \/ Reject(c) \/ ReplyFails(c)
      PROVE  UNCHANGED <<to, clock, stamp>>
  BY <1>7 DEF Accept, Refuse, Read, Close, Reply, Reject, ReplyFails, server
<1>8. ASSUME NEW s \in Servers, Start(s) \/ Bind(s) PROVE UNCHANGED <<to, clock, stamp>>
  BY <1>8 DEF Start, Bind
<1>9. ASSUME UNCHANGED vars PROVE UNCHANGED <<to, clock, stamp>>
  BY <1>9 DEF vars, server
<1> QED
  BY <1>1, <1>2, <1>3, <1>4, <1>5, <1>6, <1>7, <1>8, <1>9 DEF Next

LEMMA Division == \A a \in Nat : (a \div Minute) * Minute + (a % Minute) = a
BY Bounds

(* The stamp of an entry is the time of its call unless another call was   *)
(* under way, and even then it is never later than now, as long as the two *)
(* calls lie in one minute: what localtime()'s one struct can do to the    *)
(* log.                                                                    *)
THEOREM StampsTrueHolds == Spec => []StampsTrue
<1>1. TypeInv /\ Times => StampsTrue
  <2> SUFFICES ASSUME TypeInv, Times, NEW c \in Conns
               PROVE  /\ alone[c] => Stamps(c) \subseteq {time[c]}
                      /\ \A s \in Stamps(c) :
                           s > clock => \E a, b \in seen[c] : a \div Minute # b \div Minute
    BY DEF StampsTrue
  <2>1. \A a \in seen[c] : a \in Nat /\ a <= clock
    BY Bounds DEF Times, TypeInv, TypeOK
  <2>2. ASSUME alone[c], NEW s \in Stamps(c) PROVE s = time[c]
    <3>1. PICK a \in seen[c], b \in seen[c] : s = (a \div Minute) * Minute + (b % Minute)
      BY DEF Stamps
    <3>2. a = time[c] /\ b = time[c]
      BY <2>2 DEF Times
    <3> QED BY <2>1, <3>1, <3>2, Division
  <2>3. ASSUME NEW s \in Stamps(c), s > clock
        PROVE  \E a, b \in seen[c] : a \div Minute # b \div Minute
    <3>1. PICK a \in seen[c], b \in seen[c] : s = (a \div Minute) * Minute + (b % Minute)
      BY DEF Stamps
    <3>2. CASE a \div Minute = b \div Minute
      <4>1. s = b
        BY <2>1, <3>1, <3>2, Division
      <4>2. clock \in Nat
        BY DEF TypeInv, TypeOK
      <4> QED BY <2>1, <2>3, <4>1, <4>2
    <3> QED BY <3>2
  <2> QED BY <2>2, <2>3
<1>2. Spec => []Times
  BY TypeAlways, InitTimes, TimesStep, PTL DEF Spec
<1> QED
  BY <1>1, <1>2, TypeAlways, PTL

-----------------------------------------------------------------------------
(* The conversation and the log.                                           *)

(* One reply for each message read, from the branch on; the file was last  *)
(* emptied at some message before.                                         *)
Talk ==
  \A c \in Conns :
    /\ Len(replies[c]) <= req[c] /\ since[c] <= req[c]
    /\ pc[c] \in {"none", "CONNECTION"} => req[c] = 0
    /\ pc[c] \in {"read", "SEND"} => Len(replies[c]) = req[c]
    /\ pc[c] \in {"FROM", "reply"} => Len(replies[c]) = req[c] - 1

LEMMA ReplyLengths ==
  ASSUME TypeOK
  PROVE  \A c \in Conns :
           /\ replies[c] \in Seq({"logged", "unlogged"})
           /\ Len(replies[c]) \in Nat /\ req[c] \in Nat /\ since[c] \in Nat
           /\ \A r \in {"logged", "unlogged"} :
                /\ Len(Append(replies[c], r)) = Len(replies[c]) + 1
                /\ \A k \in 1 .. Len(replies[c]) : Append(replies[c], r)[k] = replies[c][k]
                /\ Append(replies[c], r)[Len(replies[c]) + 1] = r
<1>1. \A c \in Conns : replies[c] \in Seq({"logged", "unlogged"}) /\ req[c] \in Nat /\ since[c] \in Nat
  BY Bounds DEF TypeOK
<1> QED
  BY <1>1, AppendProperties, LenProperties

LEMMA InitTalk == Init => Talk
BY DEF Init, Talk

LEMMA TalkStep == TypeInv /\ Talk /\ [Next]_vars => Talk'
<1> SUFFICES ASSUME TypeInv, Talk, [Next]_vars PROVE Talk'
  OBVIOUS
<1>0. /\ pc \in [Conns -> PC] /\ req \in [Conns -> 0 .. MaxRequests]
      /\ since \in [Conns -> 0 .. MaxRequests]
      /\ replies \in [Conns -> Seq({"logged", "unlogged"})]
      /\ \A c \in Conns : Len(replies[c]) \in Nat /\ req[c] \in Nat /\ since[c] \in Nat
  BY ReplyLengths DEF TypeInv, TypeOK
<1> USE DEF Talk, Goto
<1>1. ASSUME NEW c \in Conns, Accept(c) \/ Refuse(c) PROVE Talk'
  BY <1>0, <1>1 DEF Accept, Refuse
<1>2. ASSUME NEW c \in Conns, Read(c) PROVE Talk'
  BY <1>0, <1>2 DEF Read
<1>3. ASSUME NEW c \in Conns, Close(c) \/ ReplyFails(c) PROVE Talk'
  BY <1>0, <1>3 DEF Close, ReplyFails
<1>4. ASSUME NEW c \in Conns, Reply(c) \/ Reject(c) PROVE Talk'
  <2>1. /\ pc[c] = "reply" /\ pc' \in {[pc EXCEPT ![c] = p] : p \in {"SEND", "read"}}
        /\ req' = req /\ since' = since
        /\ \E r \in {"logged", "unlogged"} : replies' = [replies EXCEPT ![c] = Append(@, r)]
    BY <1>4 DEF Reply, Reject
  <2>2. Len(replies'[c]) = Len(replies[c]) + 1
    BY <1>0, <2>1, ReplyLengths DEF TypeInv
  <2>3. \A d \in Conns \ {c} : replies'[d] = replies[d] /\ pc'[d] = pc[d]
    BY <1>0, <2>1
  <2>4. pc'[c] \in {"SEND", "read"}
    BY <1>0, <2>1
  <2> QED BY <1>0, <2>1, <2>2, <2>3, <2>4
<1>5. ASSUME NEW c \in Conns, WriteEntry(c) PROVE Talk'
  <2>1. pc[c] \in Logging
    BY <1>5 DEF WriteEntry, TypeInv, InCall
  <2> QED BY <1>0, <1>5, <2>1 DEF WriteEntry, Logging, AfterLog
<1>6. ASSUME NEW s \in Servers, Crash(s) PROVE Talk'
  BY <1>0, <1>6 DEF Crash, Open
<1>7. ASSUME NEW s \in Servers, Start(s) PROVE Talk'
  BY <1>0, <1>7 DEF Start
<1>8. ASSUME NEW c \in Conns, TakeTime(c) \/ Localtime(c) PROVE UNCHANGED local
  BY <1>8 DEF TakeTime, Localtime
<1>9. ASSUME Tick \/ (\E s \in Servers : Bind(s)) \/ UNCHANGED vars PROVE UNCHANGED local
  BY <1>9 DEF Tick, Bind, vars
<1>10. CASE UNCHANGED local
  BY <1>10 DEF local
<1> QED
  BY <1>1, <1>2, <1>3, <1>4, <1>5, <1>6, <1>7, <1>8, <1>9, <1>10 DEF Next

(* The messages the log holds: all since it was emptied but the one being  *)
(* logged, or the one whose entry was lost with the process.               *)
FromsLogged ==
  \A c \in Conns : \A k \in since[c] + 1 .. req[c] :
    \/ Logged(c, "FROM", k)
    \/ k > Len(replies[c]) /\ pc[c] \in {"FROM", "gone"}

(* An entry more in the log takes nothing from it.                         *)
LEMMA LogGrows ==
  ASSUME TypeInv, NEW c \in Conns, WriteEntry(c)
  PROVE  /\ Entry(c) \in EntryType /\ file \in Seq(EntryType) /\ Len(file) \in Nat
         /\ Len(file') = Len(file) + 1
         /\ \A i \in 1 .. Len(file) : file'[i] = file[i] /\ file[i] \in EntryType
         /\ file'[Len(file) + 1] = Entry(c)
<1>1. Entry(c) \in EntryType
  BY DEF WriteEntry, TypeInv, TypeOK, InCall, Entry, EntryType
<1>2. file \in Seq(EntryType) /\ file' = Append(file, Entry(c))
  BY DEF WriteEntry, TypeInv, TypeOK, EntryType
<1>3. Len(file) \in Nat /\ \A i \in 1 .. Len(file) : file[i] \in EntryType
  BY <1>2, LenProperties, ElementOfSeq
<1> QED
  BY <1>1, <1>2, <1>3, AppendProperties

LEMMA LoggedStays ==
  ASSUME TypeInv, NEW c \in Conns, WriteEntry(c)
  PROVE  /\ \A d, kind, k : Logged(d, kind, k) => Logged(d, kind, k)'
         /\ \A kind, k : kind = pc[c] /\ k = req[c] => Logged(c, kind, k)'
<1>1. ASSUME NEW d, NEW kind, NEW k, Logged(d, kind, k) PROVE Logged(d, kind, k)'
  BY <1>1, LogGrows DEF Logged
<1>2. file'[Len(file) + 1] = Entry(c) /\ Len(file) \in Nat /\ Len(file') = Len(file) + 1
  BY LogGrows
<1>3. \E i \in 1 .. Len(file') : file'[i].conn = c /\ file'[i].kind = pc[c] /\ file'[i].req = req[c]
  BY <1>2 DEF Entry
<1> QED
  BY <1>1, <1>3 DEF Logged

LEMMA InitFromsLogged == Init => FromsLogged
BY DEF Init, FromsLogged

LEMMA FromsLoggedStep ==
  TypeInv /\ Talk /\ FromsLogged /\ [Next]_vars => FromsLogged'
<1> SUFFICES ASSUME TypeInv, Talk, FromsLogged, [Next]_vars PROVE FromsLogged'
  OBVIOUS
<1>0. /\ pc \in [Conns -> PC] /\ req \in [Conns -> 0 .. MaxRequests]
      /\ replies \in [Conns -> Seq({"logged", "unlogged"})]
      /\ \A c \in Conns : Len(replies[c]) \in Nat /\ req[c] \in Nat /\ since[c] \in Nat
  BY ReplyLengths DEF TypeInv, TypeOK
<1>1. ASSUME file' = file PROVE \A c, kind, k : Logged(c, kind, k)' <=> Logged(c, kind, k)
  BY <1>1 DEF Logged
<1>2. ASSUME NEW c \in Conns, Accept(c) \/ Refuse(c) PROVE FromsLogged'
  <2>1. /\ UNCHANGED <<file, req, replies, since>> /\ pc[c] = "none"
        /\ \A d \in Conns \ {c} : pc'[d] = pc[d]
    BY <1>0, <1>2 DEF Accept, Refuse, server, Goto
  <2>2. req[c] = 0
    BY <2>1 DEF Talk
  <2> QED BY <1>0, <1>1, <2>1, <2>2 DEF FromsLogged
<1>3. ASSUME NEW c \in Conns, Read(c) PROVE FromsLogged'
  <2>1. /\ UNCHANGED <<file, replies, since>> /\ pc[c] = "read" /\ pc'[c] = "FROM"
        /\ req'[c] = req[c] + 1
        /\ \A d \in Conns \ {c} : pc'[d] = pc[d] /\ req'[d] = req[d]
    BY <1>0, <1>3 DEF Read, server, Goto
  <2>2. Len(replies[c]) = req[c]
    BY <2>1 DEF Talk
  <2>3. ASSUME NEW k \in since[c] + 1 .. req[c] PROVE Logged(c, "FROM", k)'
    BY <1>1, <2>1, <2>3 DEF FromsLogged
  <2>4. ASSUME NEW d \in Conns \ {c}, NEW k \in since[d] + 1 .. req[d]
        PROVE  \/ Logged(d, "FROM", k)'
               \/ k > Len(replies[d]) /\ pc'[d] \in {"FROM", "gone"}
    BY <1>1, <2>1 DEF FromsLogged
  <2>5. \A k \in since[c] + 1 .. req'[c] :
          Logged(c, "FROM", k)' \/ (k > Len(replies[c]) /\ pc'[c] = "FROM")
    BY <1>0, <2>1, <2>2, <2>3
  <2> QED BY <2>1, <2>4, <2>5 DEF FromsLogged
<1>4. ASSUME NEW c \in Conns, Close(c) \/ ReplyFails(c) PROVE FromsLogged'
  <2>1. /\ UNCHANGED <<file, req, replies, since>> /\ pc[c] \in {"read", "reply"}
        /\ \A d \in Conns \ {c} : pc'[d] = pc[d]
    BY <1>0, <1>4 DEF Close, ReplyFails, server, Goto
  <2> QED BY <1>1, <2>1 DEF FromsLogged
<1>5. ASSUME NEW c \in Conns, Reply(c) \/ Reject(c) PROVE FromsLogged'
  <2>1. /\ UNCHANGED <<file, req, since>> /\ pc[c] = "reply"
        /\ \A d \in Conns \ {c} : pc'[d] = pc[d] /\ replies'[d] = replies[d]
    BY <1>0, <1>5 DEF Reply, Reject, server, Goto
  <2>2. \A k \in since[c] + 1 .. req[c] : Logged(c, "FROM", k)
    BY <2>1 DEF FromsLogged
  <2> QED BY <1>1, <2>1, <2>2 DEF FromsLogged
<1>6. ASSUME NEW c \in Conns, WriteEntry(c) PROVE FromsLogged'
  <2>1. /\ UNCHANGED <<req, replies, since>> /\ pc[c] \in Logging
        /\ \A d \in Conns \ {c} : pc'[d] = pc[d]
    BY <1>0, <1>6 DEF WriteEntry, Goto, TypeInv, InCall
  <2>2. ASSUME NEW d \in Conns, NEW k \in since[d] + 1 .. req[d]
        PROVE  Logged(d, "FROM", k)' \/ (k > Len(replies[d]) /\ pc'[d] \in {"FROM", "gone"})
    <3>1. CASE Logged(d, "FROM", k)
      BY <1>6, <3>1, LoggedStays
    <3>2. CASE ~Logged(d, "FROM", k) /\ d # c
      BY <2>1, <3>2 DEF FromsLogged
    <3>3. CASE ~Logged(d, "FROM", k) /\ d = c
      <4>1. k > Len(replies[c]) /\ pc[c] = "FROM"
        BY <2>1, <3>3 DEF FromsLogged, Logging
      <4>2. k = req[c]
        BY <1>0, <3>3, <4>1 DEF Talk
      <4> QED BY <1>6, <3>3, <4>1, <4>2, LoggedStays
    <3> QED BY <3>1, <3>2, <3>3
  <2> QED BY <2>1, <2>2 DEF FromsLogged
<1>7. ASSUME NEW s \in Servers, Crash(s) PROVE FromsLogged'
  <2>1. /\ UNCHANGED <<file, req, replies, since>>
        /\ \A c \in Conns : pc'[c] = pc[c] \/ pc'[c] = "gone"
    BY <1>0, <1>7 DEF Crash
  <2> QED BY <1>1, <2>1 DEF FromsLogged
<1>8. ASSUME NEW s \in Servers, Start(s) PROVE FromsLogged'
  BY <1>0, <1>8 DEF Start, FromsLogged
<1>9. ASSUME NEW c \in Conns, TakeTime(c) \/ Localtime(c) PROVE UNCHANGED <<file, local>>
  BY <1>9 DEF TakeTime, Localtime, server
<1>10. ASSUME Tick \/ (\E s \in Servers : Bind(s)) \/ UNCHANGED vars PROVE UNCHANGED <<file, local>>
  BY <1>10 DEF Tick, Bind, vars, server
<1>11. CASE UNCHANGED <<file, local>>
  BY <1>1, <1>11 DEF local, FromsLogged
<1> QED
  BY <1>2, <1>3, <1>4, <1>5, <1>6, <1>7, <1>8, <1>9, <1>10, <1>11 DEF Next

(* No client has a reply to a message the log does not hold, wherever the  *)
(* process ended: only a start of the program takes messages out of it.    *)
THEOREM RepliesComeAfterTheLogHolds == Spec => []RepliesComeAfterTheLog
<1>1. TypeInv /\ Talk /\ FromsLogged => RepliesComeAfterTheLog
  <2> SUFFICES ASSUME TypeInv, Talk, FromsLogged, NEW c \in Conns,
                      NEW k \in since[c] + 1 .. Len(replies[c])
               PROVE  Logged(c, "FROM", k)
    BY DEF RepliesComeAfterTheLog
  <2>1. Len(replies[c]) <= req[c] /\ Len(replies[c]) \in Nat /\ req[c] \in Nat /\ since[c] \in Nat
    BY ReplyLengths DEF Talk, TypeInv
  <2> QED BY <2>1 DEF FromsLogged
<1>2. Spec => []Talk
  BY TypeAlways, InitTalk, TalkStep, PTL DEF Spec
<1>3. Spec => []FromsLogged
  BY <1>2, TypeAlways, InitFromsLogged, FromsLoggedStep, PTL DEF Spec
<1> QED
  BY <1>1, <1>2, <1>3, TypeAlways, PTL

-----------------------------------------------------------------------------
(* Whose an entry is.                                                      *)

(* The newest CONNECTION entry of its server and descriptor.               *)
Newest(i) ==
  /\ file[i].kind = "CONNECTION"
  /\ \A k \in i + 1 .. Len(file) : SameName(i, k) => file[k].kind # "CONNECTION"

Entered == {"read", "FROM", "reply", "SEND"}

(* Open connections of one server have different descriptors, and one that *)
(* has its CONNECTION entry has the newest of its server and descriptor.   *)
OwnDescriptor ==
  /\ \A c, d \in Conns : c # d /\ to[c] = to[d] /\ Open(c) /\ Open(d) => fd[c] # fd[d]
  /\ \A c \in Conns : pc[c] \in Entered =>
       \A i \in 1 .. Len(file) :
         Newest(i) /\ file[i].fd = fd[c] /\ to[file[i].conn] = to[c] => file[i].conn = c

ApartInv == OwnDescriptor /\ DescriptorsTellApart

LEMMA InitApart == Init => ApartInv
BY DEF Init, ApartInv, OwnDescriptor, DescriptorsTellApart, Open, Entered

(* Nothing but an entry, an accept() or a start can disturb it.            *)
LEMMA ApartFrame ==
  ASSUME ApartInv, UNCHANGED <<file, to, fd>>,
         \A d \in Conns :
           /\ Open(d)' => Open(d)
           /\ pc'[d] \in Entered => pc[d] \in Entered
  PROVE  ApartInv'
<1>1. \A i : Newest(i)' <=> Newest(i)
  BY DEF Newest, SameName
<1>2. OwnDescriptor'
  BY <1>1 DEF ApartInv, OwnDescriptor
<1>3. DescriptorsTellApart'
  BY DEF ApartInv, DescriptorsTellApart, SameName
<1> QED
  BY <1>2, <1>3 DEF ApartInv

LEMMA EntryApart ==
  ASSUME TypeInv, ApartInv, NEW c \in Conns, WriteEntry(c)
  PROVE  ApartInv'
<1> DEFINE n == Len(file)
<1>1. /\ n \in Nat /\ Len(file') = n + 1
      /\ \A i \in 1 .. n : file'[i] = file[i]
      /\ file'[n + 1].kind = pc[c] /\ file'[n + 1].fd = fd[c] /\ file'[n + 1].conn = c
  <2>1. /\ Len(file) \in Nat /\ Len(file') = Len(file) + 1
        /\ \A i \in 1 .. Len(file) : file'[i] = file[i]
        /\ file'[Len(file) + 1] = Entry(c)
    BY LogGrows
  <2> QED BY <2>1 DEF Entry
<1> HIDE DEF n
<1>2. /\ pc[c] \in Logging /\ fd' = fd /\ to' = to /\ pc'[c] \in {"read", "reply"}
      /\ \A d \in Conns \ {c} : pc'[d] = pc[d]
  BY DEF WriteEntry, Goto, TypeInv, TypeOK, InCall, Logging, AfterLog
<1>3. \A i, k \in 1 .. n : SameName(i, k)' <=> SameName(i, k)
  BY <1>1, <1>2 DEF SameName
<1>4. ASSUME NEW i \in 1 .. n, Newest(i)' PROVE Newest(i)
  <2>1. \A k \in i + 1 .. n : k \in i + 1 .. Len(file') /\ k \in 1 .. n /\ file'[k] = file[k]
    BY <1>1
  <2> QED BY <1>1, <1>3, <1>4, <2>1 DEF Newest, n
<1>5. \A d \in Conns : Open(d)' => Open(d)
  BY <1>2 DEF Open, Logging
<1>6. \A d, e \in Conns : d # e /\ to'[d] = to'[e] /\ Open(d)' /\ Open(e)' => fd'[d] # fd'[e]
  BY <1>2, <1>5 DEF ApartInv, OwnDescriptor
<1>7. ASSUME NEW d \in Conns, pc'[d] \in Entered, NEW i \in 1 .. Len(file'),
             Newest(i)', file'[i].fd = fd'[d], to'[file'[i].conn] = to'[d]
      PROVE  file'[i].conn = d
  <2>1. CASE i = n + 1
    <3>1. pc[c] = "CONNECTION" /\ fd[c] = fd[d] /\ to[c] = to[d]
      BY <1>1, <1>2, <1>7, <2>1 DEF Newest
    <3>2. Open(c) /\ Open(d)
      BY <1>2, <1>7, <3>1 DEF Open, Entered
    <3> QED BY <1>1, <2>1, <3>1, <3>2 DEF ApartInv, OwnDescriptor
  <2>2. CASE i # n + 1
    <3>1. i \in 1 .. n /\ file'[i] = file[i]
      BY <1>1, <1>7, <2>2
    <3>2. Newest(i) /\ file[i].fd = fd[d] /\ to[file[i].conn] = to[d]
      BY <1>2, <1>4, <1>7, <3>1
    <3>3. pc[d] \in Entered
      <4>1. CASE d # c
        BY <1>2, <1>7, <4>1
      <4>2. CASE d = c
        <5>1. PICK m \in i + 1 .. Len(file') : m = n + 1
          BY <1>1, <3>1
        <5>2. SameName(i, m)'
          BY <1>1, <1>2, <1>7, <4>2, <5>1 DEF SameName
        <5>3. pc[c] # "CONNECTION"
          BY <1>1, <1>7, <5>1, <5>2 DEF Newest
        <5> QED BY <1>2, <4>2, <5>3 DEF Logging, Entered
      <4> QED BY <4>1, <4>2
    <3> QED BY <3>1, <3>2, <3>3 DEF ApartInv, OwnDescriptor, n
  <2> QED BY <2>1, <2>2
<1>8. ASSUME NEW i \in 1 .. Len(file'), file'[i].kind = "CONNECTION",
             NEW j \in i + 1 .. Len(file'), SameName(i, j)',
             \A k \in i + 1 .. j : SameName(i, k)' => file'[k].kind # "CONNECTION"
      PROVE  file'[i].conn = file'[j].conn
  <2>1. i \in 1 .. n /\ file'[i] = file[i]
    BY <1>1, <1>8
  <2>2. CASE j # n + 1
    <3>1. j \in i + 1 .. n /\ file'[j] = file[j] /\ SameName(i, j)
      BY <1>1, <1>3, <1>8, <2>1, <2>2
    <3>2. \A k \in i + 1 .. j : file'[k] = file[k] /\ (SameName(i, k)' <=> SameName(i, k))
      BY <1>1, <1>3, <2>1, <3>1
    <3>3. \A k \in i + 1 .. j : SameName(i, k) => file[k].kind # "CONNECTION"
      BY <1>8, <3>2
    <3> QED BY <1>8, <2>1, <3>1, <3>3 DEF ApartInv, DescriptorsTellApart, n
  <2>3. CASE j = n + 1
    <3>1. \A k \in i + 1 .. n :
            k \in i + 1 .. j /\ file'[k] = file[k] /\ (SameName(i, k)' <=> SameName(i, k))
      BY <1>1, <1>3, <2>1, <2>3
    <3>2. Newest(i)
      BY <1>8, <2>1, <3>1 DEF Newest, n
    <3>3. file[i].fd = fd[c] /\ to[file[i].conn] = to[c]
      BY <1>1, <1>2, <1>8, <2>1, <2>3 DEF SameName
    <3>4. pc[c] # "CONNECTION"
      <4>1. j \in i + 1 .. j
        BY <1>1, <1>8
      <4> QED BY <1>1, <1>8, <2>3, <4>1
    <3>5. pc[c] \in Entered
      BY <1>2, <3>4 DEF Logging, Entered
    <3> QED BY <1>1, <2>1, <2>3, <3>2, <3>3, <3>5 DEF ApartInv, OwnDescriptor, n
  <2> QED BY <2>2, <2>3
<1>9. OwnDescriptor'
  BY <1>6, <1>7 DEF OwnDescriptor
<1>10. DescriptorsTellApart'
  BY <1>8 DEF DescriptorsTellApart
<1> QED
  BY <1>9, <1>10 DEF ApartInv

LEMMA ApartStep == TypeInv /\ ApartInv /\ [Next]_vars => ApartInv'
<1> SUFFICES ASSUME TypeInv, ApartInv, [Next]_vars PROVE ApartInv'
  OBVIOUS
<1>0. pc \in [Conns -> PC] /\ fd \in [Conns -> Fds]
  BY DEF TypeInv, TypeOK
<1>1. ASSUME NEW c \in Conns, Accept(c) PROVE ApartInv'
  <2>1. PICK f \in Fds :
           /\ \A d \in Conns : Open(d) /\ to[d] = to[c] => fd[d] # f
           /\ fd' = [fd EXCEPT ![c] = f]
    BY <1>1 DEF Accept
  <2>2. /\ file' = file /\ to' = to /\ pc'[c] = "CONNECTION"
        /\ \A d \in Conns \ {c} : pc'[d] = pc[d]
    BY <1>0, <1>1 DEF Accept, Goto, server
  <2>3. \A d \in Conns \ {c} : fd'[d] = fd[d] /\ (Open(d)' <=> Open(d))
    BY <1>0, <2>1, <2>2 DEF Open
  <2>4. \A d, e \in Conns : d # e /\ to'[d] = to'[e] /\ Open(d)' /\ Open(e)' => fd'[d] # fd'[e]
    BY <1>0, <2>1, <2>2, <2>3 DEF ApartInv, OwnDescriptor
  <2>5. \A i : Newest(i)' <=> Newest(i)
    BY <2>2 DEF Newest, SameName
  <2>6. OwnDescriptor'
    BY <2>2, <2>3, <2>4, <2>5 DEF ApartInv, OwnDescriptor, Entered
  <2> QED BY <2>2, <2>6 DEF ApartInv, DescriptorsTellApart, SameName
<1>2. ASSUME NEW c \in Conns, Refuse(c) \/ Read(c) \/ Close(c) \/ Reply(c) \/ Reject(c) \/ ReplyFails(c)
      PROVE  ApartInv'
  <2>1. UNCHANGED <<file, to, fd>>
    BY <1>2 DEF Refuse, Read, Close, Reply, Reject, ReplyFails, server
  <2>2. \A d \in Conns \ {c} : pc'[d] = pc[d]
    BY <1>0, <1>2 DEF Refuse, Read, Close, Reply, Reject, ReplyFails, Goto
  <2>3. pc'[c] = "gone" \/ (pc[c] \in Entered /\ pc'[c] \in Entered)
    BY <1>0, <1>2 DEF Refuse, Read, Close, Reply, Reject, ReplyFails, Goto, Entered
  <2> QED BY <2>1, <2>2, <2>3, ApartFrame DEF Open, Entered
<1>3. ASSUME NEW c \in Conns, TakeTime(c) \/ Localtime(c) PROVE UNCHANGED <<file, to, fd, pc>>
  BY <1>3 DEF TakeTime, Localtime, server, local
<1>4. ASSUME Tick \/ (\E s \in Servers : Bind(s)) \/ UNCHANGED vars PROVE UNCHANGED <<file, to, fd, pc>>
  BY <1>4 DEF Tick, Bind, vars, server, local
<1>5. CASE UNCHANGED <<file, to, fd, pc>>
  BY <1>5, ApartFrame DEF Open
<1>6. ASSUME NEW s \in Servers, Crash(s) PROVE ApartInv'
  <2>1. /\ UNCHANGED <<file, to, fd>>
        /\ \A d \in Conns : pc'[d] \in {"gone", pc[d]}
    BY <1>0, <1>6 DEF Crash, Open
  <2> QED BY <2>1, ApartFrame DEF Open, Entered
<1>7. ASSUME NEW s \in Servers, Start(s) PROVE ApartInv'
  <2>1. file' = <<>> /\ UNCHANGED <<to, fd, pc>>
    BY <1>7 DEF Start
  <2> QED BY <2>1 DEF ApartInv, OwnDescriptor, DescriptorsTellApart, Open
<1>8. ASSUME NEW c \in Conns, WriteEntry(c) PROVE ApartInv'
  BY <1>8, EntryApart
<1> QED
  BY <1>1, <1>2, <1>3, <1>4, <1>5, <1>6, <1>7, <1>8 DEF Next

(* An entry that names a descriptor is of the connection whose CONNECTION  *)
(* entry was its server's last for that descriptor: close() comes after    *)
(* the last entry of a connection and before the descriptor is given out   *)
(* again.                                                                  *)
THEOREM DescriptorsTellApartHolds == Spec => []DescriptorsTellApart
<1>1. ApartInv => DescriptorsTellApart
  BY DEF ApartInv
<1> QED
  BY <1>1, TypeAlways, InitApart, ApartStep, PTL DEF Spec

-----------------------------------------------------------------------------
(* The replies and the log.                                                *)

(* What SendsKeepUp says of replies, with where the handler is.            *)
SendsLogged ==
  \A c \in Conns :
    /\ \A k \in 1 .. MaxRequests : Logged(c, "SEND", k) => k <= Len(replies[c])
    /\ \A k \in since[c] + 1 .. Len(replies[c]) :
         replies[c][k] = "logged" =>
           Logged(c, "SEND", k) \/ (k = req[c] /\ pc[c] \in {"SEND", "gone"})

(* The entries of a connection so far, and the one that may come next.     *)
EntriesBehind ==
  \A c \in Conns : \A i \in 1 .. Len(file) :
    file[i].conn = c =>
      /\ file[i].req <= req[c]
      /\ pc[c] \notin {"none", "CONNECTION"}
      /\ pc[c] = "FROM" => file[i].req < req[c]
      /\ pc[c] \in {"reply", "SEND"} => file[i].req < req[c] \/ file[i].kind = "FROM"

EntriesInOrder ==
  \A c \in Conns : \A i, j \in 1 .. Len(file) :
    i < j /\ file[i].conn = c /\ file[j].conn = c =>
      \/ file[i].req < file[j].req
      \/ file[i].req = file[j].req /\ file[i].kind = "FROM" /\ file[j].kind = "SEND"

LEMMA InitSends == Init => SendsLogged /\ EntriesBehind /\ EntriesInOrder
<1> SUFFICES ASSUME Init PROVE SendsLogged /\ EntriesBehind /\ EntriesInOrder
  OBVIOUS
<1>1. file = <<>> /\ \A c \in Conns : replies[c] = <<>> /\ since[c] = 0
  BY DEF Init
<1>2. SendsLogged
  BY <1>1 DEF SendsLogged, Logged
<1>3. EntriesBehind /\ EntriesInOrder
  BY <1>1 DEF EntriesBehind, EntriesInOrder
<1> QED
  BY <1>2, <1>3

(* An entry adds itself only.                                              *)
LEMMA LoggedNew ==
  ASSUME TypeInv, NEW c \in Conns, WriteEntry(c), NEW d, NEW kind, NEW k, Logged(d, kind, k)'
  PROVE  Logged(d, kind, k) \/ (d = c /\ kind = pc[c] /\ k = req[c])
<1>1. PICK i \in 1 .. Len(file') : file'[i].conn = d /\ file'[i].kind = kind /\ file'[i].req = k
  BY DEF Logged
<1>2. /\ Len(file) \in Nat /\ Len(file') = Len(file) + 1
      /\ \A j \in 1 .. Len(file) : file'[j] = file[j]
      /\ file'[Len(file) + 1] = Entry(c)
  BY LogGrows
<1>3. CASE i \in 1 .. Len(file)
  BY <1>1, <1>2, <1>3 DEF Logged
<1>4. CASE i = Len(file) + 1
  BY <1>1, <1>2, <1>4 DEF Entry
<1> QED
  BY <1>1, <1>2, <1>3, <1>4

LEMMA SendsLoggedStep ==
  TypeInv /\ Talk /\ SendsLogged /\ [Next]_vars => SendsLogged'
<1> SUFFICES ASSUME TypeInv, Talk, SendsLogged, [Next]_vars PROVE SendsLogged'
  OBVIOUS
<1>0. /\ pc \in [Conns -> PC] /\ req \in [Conns -> 0 .. MaxRequests]
      /\ replies \in [Conns -> Seq({"logged", "unlogged"})]
      /\ \A c \in Conns : Len(replies[c]) \in Nat /\ req[c] \in Nat /\ since[c] \in Nat
  BY ReplyLengths DEF TypeInv, TypeOK
<1>1. ASSUME file' = file PROVE \A c, kind, k : Logged(c, kind, k)' <=> Logged(c, kind, k)
  BY <1>1 DEF Logged
<1>2. ASSUME NEW c \in Conns, Accept(c) \/ Refuse(c) \/ Close(c) \/ ReplyFails(c) PROVE SendsLogged'
  <2>1. /\ UNCHANGED <<file, req, replies, since>>
        /\ pc[c] \in {"none", "read", "reply"}
        /\ \A d \in Conns \ {c} : pc'[d] = pc[d]
    BY <1>0, <1>2 DEF Accept, Refuse, Close, ReplyFails, server, Goto
  <2> QED BY <1>1, <2>1 DEF SendsLogged
<1>3. ASSUME NEW c \in Conns, Read(c) PROVE SendsLogged'
  <2>1. /\ UNCHANGED <<file, replies, since>> /\ pc[c] = "read"
        /\ \A d \in Conns \ {c} : pc'[d] = pc[d] /\ req'[d] = req[d]
    BY <1>0, <1>3 DEF Read, server, Goto
  <2> QED BY <1>1, <2>1 DEF SendsLogged
<1>4. ASSUME NEW c \in Conns, Reply(c) \/ Reject(c) PROVE SendsLogged'
  <2>1. PICK r \in {"logged", "unlogged"} :
          /\ replies' = [replies EXCEPT ![c] = Append(@, r)]
          /\ r = "logged" => Reply(c)
    BY <1>4 DEF Reply, Reject
  <2>2. /\ UNCHANGED <<file, req, since>> /\ pc[c] = "reply"
        /\ \A d \in Conns \ {c} : pc'[d] = pc[d] /\ replies'[d] = replies[d]
        /\ Reply(c) => pc'[c] = "SEND"
    BY <1>0, <1>4 DEF Reply, Reject, server, Goto
  <2>3. /\ replies'[c] = Append(replies[c], r)
        /\ Len(replies'[c]) = Len(replies[c]) + 1
        /\ \A k \in 1 .. Len(replies[c]) : replies'[c][k] = replies[c][k]
        /\ replies'[c][Len(replies[c]) + 1] = r
    BY <1>0, <2>1, ReplyLengths DEF TypeInv
  <2>4. Len(replies[c]) = req[c] - 1
    BY <2>2 DEF Talk
  <2>5. \A k \in 1 .. MaxRequests : Logged(c, "SEND", k)' => k <= Len(replies'[c])
    BY <1>0, <1>1, <2>2, <2>3 DEF SendsLogged
  <2>6. ASSUME NEW k \in since[c] + 1 .. Len(replies'[c]), replies'[c][k] = "logged"
        PROVE  Logged(c, "SEND", k)' \/ (k = req[c] /\ pc'[c] \in {"SEND", "gone"})
    <3>1. CASE k = Len(replies[c]) + 1
      BY <1>0, <2>1, <2>2, <2>3, <2>4, <2>6, <3>1
    <3>2. CASE k # Len(replies[c]) + 1
      <4>1. k \in since[c] + 1 .. Len(replies[c]) /\ replies[c][k] = "logged"
        BY <1>0, <2>3, <2>6, <3>2
      <4> QED BY <1>1, <2>2, <4>1 DEF SendsLogged
    <3> QED BY <3>1, <3>2
  <2>7. ASSUME NEW d \in Conns \ {c}
        PROVE  /\ \A k \in 1 .. MaxRequests : Logged(d, "SEND", k)' => k <= Len(replies'[d])
               /\ \A k \in since'[d] + 1 .. Len(replies'[d]) :
                    replies'[d][k] = "logged" =>
                      Logged(d, "SEND", k)' \/ (k = req'[d] /\ pc'[d] \in {"SEND", "gone"})
    BY <1>1, <2>2 DEF SendsLogged
  <2> QED BY <2>2, <2>5, <2>6, <2>7 DEF SendsLogged
<1>5. ASSUME NEW c \in Conns, WriteEntry(c) PROVE SendsLogged'
  <2>1. /\ UNCHANGED <<req, replies, since>> /\ pc[c] \in Logging
        /\ \A d \in Conns \ {c} : pc'[d] = pc[d]
    BY <1>0, <1>5 DEF WriteEntry, Goto, TypeInv, InCall
  <2>2. ASSUME NEW d \in Conns, NEW k \in 1 .. MaxRequests, Logged(d, "SEND", k)'
        PROVE  k <= Len(replies[d])
    <3>1. CASE Logged(d, "SEND", k)
      BY <3>1 DEF SendsLogged
    <3>2. CASE ~Logged(d, "SEND", k)
      <4>1. d = c /\ pc[c] = "SEND" /\ k = req[c]
        BY <1>5, <2>2, <3>2, LoggedNew
      <4> QED BY <1>0, <4>1 DEF Talk
    <3> QED BY <3>1, <3>2
  <2>3. ASSUME NEW d \in Conns, NEW k \in since[d] + 1 .. Len(replies[d]), replies[d][k] = "logged"
        PROVE  Logged(d, "SEND", k)' \/ (k = req[d] /\ pc'[d] \in {"SEND", "gone"})
    <3>1. CASE Logged(d, "SEND", k)
      BY <1>5, <3>1, LoggedStays
    <3>2. CASE ~Logged(d, "SEND", k)
      <4>1. k = req[d] /\ pc[d] \in {"SEND", "gone"}
        BY <2>3, <3>2 DEF SendsLogged
      <4>2. CASE d = c
        BY <1>5, <2>1, <4>1, <4>2, LoggedStays DEF Logging
      <4>3. CASE d # c
        BY <2>1, <4>1, <4>3
      <4> QED BY <4>2, <4>3
    <3> QED BY <3>1, <3>2
  <2> QED BY <2>1, <2>2, <2>3 DEF SendsLogged
<1>6. ASSUME NEW s \in Servers, Crash(s) PROVE SendsLogged'
  <2>1. /\ UNCHANGED <<file, req, replies, since>>
        /\ \A c \in Conns : pc'[c] = "gone" \/ pc'[c] = pc[c]
    BY <1>0, <1>6 DEF Crash
  <2> QED BY <1>1, <2>1 DEF SendsLogged
<1>7. ASSUME NEW s \in Servers, Start(s) PROVE SendsLogged'
  <2>1. file' = <<>> /\ since' = req /\ UNCHANGED <<req, replies, pc>>
    BY <1>7 DEF Start
  <2>2. \A c, kind, k : ~Logged(c, kind, k)'
    BY <2>1 DEF Logged
  <2>3. \A c \in Conns : Len(replies[c]) <= req[c]
    BY DEF Talk
  <2> QED BY <1>0, <2>1, <2>2, <2>3 DEF SendsLogged
<1>8. ASSUME NEW c \in Conns, TakeTime(c) \/ Localtime(c) PROVE UNCHANGED <<file, local>>
  BY <1>8 DEF TakeTime, Localtime, server
<1>9. ASSUME Tick \/ (\E s \in Servers : Bind(s)) \/ UNCHANGED vars PROVE UNCHANGED <<file, local>>
  BY <1>9 DEF Tick, Bind, vars, server
<1>10. CASE UNCHANGED <<file, local>>
  BY <1>1, <1>10 DEF local, SendsLogged
<1> QED
  BY <1>2, <1>3, <1>4, <1>5, <1>6, <1>7, <1>8, <1>9, <1>10 DEF Next

(* A connection's next entry comes after all it has.                       *)
LEMMA EntryInOrder ==
  ASSUME TypeInv, Talk, EntriesBehind, EntriesInOrder, NEW c \in Conns, WriteEntry(c)
  PROVE  EntriesBehind' /\ EntriesInOrder'
<1> DEFINE n == Len(file)
<1>1. /\ n \in Nat /\ Len(file') = n + 1
      /\ \A i \in 1 .. n : file'[i] = file[i] /\ file[i].req \in Nat
      /\ file'[n + 1].kind = pc[c] /\ file'[n + 1].conn = c /\ file'[n + 1].req = req[c]
  <2>1. /\ Len(file) \in Nat /\ Len(file') = Len(file) + 1
        /\ \A i \in 1 .. Len(file) : file'[i] = file[i] /\ file[i] \in EntryType
        /\ file'[Len(file) + 1] = Entry(c)
    BY LogGrows
  <2>2. \A e \in EntryType : e.req \in Nat
    BY Bounds DEF EntryType
  <2> QED BY <2>1, <2>2 DEF Entry
<1>2. /\ pc[c] \in Logging /\ req' = req /\ req[c] \in Nat
      /\ pc'[c] = AfterLog[pc[c]] /\ \A d \in Conns \ {c} : pc'[d] = pc[d]
  BY Bounds DEF WriteEntry, Goto, TypeInv, TypeOK, InCall
<1>3. /\ pc[c] = "CONNECTION" => pc'[c] = "read"
      /\ pc[c] = "FROM" => pc'[c] = "reply"
      /\ pc[c] = "SEND" => pc'[c] = "read"
  BY <1>2 DEF AfterLog
<1>4. \A d \in Conns : \A i \in 1 .. n :
        file[i].conn = d =>
          /\ file[i].req <= req[d]
          /\ pc[d] \notin {"none", "CONNECTION"}
          /\ pc[d] = "FROM" => file[i].req < req[d]
          /\ pc[d] \in {"reply", "SEND"} => file[i].req < req[d] \/ file[i].kind = "FROM"
  BY DEF EntriesBehind
<1>5. \A d \in Conns : \A i, j \in 1 .. n :
        i < j /\ file[i].conn = d /\ file[j].conn = d =>
          \/ file[i].req < file[j].req
          \/ file[i].req = file[j].req /\ file[i].kind = "FROM" /\ file[j].kind = "SEND"
  BY DEF EntriesInOrder
<1> HIDE DEF n
<1>6. ASSUME NEW d \in Conns, NEW i \in 1 .. n + 1, file'[i].conn = d
      PROVE  /\ file'[i].req <= req'[d]
             /\ pc'[d] \notin {"none", "CONNECTION"}
             /\ pc'[d] = "FROM" => file'[i].req < req'[d]
             /\ pc'[d] \in {"reply", "SEND"} => file'[i].req < req'[d] \/ file'[i].kind = "FROM"
  <2>1. CASE i = n + 1
    <3>1. d = c /\ file'[i].req = req[c] /\ file'[i].kind = pc[c]
      BY <1>1, <1>6, <2>1
    <3> QED BY <1>2, <1>3, <3>1 DEF Logging
  <2>2. CASE i # n + 1
    <3>1. i \in 1 .. n /\ file'[i] = file[i] /\ file[i].conn = d /\ file[i].req \in Nat
      BY <1>1, <1>6, <2>2
    <3>2. CASE d = c
      <4>1. pc[c] \in {"FROM", "SEND"}
        BY <1>2, <1>4, <3>1, <3>2 DEF Logging
      <4> QED BY <1>2, <1>3, <1>4, <3>1, <3>2, <4>1
    <3>3. CASE d # c
      BY <1>2, <1>4, <3>1, <3>3
    <3> QED BY <3>2, <3>3
  <2> QED BY <2>1, <2>2
<1>7. ASSUME NEW d \in Conns, NEW i \in 1 .. n + 1, NEW j \in 1 .. n + 1,
             i < j, file'[i].conn = d, file'[j].conn = d
      PROVE  \/ file'[i].req < file'[j].req
             \/ file'[i].req = file'[j].req /\ file'[i].kind = "FROM" /\ file'[j].kind = "SEND"
  <2>1. i \in 1 .. n /\ file'[i] = file[i] /\ file[i].conn = d /\ file[i].req \in Nat
    BY <1>1, <1>7
  <2>2. CASE j = n + 1
    <3>1. d = c /\ file'[j].req = req[c] /\ file'[j].kind = pc[c]
      BY <1>1, <1>7, <2>2
    <3>2. pc[c] \in {"FROM", "SEND"}
      BY <1>2, <1>4, <2>1, <3>1 DEF Logging
    <3> QED BY <1>2, <1>4, <2>1, <3>1, <3>2
  <2>3. CASE j # n + 1
    <3>1. j \in 1 .. n /\ file'[j] = file[j]
      BY <1>1, <2>3
    <3> QED BY <1>5, <1>7, <2>1, <3>1
  <2> QED BY <2>2, <2>3
<1>8. EntriesBehind'
  BY <1>1, <1>6 DEF EntriesBehind
<1>9. EntriesInOrder'
  BY <1>1, <1>7 DEF EntriesInOrder
<1> QED
  BY <1>8, <1>9

LEMMA EntriesStep ==
  TypeInv /\ Talk /\ EntriesBehind /\ EntriesInOrder /\ [Next]_vars
    => EntriesBehind' /\ EntriesInOrder'
<1> SUFFICES ASSUME TypeInv, Talk, EntriesBehind, EntriesInOrder, [Next]_vars
             PROVE  EntriesBehind' /\ EntriesInOrder'
  OBVIOUS
<1>0. /\ pc \in [Conns -> PC] /\ req \in [Conns -> 0 .. MaxRequests]
      /\ \A i \in 1 .. Len(file) : file[i].req \in Nat
  <2>1. file \in Seq(EntryType) /\ \A e \in EntryType : e.req \in Nat
    BY Bounds DEF TypeInv, TypeOK, EntryType
  <2> QED BY <2>1, ElementOfSeq DEF TypeInv, TypeOK
<1>1. ASSUME file' = file PROVE EntriesInOrder'
  BY <1>1 DEF EntriesInOrder
<1>2. ASSUME NEW c \in Conns,
             Accept(c) \/ Refuse(c) \/ Close(c) \/ Reply(c) \/ Reject(c) \/ ReplyFails(c)
      PROVE  EntriesBehind' /\ EntriesInOrder'
  <2>1. /\ UNCHANGED <<file, req>>
        /\ \A d \in Conns \ {c} : pc'[d] = pc[d]
        /\ \/ pc[c] = "none"
           \/ pc'[c] \in {"gone", "read"}
           \/ pc[c] = "reply" /\ pc'[c] = "SEND"
    BY <1>0, <1>2 DEF Accept, Refuse, Close, Reply, Reject, ReplyFails, server, Goto
  <2>2. EntriesBehind'
    BY <2>1 DEF EntriesBehind
  <2> QED BY <1>1, <2>1, <2>2
<1>3. ASSUME NEW c \in Conns, Read(c) PROVE EntriesBehind' /\ EntriesInOrder'
  <2>1. /\ UNCHANGED file /\ pc'[c] = "FROM" /\ req'[c] = req[c] + 1
        /\ \A d \in Conns \ {c} : pc'[d] = pc[d] /\ req'[d] = req[d]
        /\ req[c] \in Nat
    BY <1>0, <1>3, Bounds DEF Read, server, Goto
  <2>2. EntriesBehind'
    BY <1>0, <2>1 DEF EntriesBehind
  <2> QED BY <1>1, <2>1, <2>2
<1>4. ASSUME NEW c \in Conns, WriteEntry(c) PROVE EntriesBehind' /\ EntriesInOrder'
  BY <1>4, EntryInOrder
<1>5. ASSUME NEW s \in Servers, Crash(s) PROVE EntriesBehind' /\ EntriesInOrder'
  <2>1. /\ UNCHANGED <<file, req>>
        /\ \A c \in Conns : pc'[c] = "gone" \/ pc'[c] = pc[c]
    BY <1>0, <1>5 DEF Crash
  <2>2. EntriesBehind'
    BY <2>1 DEF EntriesBehind
  <2> QED BY <1>1, <2>1, <2>2
<1>6. ASSUME NEW s \in Servers, Start(s) PROVE EntriesBehind' /\ EntriesInOrder'
  <2>1. file' = <<>>
    BY <1>6 DEF Start
  <2> QED BY <2>1 DEF EntriesBehind, EntriesInOrder
<1>7. ASSUME NEW c \in Conns, TakeTime(c) \/ Localtime(c) PROVE UNCHANGED <<file, local>>
  BY <1>7 DEF TakeTime, Localtime, server
<1>8. ASSUME Tick \/ (\E s \in Servers : Bind(s)) \/ UNCHANGED vars PROVE UNCHANGED <<file, local>>
  BY <1>8 DEF Tick, Bind, vars, server
<1>9. CASE UNCHANGED <<file, local>>
  BY <1>1, <1>9 DEF local, EntriesBehind
<1> QED
  BY <1>2, <1>3, <1>4, <1>5, <1>6, <1>7, <1>8, <1>9 DEF Next

(* The log names as sent what was sent, misses no logged reply but the one *)
(* to the message being answered, and has the entries of one connection in *)
(* the order of its conversation, whatever other handlers' entries come    *)
(* between.                                                                *)
THEOREM SendsKeepUpHolds == Spec => []SendsKeepUp
<1>1. TypeInv /\ SendsLogged /\ EntriesInOrder => SendsKeepUp
  <2> SUFFICES ASSUME TypeInv, SendsLogged, EntriesInOrder PROVE SendsKeepUp
    OBVIOUS
  <2>1. ASSUME NEW c \in Conns, NEW k \in 1 .. MaxRequests
        PROVE  /\ k > Len(replies[c]) => ~Logged(c, "SEND", k)
               /\ since[c] < k /\ k <= Len(replies[c]) /\ replies[c][k] = "logged"
                    => k = req[c] \/ Logged(c, "SEND", k)
    <3>1. Len(replies[c]) \in Nat /\ since[c] \in Nat /\ k \in Nat
      BY ReplyLengths, Bounds DEF TypeInv
    <3>2. Logged(c, "SEND", k) => k <= Len(replies[c])
      BY DEF SendsLogged
    <3>3. ASSUME since[c] < k, k <= Len(replies[c]), replies[c][k] = "logged"
          PROVE  Logged(c, "SEND", k) \/ k = req[c]
      <4>1. k \in since[c] + 1 .. Len(replies[c])
        BY <3>1, <3>3
      <4> QED BY <3>3, <4>1 DEF SendsLogged
    <3> QED BY <3>1, <3>2, <3>3
  <2>2. ASSUME NEW i \in 1 .. Len(file), NEW j \in i + 1 .. Len(file), file[i].conn = file[j].conn
        PROVE  \/ file[i].req < file[j].req
               \/ file[i].req = file[j].req /\ file[i].kind = "FROM" /\ file[j].kind = "SEND"
    <3>1. file \in Seq(EntryType) /\ \A e \in EntryType : e.conn \in Conns
      BY DEF TypeInv, TypeOK, EntryType
    <3>2. file[i].conn \in Conns /\ Len(file) \in Nat
      BY <3>1, ElementOfSeq, LenProperties
    <3>3. j \in 1 .. Len(file) /\ i < j
      BY <3>2
    <3> QED BY <2>2, <3>2, <3>3 DEF EntriesInOrder
  <2> QED BY <2>1, <2>2 DEF SendsKeepUp
<1>2. Spec => []Talk
  BY TypeAlways, InitTalk, TalkStep, PTL DEF Spec
<1>3. Spec => []SendsLogged
  BY <1>2, TypeAlways, InitSends, SendsLoggedStep, PTL DEF Spec
<1>4. Spec => [](EntriesBehind /\ EntriesInOrder)
  BY <1>2, TypeAlways, InitSends, EntriesStep, PTL DEF Spec
<1> QED
  BY <1>1, <1>3, <1>4, TypeAlways, PTL

=============================================================================
