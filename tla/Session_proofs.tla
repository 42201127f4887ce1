--------------------------- MODULE Session_proofs ---------------------------
(***************************************************************************)
(* What a client in lock step can rely on, for conversations of any length *)
(* and any messages.                                                       *)
(***************************************************************************)
EXTENDS Session, SequenceTheorems, TLAPS

PartSet == (Nat \ {0}) \X {"first", "rest"}

ReplySet == {"PONG", "OKAY", "SOLN", "ERRO"}

AnswerSet == [chunk : PartSeq, reply : ReplySet]

-----------------------------------------------------------------------------
(* Messages and their parts.                                               *)

LEMMA PartsOf ==
  ASSUME NEW k
  PROVE  /\ Len(Parts(k)) = 2
         /\ Parts(k)[1] = <<k, "first">> /\ Parts(k)[2] = <<k, "rest">>
         /\ Parts(k)[1][1] = k /\ Parts(k)[2][1] = k /\ Parts(k)[1][2] = "first"
         /\ k \in Nat \ {0} => Parts(k) \in PartSeq
BY DEF Parts, PartSeq

LEMMA PartsCut ==
  ASSUME NEW k \in Nat \ {0}
  PROVE  /\ SubSeq(Parts(k), 1, 1) = <<<<k, "first">>>>
         /\ SubSeq(Parts(k), 2, 2) = <<<<k, "rest">>>>
         /\ SubSeq(Parts(k), 1, 2) = Parts(k)
         /\ SubSeq(Parts(k), 3, 2) = <<>>
<1> DEFINE a == <<k, "first">>
           b == <<k, "rest">>
<1>1. a \in PartSet /\ b \in PartSet
  BY DEF PartSet
<1> HIDE DEF a, b
<1>2. <<a, b>> \in Seq(PartSet) /\ <<a>> \in Seq(PartSet) /\ <<b>> \in Seq(PartSet)
  BY <1>1
<1>3. /\ SubSeq(<<a, b>>, 1, 1) \in Seq(PartSet)
      /\ Len(SubSeq(<<a, b>>, 1, 1)) = 1 /\ SubSeq(<<a, b>>, 1, 1)[1] = a
  BY <1>1, SubSeqProperties
<1>4. /\ SubSeq(<<a, b>>, 2, 2) \in Seq(PartSet)
      /\ Len(SubSeq(<<a, b>>, 2, 2)) = 1 /\ SubSeq(<<a, b>>, 2, 2)[1] = b
  BY <1>1, SubSeqProperties
<1>5. SubSeq(<<a, b>>, 1, 1) = <<a>>
  <2>1. Len(<<a>>) = 1 /\ <<a>>[1] = a
    OBVIOUS
  <2>2. \A i \in 1 .. Len(SubSeq(<<a, b>>, 1, 1)) : SubSeq(<<a, b>>, 1, 1)[i] = <<a>>[i]
    BY <1>3, <2>1
  <2> QED BY <1>2, <1>3, <2>1, <2>2, SeqEqual
<1>6. SubSeq(<<a, b>>, 2, 2) = <<b>>
  <2>1. Len(<<b>>) = 1 /\ <<b>>[1] = b
    OBVIOUS
  <2>2. \A i \in 1 .. Len(SubSeq(<<a, b>>, 2, 2)) : SubSeq(<<a, b>>, 2, 2)[i] = <<b>>[i]
    BY <1>4, <2>1
  <2> QED BY <1>2, <1>4, <2>1, <2>2, SeqEqual
<1>7. SubSeq(<<a, b>>, 1, 2) = <<a, b>>
  <2>1. Len(<<a, b>>) = 2
    OBVIOUS
  <2> QED BY <1>2, <2>1, SubSeqFull
<1>8. SubSeq(<<a, b>>, 3, 2) = <<>>
  BY SubSeqEmpty
<1> QED
  BY <1>5, <1>6, <1>7, <1>8 DEF Parts, a, b

LEMMA Cutting ==
  ASSUME NEW s \in PartSeq, NEW n \in 1 .. Len(s)
  PROVE  SubSeq(s, 1, n) \in PartSeq /\ SubSeq(s, n + 1, Len(s)) \in PartSeq
<1>1. Len(s) \in Nat /\ \A i \in 1 .. Len(s) : s[i] \in PartSet
  BY LenProperties, ElementOfSeq DEF PartSeq, PartSet
<1>2. SubSeq(s, 1, n) \in Seq(PartSet)
  BY <1>1, SubSeqProperties
<1>3. SubSeq(s, n + 1, Len(s)) \in Seq(PartSet)
  BY <1>1, SubSeqProperties
<1> QED
  BY <1>2, <1>3 DEF PartSeq, PartSet

LEMMA RepliesTyped == \A c : Replies(c) \subseteq ReplySet
BY DEF Replies, ReplySet

-----------------------------------------------------------------------------
(* Types.                                                                  *)

LEMMA ScriptLength == \A s \in Scripts : Len(s) \in Nat
BY ScriptsAssumption DEF ScriptsAssumption

LEMMA TypeStep == TypeOK /\ [Next]_vars => TypeOK'
<1> SUFFICES ASSUME TypeOK, [Next]_vars PROVE TypeOK'
  OBVIOUS
<1>0. /\ script \in Scripts /\ Len(script) \in Nat /\ sent \in Nat
      /\ toServer \in PartSeq /\ toClient \in PartSeq /\ chunk \in PartSeq
      /\ got \in Seq(PartSeq) /\ answered \in Seq(AnswerSet)
  BY ScriptLength DEF TypeOK, AnswerSet, ReplySet
<1>1. CASE ClientWrite
  <2>1. sent' \in 0 .. Len(script) /\ sent' \in Nat \ {0}
    BY <1>0, <1>1 DEF ClientWrite, TypeOK
  <2>2. toServer' \in PartSeq
    <3>1. Parts(sent') \in PartSeq
      BY <2>1, PartsOf
    <3> QED BY <1>0, <1>1, <3>1, ConcatProperties DEF ClientWrite, PartSeq
  <2> QED BY <1>0, <1>1, <2>1, <2>2 DEF ClientWrite, TypeOK
<1>2. CASE ClientRead
  <2>1. PICK n \in 1 .. Len(toClient) :
          /\ got' = Append(got, SubSeq(toClient, 1, n))
          /\ toClient' = SubSeq(toClient, n + 1, Len(toClient))
    BY <1>2 DEF ClientRead
  <2>2. toClient' \in PartSeq /\ got' \in Seq(PartSeq)
    BY <1>0, <2>1, Cutting, AppendProperties
  <2> QED BY <1>0, <1>2, <2>2 DEF ClientRead, TypeOK
<1>3. CASE ServerRead
  <2>1. PICK n \in 1 .. Len(toServer) :
          /\ chunk' = SubSeq(toServer, 1, n)
          /\ toServer' = SubSeq(toServer, n + 1, Len(toServer))
    BY <1>3 DEF ServerRead
  <2>2. toServer' \in PartSeq /\ chunk' \in PartSeq
    BY <1>0, <2>1, Cutting
  <2> QED BY <1>0, <1>3, <2>2 DEF ServerRead, TypeOK
<1>4. CASE ServerReply
  <2>1. PICK r \in Replies(chunk) : answered' = Append(answered, [chunk |-> chunk, reply |-> r])
    BY <1>4 DEF ServerReply
  <2>2. [chunk |-> chunk, reply |-> r] \in AnswerSet
    BY <1>0, RepliesTyped DEF AnswerSet
  <2>3. answered' \in Seq(AnswerSet) /\ Len(answered') \in Nat \ {0}
    <3>1. Len(answered) \in Nat
      BY <1>0, LenProperties
    <3> QED BY <1>0, <2>1, <2>2, <3>1, AppendProperties
  <2>4. toClient' \in PartSeq
    <3>1. Parts(Len(answered')) \in PartSeq
      BY <2>3, PartsOf
    <3> QED BY <1>0, <1>4, <3>1, ConcatProperties DEF ServerReply, PartSeq
  <2>5. chunk' \in PartSeq
    BY <1>4, EmptySeq DEF ServerReply, PartSeq
  <2> QED BY <1>0, <1>4, <2>3, <2>4, <2>5 DEF ServerReply, TypeOK, AnswerSet, ReplySet
<1>5. CASE UNCHANGED vars
  BY <1>5 DEF vars, TypeOK
<1> QED
  BY <1>1, <1>2, <1>3, <1>4, <1>5 DEF Next

LEMMA InitType == Init => TypeOK
<1> SUFFICES ASSUME Init PROVE TypeOK
  OBVIOUS
<1>1. <<>> \in PartSeq /\ <<>> \in Seq(PartSeq) /\ <<>> \in Seq(AnswerSet)
  BY DEF PartSeq
<1>2. sent \in 0 .. Len(script)
  <2>1. sent = 0 /\ script \in Scripts
    BY DEF Init
  <2> QED BY <2>1, ScriptLength
<1>3. waiting \in BOOLEAN
  BY DEF Init
<1> QED
  BY <1>1, <1>2, <1>3 DEF Init, TypeOK, AnswerSet, ReplySet

(* Every variable keeps its type, however the bytes are cut.               *)
THEOREM SessionTypeCorrect == Spec => []TypeOK
BY InitType, TypeStep, PTL DEF Spec

-----------------------------------------------------------------------------
(* While every read() so far has returned one message or reply, client and *)
(* handler are in step: this is where the one message is.                  *)

IsParts(c) == \E k \in Nat : c = Parts(k)

Uncut ==
  /\ \A k \in 1 .. Len(answered) : IsParts(answered[k].chunk)
  /\ \A k \in 1 .. Len(got) : IsParts(got[k])

Quiet ==
  /\ ~waiting /\ Len(got) = sent /\ Len(answered) = sent
  /\ toServer = <<>> /\ chunk = <<>> /\ toClient = <<>>

Asked ==
  /\ waiting /\ Len(got) = sent - 1 /\ Len(answered) = sent - 1
  /\ toClient = <<>>
  /\ \/ toServer = Parts(sent) /\ chunk = <<>>
     \/ toServer = <<>> /\ chunk = Parts(sent)
     \/ toServer = <<<<sent, "rest">>>> /\ chunk = <<<<sent, "first">>>>

Replied ==
  /\ waiting /\ Len(got) = sent - 1 /\ Len(answered) = sent
  /\ toServer = <<>> /\ chunk = <<>> /\ toClient = Parts(sent)

InOrder ==
  /\ \A k \in 1 .. Len(answered) : answered[k].chunk = Parts(k)
  /\ \A k \in 1 .. Len(got) : got[k] = Parts(k)

InStep == Uncut => (Quiet \/ Asked \/ Replied) /\ InOrder

(* What is cut stays cut: the two sequences only grow.                     *)
LEMMA Growing ==
  ASSUME TypeOK, [Next]_vars
  PROVE  /\ Len(answered) \in Nat /\ Len(got) \in Nat
         /\ Len(answered') \in Nat /\ Len(got') \in Nat
         /\ Len(answered) <= Len(answered') /\ Len(got) <= Len(got')
         /\ \A k \in 1 .. Len(answered) : answered'[k] = answered[k]
         /\ \A k \in 1 .. Len(got) : got'[k] = got[k]
<1>0. /\ got \in Seq(PartSeq) /\ answered \in Seq(AnswerSet)
      /\ Len(got) \in Nat /\ Len(answered) \in Nat
  BY LenProperties DEF TypeOK, AnswerSet, ReplySet
<1>1. CASE ClientRead
  <2>1. PICK n \in 1 .. Len(toClient) : got' = Append(got, SubSeq(toClient, 1, n))
    BY <1>1 DEF ClientRead
  <2>2. SubSeq(toClient, 1, n) \in PartSeq
    BY Cutting DEF TypeOK
  <2> QED BY <1>0, <1>1, <2>1, <2>2, AppendProperties DEF ClientRead
<1>2. CASE ServerReply
  <2>1. PICK r \in Replies(chunk) : answered' = Append(answered, [chunk |-> chunk, reply |-> r])
    BY <1>2 DEF ServerReply
  <2>2. [chunk |-> chunk, reply |-> r] \in AnswerSet
    BY RepliesTyped DEF AnswerSet, TypeOK
  <2> QED BY <1>0, <1>2, <2>1, <2>2, AppendProperties DEF ServerReply
<1>3. CASE ClientWrite \/ ServerRead \/ UNCHANGED vars
  BY <1>0, <1>3 DEF ClientWrite, ServerRead, vars
<1> QED
  BY <1>1, <1>2, <1>3 DEF Next

LEMMA UncutBefore ==
  ASSUME TypeOK, [Next]_vars, Uncut'
  PROVE  Uncut
<1>1. /\ \A k \in 1 .. Len(answered') : IsParts(answered'[k].chunk)
      /\ \A k \in 1 .. Len(got') : IsParts(got'[k])
  BY DEF Uncut, IsParts
<1>2. ASSUME NEW k \in 1 .. Len(answered) PROVE IsParts(answered[k].chunk)
  <2>1. k \in 1 .. Len(answered') /\ answered'[k] = answered[k]
    BY Growing
  <2> QED BY <1>1, <2>1
<1>3. ASSUME NEW k \in 1 .. Len(got) PROVE IsParts(got[k])
  <2>1. k \in 1 .. Len(got') /\ got'[k] = got[k]
    BY Growing
  <2> QED BY <1>1, <2>1
<1> QED
  BY <1>2, <1>3 DEF Uncut

(* A chunk answered without cutting anything is the message last sent.     *)
LEMMA Answering ==
  ASSUME TypeOK, InStep, ServerReply, Uncut'
  PROVE  /\ Asked /\ sent \in Nat \ {0} /\ chunk = Parts(sent) /\ toServer = <<>>
         /\ Len(answered') = sent /\ answered'[sent].chunk = chunk
         /\ answered'[sent].reply \in Replies(chunk)
         /\ \A k \in 1 .. sent - 1 : answered'[k] = answered[k]
<1>0. /\ Uncut /\ InOrder /\ (Quiet \/ Asked \/ Replied)
      /\ sent \in Nat /\ Len(answered) \in Nat
      /\ \A k : Len(Parts(k)) = 2
  <2>1. Uncut
    BY UncutBefore DEF Next
  <2> QED BY <2>1, Growing, PartsOf DEF InStep, TypeOK, Next
<1>1. PICK r \in Replies(chunk) : answered' = Append(answered, [chunk |-> chunk, reply |-> r])
  BY DEF ServerReply
<1>2. Asked /\ sent \in Nat \ {0}
  BY <1>0 DEF ServerReply, Quiet, Asked, Replied
<1>3. /\ Len(answered') = sent /\ answered'[sent].chunk = chunk /\ answered'[sent].reply = r
      /\ \A k \in 1 .. sent - 1 : answered'[k] = answered[k]
  <2>1. [chunk |-> chunk, reply |-> r] \in AnswerSet /\ answered \in Seq(AnswerSet)
    BY RepliesTyped DEF AnswerSet, ReplySet, TypeOK
  <2>2. /\ Len(answered') = sent /\ answered'[sent] = [chunk |-> chunk, reply |-> r]
        /\ \A k \in 1 .. sent - 1 : answered'[k] = answered[k]
    BY <1>0, <1>1, <1>2, <2>1, AppendProperties DEF Asked
  <2> QED BY <2>2
<1>4. chunk = Parts(sent) /\ toServer = <<>>
  <2>1. IsParts(chunk)
    <3>1. \A k \in 1 .. Len(answered') : IsParts(answered'[k].chunk)
      BY DEF Uncut, IsParts
    <3>2. sent \in 1 .. Len(answered')
      BY <1>2, <1>3
    <3> QED BY <1>3, <3>1, <3>2
  <2>2. Len(chunk) = 2
    BY <1>0, <2>1 DEF IsParts
  <2>3. chunk # <<<<sent, "first">>>>
    <3>1. Len(<<<<sent, "first">>>>) = 1
      OBVIOUS
    <3> QED BY <2>2, <3>1
  <2>4. chunk # <<>>
    BY DEF ServerReply
  <2> QED BY <1>2, <2>3, <2>4 DEF Asked
<1> QED
  BY <1>1, <1>2, <1>3, <1>4

LEMMA InStepStep == TypeOK /\ InStep /\ [Next]_vars => InStep'
<1> SUFFICES ASSUME TypeOK, InStep, [Next]_vars, Uncut'
             PROVE  (Quiet \/ Asked \/ Replied)' /\ InOrder'
  BY DEF InStep
<1>0. /\ Uncut /\ InOrder /\ (Quiet \/ Asked \/ Replied)
      /\ sent \in Nat /\ Len(answered) \in Nat /\ Len(got) \in Nat
      /\ \A k : Parts(k) # <<>> /\ Len(Parts(k)) = 2
  BY UncutBefore, Growing, PartsOf DEF InStep, TypeOK
<1>1. CASE ClientWrite
  <2>1. Quiet /\ sent' = sent + 1 /\ sent' \in Nat \ {0}
    BY <1>0, <1>1 DEF ClientWrite, Asked, Replied
  <2>2. toServer' = Parts(sent')
    <3>1. Parts(sent') \in PartSeq
      BY <2>1, PartsOf
    <3>2. <<>> \o Parts(sent') = Parts(sent')
      BY <3>1, ConcatEmptySeq DEF PartSeq
    <3> QED BY <1>1, <2>1, <3>2 DEF ClientWrite, Quiet
  <2>3. Asked'
    BY <1>0, <1>1, <2>1, <2>2 DEF ClientWrite, Quiet, Asked
  <2> QED BY <1>0, <1>1, <2>3 DEF ClientWrite, InOrder
<1>2. CASE ClientRead
  <2>1. PICK n \in 1 .. Len(toClient) :
          /\ got' = Append(got, SubSeq(toClient, 1, n))
          /\ toClient' = SubSeq(toClient, n + 1, Len(toClient))
    BY <1>2 DEF ClientRead
  <2>2. Replied /\ sent \in Nat \ {0} /\ toClient = Parts(sent) /\ n \in 1 .. 2
    <3>1. Replied
      BY <1>0, <1>2, <2>1 DEF ClientRead, Quiet, Asked
    <3> QED BY <1>0, <2>1, <3>1 DEF Replied
  <2>3. /\ Len(got') = sent /\ got'[sent] = SubSeq(toClient, 1, n)
        /\ \A k \in 1 .. sent - 1 : got'[k] = got[k]
    <3>1. SubSeq(toClient, 1, n) \in PartSeq /\ got \in Seq(PartSeq)
      BY Cutting DEF TypeOK
    <3> QED BY <2>1, <2>2, <3>1, AppendProperties DEF Replied
  <2>4. n = 2
    <3>1. IsParts(SubSeq(toClient, 1, n))
      <4>1. \A k \in 1 .. Len(got') : IsParts(got'[k])
        BY DEF Uncut, IsParts
      <4>2. sent \in 1 .. Len(got')
        BY <2>2, <2>3
      <4> QED BY <2>3, <4>1, <4>2
    <3>2. Len(SubSeq(toClient, 1, n)) = 2
      BY <1>0, <3>1 DEF IsParts
    <3>3. CASE n = 1
      <4>1. SubSeq(toClient, 1, n) = <<<<sent, "first">>>>
        BY <2>2, <3>3, PartsCut
      <4> QED BY <3>2, <4>1
    <3> QED BY <2>2, <3>3
  <2>5. got'[sent] = Parts(sent) /\ toClient' = <<>>
    <3>1. /\ got'[sent] = SubSeq(Parts(sent), 1, 2)
          /\ toClient' = SubSeq(Parts(sent), 3, 2)
      BY <1>0, <2>1, <2>2, <2>3, <2>4
    <3> QED BY <2>2, <3>1, PartsCut
  <2>6. Quiet'
    BY <1>2, <2>2, <2>3, <2>5 DEF ClientRead, Replied, Quiet
  <2>7. \A k \in 1 .. Len(got') : got'[k] = Parts(k)
    BY <1>0, <2>2, <2>3, <2>5 DEF InOrder, Replied
  <2> QED BY <1>0, <1>2, <2>6, <2>7 DEF ClientRead, InOrder
<1>3. CASE ServerRead
  <2>1. PICK n \in 1 .. Len(toServer) :
          /\ chunk' = SubSeq(toServer, 1, n)
          /\ toServer' = SubSeq(toServer, n + 1, Len(toServer))
    BY <1>3 DEF ServerRead
  <2>2. Asked /\ sent \in Nat \ {0} /\ toServer = Parts(sent) /\ n \in 1 .. 2
    <3>1. Asked /\ toServer = Parts(sent)
      <4>1. chunk = <<>>
        BY <1>3 DEF ServerRead
      <4>2. Len(toServer) # 0
        BY <2>1
      <4> QED BY <1>0, <4>1, <4>2 DEF Quiet, Asked, Replied
    <3> QED BY <1>0, <2>1, <3>1 DEF Asked
  <2>3. \/ chunk' = <<<<sent, "first">>>> /\ toServer' = <<<<sent, "rest">>>>
        \/ chunk' = Parts(sent) /\ toServer' = <<>>
    <3>1. CASE n = 1
      <4>1. /\ chunk' = SubSeq(Parts(sent), 1, 1)
            /\ toServer' = SubSeq(Parts(sent), 2, 2)
        BY <1>0, <2>1, <2>2, <3>1
      <4> QED BY <2>2, <4>1, PartsCut
    <3>2. CASE n = 2
      <4>1. /\ chunk' = SubSeq(Parts(sent), 1, 2)
            /\ toServer' = SubSeq(Parts(sent), 3, 2)
        BY <1>0, <2>1, <2>2, <3>2
      <4> QED BY <2>2, <4>1, PartsCut
    <3> QED BY <2>2, <3>1, <3>2
  <2>4. Asked'
    BY <1>3, <2>2, <2>3 DEF ServerRead, Asked
  <2> QED BY <1>0, <1>3, <2>4 DEF ServerRead, InOrder
<1>4. CASE ServerReply
  <2>1. /\ Asked /\ sent \in Nat \ {0} /\ chunk = Parts(sent) /\ toServer = <<>>
        /\ Len(answered') = sent /\ answered'[sent].chunk = chunk
        /\ \A k \in 1 .. sent - 1 : answered'[k] = answered[k]
    BY <1>4, Answering
  <2>5. toClient' = Parts(sent)
    <3>1. Parts(sent) \in PartSeq
      BY <2>1, PartsOf
    <3>2. <<>> \o Parts(sent) = Parts(sent)
      BY <3>1, ConcatEmptySeq DEF PartSeq
    <3> QED BY <1>4, <2>1, <3>2 DEF ServerReply, Asked
  <2>6. Replied'
    BY <1>4, <2>1, <2>5 DEF ServerReply, Asked, Replied
  <2>7. \A k \in 1 .. Len(answered') : answered'[k].chunk = Parts(k)
    BY <1>0, <2>1 DEF InOrder, Asked
  <2> QED BY <1>0, <1>4, <2>6, <2>7 DEF ServerReply, InOrder
<1>5. CASE UNCHANGED vars
  BY <1>0, <1>5 DEF vars, Quiet, Asked, Replied, InOrder
<1> QED
  BY <1>1, <1>2, <1>3, <1>4, <1>5 DEF Next

LEMMA InitInStep == Init => InStep
BY DEF Init, InStep, Quiet, InOrder

LEMMA InStepAlways == Spec => []InStep
BY SessionTypeCorrect, InitInStep, InStepStep, PTL DEF Spec

LEMMA WholeIsParts ==
  ASSUME TypeOK
  PROVE  \A c \in PartSeq : Whole(c) => IsParts(c)
<1>1. sent \in Nat /\ Len(answered) \in Nat
  BY LenProperties DEF TypeOK
<1>2. \A c \in PartSeq : Len(c) \in Nat
  BY LenProperties DEF PartSeq
<1> QED
  BY <1>1, <1>2 DEF Whole, IsParts

LEMMA AllTyped ==
  ASSUME TypeOK
  PROVE  /\ \A k \in 1 .. Len(answered) : answered[k].chunk \in PartSeq
         /\ \A k \in 1 .. Len(got) : got[k] \in PartSeq
<1>1. answered \in Seq(AnswerSet) /\ got \in Seq(PartSeq)
  BY DEF TypeOK, AnswerSet, ReplySet
<1>2. \A k \in 1 .. Len(answered) : answered[k] \in AnswerSet
  BY <1>1, ElementOfSeq
<1>3. \A k \in 1 .. Len(got) : got[k] \in PartSeq
  BY <1>1, ElementOfSeq
<1> QED
  BY <1>2, <1>3 DEF AnswerSet

(* A client that waits for a reply before it writes again has two messages *)
(* taken for one only after a read(), its own or the handler's, has cut    *)
(* one.                                                                    *)
THEOREM LockStepKeepsMessagesApartHolds == Spec => []LockStepKeepsMessagesApart
<1>1. TypeOK /\ InStep => LockStepKeepsMessagesApart
  <2> SUFFICES ASSUME TypeOK, InStep,
                      \A k \in 1 .. Len(answered) : Whole(answered[k].chunk),
                      \A k \in 1 .. Len(got) : Whole(got[k]),
                      NEW i \in 1 .. Len(chunk), NEW j \in 1 .. Len(chunk)
               PROVE  chunk[i][1] = chunk[j][1]
    BY DEF LockStepKeepsMessagesApart
  <2>1. Uncut
    BY WholeIsParts, AllTyped DEF Uncut
  <2>2. chunk = <<>> \/ chunk = Parts(sent) \/ chunk = <<<<sent, "first">>>>
    BY <2>1 DEF InStep, Quiet, Asked, Replied
  <2>3. CASE chunk = Parts(sent)
    <3>1. i \in 1 .. 2 /\ j \in 1 .. 2
      BY <2>3, PartsOf
    <3> QED BY <2>3, <3>1, PartsOf
  <2>4. CASE chunk = <<>>
    BY <2>4
  <2>5. CASE chunk = <<<<sent, "first">>>>
    <3>1. i = 1 /\ j = 1
      BY <2>5
    <3> QED BY <3>1
  <2> QED BY <2>2, <2>3, <2>4, <2>5
<1> QED
  BY <1>1, SessionTypeCorrect, InStepAlways, PTL

-----------------------------------------------------------------------------
(* What the replies mean, if firstFour is terminated.                      *)

(* The reply to message k, and the reply before it, of a message of that   *)
(* kind.                                                                   *)
Means(k, reply, before, kind) ==
  /\ reply = "PONG" <=> kind = "PING"
  /\ reply = "SOLN" => kind = "WORK"
  /\ k > 1 /\ kind = "BACKLINE" => (reply = "OKAY" <=> before = "SOLN")

Meaning ==
  Uncut /\ terminated =>
    \A k \in 1 .. Len(answered) :
      Means(k, answered[k].reply, answered[k - 1].reply, script[k])

LEMMA ReplyMeans ==
  ASSUME TypeOK, InOrder, Asked, sent \in Nat \ {0}, chunk = Parts(sent), terminated,
         NEW r \in Replies(chunk)
  PROVE  Means(sent, r, answered[sent - 1].reply, script[sent])
<1> DEFINE t == Text(sent)
           kind == script[sent]
<1>1. Whole(chunk) /\ chunk[1][1] = sent /\ chunk[1][2] = "first"
  <2>1. Len(chunk) = 2 /\ Len(answered) \in Nat
    BY PartsOf, LenProperties DEF TypeOK
  <2>2. sent \in 1 .. Len(chunk) + sent + Len(answered)
    BY <2>1
  <2> QED BY <2>2, PartsOf DEF Whole
<1>2. \A texts : (IsLine(chunk, texts) <=> t \in texts) /\ (Begins(chunk, texts) <=> t \in texts)
  BY <1>1 DEF IsLine, Begins
<1>3. /\ r = "PONG" <=> t = "PING"
      /\ r = "SOLN" => t = "WORK"
      /\ r = "OKAY" <=> t \in {"SOLN", "ABRT"}
  <2> HIDE DEF t
  <2> QED BY <1>1, <1>2 DEF Replies, t
<1>4. /\ t = "PING" <=> kind = "PING"
      /\ t = "WORK" => kind = "WORK"
  BY DEF Text
<1>5. ASSUME sent > 1 PROVE SentBack(sent) = answered[sent - 1].reply
  <2>1. /\ sent - 1 \in 1 .. Len(answered) /\ sent - 1 \in 1 .. Len(got)
    BY <1>5 DEF Asked
  <2>2. got[sent - 1] = Parts(sent - 1) /\ got[sent - 1][1][1] = sent - 1
    BY <2>1, PartsOf DEF InOrder
  <2> QED BY <1>5, <2>1, <2>2 DEF SentBack, ReplyText
<1>6. sent > 1 /\ kind = "BACKLINE" =>
        (t \in {"SOLN", "ABRT"} <=> answered[sent - 1].reply = "SOLN")
  BY <1>5 DEF Text
<1> QED
  BY <1>3, <1>4, <1>6 DEF Means

LEMMA MeaningStep == TypeOK /\ InStep /\ Meaning /\ [Next]_vars => Meaning'
<1> SUFFICES ASSUME TypeOK, InStep, Meaning, [Next]_vars, Uncut', terminated'
             PROVE  \A k \in 1 .. Len(answered') :
                      Means(k, answered'[k].reply, answered'[k - 1].reply, script'[k])
  BY DEF Meaning
<1>0. Uncut /\ terminated /\ script' = script
  BY UncutBefore DEF Next, ClientWrite, ClientRead, ServerRead, ServerReply, vars
<1>1. \A k \in 1 .. Len(answered) :
        Means(k, answered[k].reply, answered[k - 1].reply, script[k])
  BY <1>0 DEF Meaning
<1>2. CASE ServerReply
  <2>1. /\ Asked /\ sent \in Nat \ {0} /\ chunk = Parts(sent)
        /\ Len(answered') = sent /\ answered'[sent].reply \in Replies(chunk)
        /\ \A k \in 1 .. sent - 1 : answered'[k] = answered[k]
    BY <1>2, Answering
  <2>2. Means(sent, answered'[sent].reply, answered[sent - 1].reply, script[sent])
    BY <1>0, <2>1, ReplyMeans DEF InStep
  <2>3. ASSUME NEW k \in 1 .. sent
        PROVE  Means(k, answered'[k].reply, answered'[k - 1].reply, script[k])
    <3>1. CASE k = 1 /\ sent = 1
      BY <2>2, <3>1 DEF Means
    <3>2. CASE k = sent /\ sent > 1
      <4>1. answered'[sent - 1] = answered[sent - 1]
        BY <2>1, <3>2
      <4> QED BY <2>2, <3>2, <4>1
    <3>3. CASE k < sent
      <4>1. answered'[k] = answered[k] /\ k \in 1 .. Len(answered)
        BY <2>1, <3>3 DEF Asked
      <4>2. k > 1 => answered'[k - 1] = answered[k - 1]
        BY <2>1, <3>3
      <4> QED BY <1>1, <4>1, <4>2 DEF Means
    <3> QED BY <2>1, <3>1, <3>2, <3>3
  <2> QED BY <1>0, <2>1, <2>3
<1>3. CASE answered' = answered
  BY <1>0, <1>1, <1>3
<1>4. ClientWrite \/ ClientRead \/ ServerRead \/ UNCHANGED vars => answered' = answered
  BY DEF ClientWrite, ClientRead, ServerRead, vars
<1> QED
  BY <1>2, <1>3, <1>4 DEF Next

(* As long as no read() has cut anything, replies answer the messages they *)
(* are taken for, and with a terminated firstFour they mean what they say. *)
THEOREM ConversationInStepHolds == Spec => []ConversationInStep
<1>1. TypeOK /\ InStep /\ Meaning => ConversationInStep
  <2> SUFFICES ASSUME TypeOK, InStep, Meaning, NothingCut
               PROVE  /\ InOrder
                      /\ terminated =>
                           \A k \in 1 .. Len(answered) :
                             Means(k, answered[k].reply, answered[k - 1].reply, script[k])
    BY DEF ConversationInStep, InOrder, Means
  <2>1. Uncut
    BY WholeIsParts, AllTyped DEF Uncut, NothingCut
  <2> QED BY <2>1 DEF InStep, Meaning
<1>2. Init => Meaning
  BY DEF Init, Meaning
<1> QED
  BY <1>1, <1>2, SessionTypeCorrect, InStepAlways, MeaningStep, PTL DEF Spec

=============================================================================
