------------------------------- MODULE Session -------------------------------
(***************************************************************************)
(* A client of the kind of client.c in conversation with one handler of    *)
(* server2.c.  The client writes a message, reads once, and goes on to the *)
(* next; the handler takes what one read() gives it for one message.  TCP  *)
(* keeps the order of the bytes between them and nothing else: a read()    *)
(* may end inside a message or run into the next.                          *)
(*                                                                         *)
(* A message or reply is cut in one place at most.  Its first part has the *)
(* four characters of the command at least; whatever has only one of the   *)
(* parts, or more than one message, matches no complete line.              *)
(***************************************************************************)
EXTENDS Integers, Sequences

CONSTANTS Scripts   (* what the client may send: sequences of Kinds        *)

(* SOLN: of 97 characters and valid, made up by the client; BADSOLN: of 97 *)
(* characters and wrong.  WORK: of 100 characters and solvable; SHORTWORK: *)
(* not.  BACK: the reply the client read last, as it came; BACKLINE: the   *)
(* same with "\r\n" behind.  JUNK: any other line.                         *)
Kinds == {"PING", "PONG", "OKAY", "ERRO", "SOLN", "BADSOLN", "WORK", "SHORTWORK",
          "ABRT", "JUNK", "BACK", "BACKLINE"}

ASSUME ScriptsAssumption == Scripts \subseteq Seq(Kinds)

VARIABLES
  script,
  terminated,   (* the byte behind the command in firstFour is NUL         *)
  toServer,     (* parts of messages on their way ...                      *)
  toClient,     (* ... and of replies                                      *)
  sent,         (* the messages written                                    *)
  waiting,      (* the client is in read()                                 *)
  got,          (* what each read() of the client returned                 *)
  chunk,        (* what the handler read and has not answered yet          *)
  answered      (* the chunks answered, each with its reply                *)

vars == <<script, terminated, toServer, toClient, sent, waiting, got, chunk, answered>>

(* The two parts of message or reply k.                                    *)
Parts(k) == <<<<k, "first">>, <<k, "rest">>>>

Whole(c) == \E k \in 1 .. Len(c) + sent + Len(answered) : c = Parts(k)

-----------------------------------------------------------------------------
(* What the branches of work_function() see.                               *)

(* The reply to chunk k as client.c shows it: up to the first NUL.         *)
ReplyText(k) == answered[k].reply

(* A message sent back is what the client read in its last read(): a reply *)
(* read whole, or something else.                                          *)
SentBack(k) ==
  IF k > 1 /\ \E r \in 1 .. Len(answered) : got[k - 1] = Parts(r)
  THEN ReplyText(got[k - 1][1][1]) ELSE "cut"

(* The text of message k, by the branch its command and length lead to.    *)
(* A solution sent back has 95 characters, or 97 with a line end; PONG and *)
(* OKAY end their line themselves.                                         *)
Text(k) ==
  LET kind == script[k] IN
  IF kind = "BACK" /\ SentBack(k) = "SOLN" THEN "SHORTSOLN"
  ELSE IF kind = "BACK" /\ SentBack(k) \in {"PONG", "OKAY"} THEN SentBack(k)
  ELSE IF kind = "BACKLINE" /\ SentBack(k) = "SOLN" THEN "SOLN"
  ELSE IF kind \in {"BACK", "BACKLINE"} /\ SentBack(k) = "ERRO" THEN "ERRO"
  ELSE IF kind \in {"BACK", "BACKLINE"} THEN "JUNK"
  ELSE kind

(* strcmp(buffer, ...): the chunk is one message and nothing else.         *)
IsLine(c, texts) == Whole(c) /\ Text(c[1][1]) \in texts

(* strcmp(firstFour, ...): the chunk begins with the command.              *)
Begins(c, texts) == terminated /\ c[1][2] = "first" /\ Text(c[1][1]) \in texts

(* Mutant: no solution has the length the SOLN branch asks for.            *)
RepliesNoSolution(c) ==
  IF IsLine(c, {"PING"}) THEN {"PONG"}
  ELSE IF IsLine(c, {"WORK"}) /\ terminated THEN {"SOLN", "ERRO"}
  ELSE IF Begins(c, {"ABRT"}) THEN {"OKAY"}
  ELSE {"ERRO"}

(* The branches of work_function() in their order, by what the client can  *)
(* tell apart.  The ERRO replies differ in their text only.  A WORK may be *)
(* rejected because of the other handlers' jobs.                           *)
Replies(c) ==
  IF IsLine(c, {"PING"}) THEN {"PONG"}
  ELSE IF IsLine(c, {"PONG", "OKAY"}) \/ Begins(c, {"ERRO"}) THEN {"ERRO"}
  ELSE IF Begins(c, {"SOLN", "BADSOLN"}) /\ Whole(c)
       THEN IF Text(c[1][1]) = "SOLN" THEN {"OKAY"} ELSE {"ERRO"}
  ELSE IF Begins(c, {"WORK", "SHORTWORK"})
       THEN IF IsLine(c, {"WORK"}) THEN {"SOLN", "ERRO"} ELSE {"ERRO"}
  ELSE IF Begins(c, {"ABRT"}) THEN {"OKAY"}
  ELSE {"ERRO"}

-----------------------------------------------------------------------------
(* client.c.                                                               *)

(* Mutant: the client writes its next message without reading first.       *)
ClientWritesAhead ==
  /\ sent < Len(script)
  /\ sent' = sent + 1
  /\ toServer' = toServer \o Parts(sent')
  /\ waiting' = TRUE
  /\ UNCHANGED <<script, terminated, toClient, got, chunk, answered>>

(* Mutant: one message more than the script has.                           *)
ClientWritesOneMore ==
  /\ ~waiting /\ sent <= Len(script)
  /\ sent' = sent + 1
  /\ toServer' = toServer \o Parts(sent')
  /\ waiting' = TRUE
  /\ UNCHANGED <<script, terminated, toClient, got, chunk, answered>>

(* write(), and read() is called.                                          *)
ClientWrite ==
  /\ ~waiting /\ sent < Len(script)
  /\ sent' = sent + 1
  /\ toServer' = toServer \o Parts(sent')
  /\ waiting' = TRUE
  /\ UNCHANGED <<script, terminated, toClient, got, chunk, answered>>

(* read() returns some of what has arrived.                                *)
ClientRead ==
  /\ waiting
  /\ \E n \in 1 .. Len(toClient) :
       /\ got' = Append(got, SubSeq(toClient, 1, n))
       /\ toClient' = SubSeq(toClient, n + 1, Len(toClient))
  /\ waiting' = FALSE
  /\ UNCHANGED <<script, terminated, toServer, sent, chunk, answered>>

-----------------------------------------------------------------------------
(* work_function().                                                        *)

ServerRead ==
  /\ chunk = <<>>
  /\ \E n \in 1 .. Len(toServer) :
       /\ chunk' = SubSeq(toServer, 1, n)
       /\ toServer' = SubSeq(toServer, n + 1, Len(toServer))
  /\ UNCHANGED <<script, terminated, toClient, sent, waiting, got, answered>>

(* Mutant: a line that is no command gets no reply, as in server3.c.       *)
ServerRepliesToCommands ==
  /\ chunk # <<>>
  /\ \E r \in Replies(chunk) :
       /\ answered' = Append(answered, [chunk |-> chunk, reply |-> r])
       /\ toClient' = IF Begins(chunk, {"JUNK"}) THEN toClient
                      ELSE toClient \o Parts(Len(answered'))
  /\ chunk' = <<>>
  /\ UNCHANGED <<script, terminated, toServer, sent, waiting, got>>

(* The branch taken writes one reply, and the handler reads again.         *)
ServerReply ==
  /\ chunk # <<>>
  /\ \E r \in Replies(chunk) :
       answered' = Append(answered, [chunk |-> chunk, reply |-> r])
  /\ toClient' = toClient \o Parts(Len(answered'))
  /\ chunk' = <<>>
  /\ UNCHANGED <<script, terminated, toServer, sent, waiting, got>>

Init ==
  /\ script \in Scripts
  /\ terminated \in BOOLEAN
  /\ toServer = <<>> /\ toClient = <<>>
  /\ sent = 0 /\ waiting = FALSE
  /\ got = <<>>
  /\ chunk = <<>> /\ answered = <<>>

Next == ClientWrite \/ ClientRead \/ ServerRead \/ ServerReply

Spec == Init /\ [][Next]_vars /\ WF_vars(Next)

-----------------------------------------------------------------------------
(* Properties.                                                             *)

PartSeq == Seq((Nat \ {0}) \X {"first", "rest"})

TypeOK ==
  /\ script \in Scripts /\ terminated \in BOOLEAN /\ waiting \in BOOLEAN
  /\ {toServer, toClient, chunk} \subseteq PartSeq
  /\ sent \in 0 .. Len(script)
  /\ got \in Seq(PartSeq)
  /\ answered \in Seq([chunk : PartSeq, reply : {"PONG", "OKAY", "SOLN", "ERRO"}])

(* Every read() so far, on either side, returned one message or reply.     *)
NothingCut ==
  /\ \A k \in 1 .. Len(answered) : Whole(answered[k].chunk)
  /\ chunk # <<>> => Whole(chunk)
  /\ \A k \in 1 .. Len(got) : Whole(got[k])

(* A client that waits for a reply before it writes again never has two    *)
(* messages taken for one by the handler, unless some read() on either     *)
(* side ended inside a message or reply before.                            *)
LockStepKeepsMessagesApart ==
  (\E i, j \in 1 .. Len(chunk) : chunk[i][1] # chunk[j][1])
    => \/ \E k \in 1 .. Len(answered) : ~Whole(answered[k].chunk)
       \/ \E k \in 1 .. Len(got) : ~Whole(got[k])

(* As long as no read() cut anything, the k-th reply is the one to the     *)
(* k-th message, and the k-th the client reads; and if firstFour happens   *)
(* to be terminated, the reply means what it says: PONG answers PING, SOLN *)
(* answers WORK, and a solution the server found is one it accepts, once   *)
(* the client has ended its line.                                          *)
ConversationInStep ==
  NothingCut =>
    /\ \A k \in 1 .. Len(answered) : answered[k].chunk = Parts(k)
    /\ \A k \in 1 .. Len(got) : got[k] = Parts(k)
    /\ terminated =>
         \A k \in 1 .. Len(answered) :
           LET reply == answered[k].reply IN
           /\ reply = "PONG" <=> script[k] = "PING"
           /\ reply = "SOLN" => script[k] = "WORK"
           /\ k > 1 /\ script[k] = "BACKLINE" =>
                (reply = "OKAY" <=> answered[k - 1].reply = "SOLN")

(* However TCP cuts the bytes, the client gets through its script: there   *)
(* is a reply to read after every message.                                 *)
ClientFinishes == <>(sent = Len(script) /\ ~waiting)

=============================================================================
