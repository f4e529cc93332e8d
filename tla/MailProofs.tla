----------------------------- MODULE MailProofs -----------------------------
(****************************************************************************)
(* The POP3 and SMTP proxies, proved for every policy, every set of         *)
(* commands and every number of lines.                                      *)
(****************************************************************************)
EXTENDS Pop3, Smtp, TLAPS

(****************************************************************************)
(* POP3.  Pop3InStep: until the server has logged the client in, the two    *)
(* sides are in step.  Nothing is under way while the client has the turn,  *)
(* and a single answer while the server has it, which is positive only for  *)
(* a command that neither logs in nor is answered with several lines.       *)
(****************************************************************************)
Pop3LoggedOut == pop3Server \notin {"trans", "gone"}

Pop3InStep ==
    Pop3LoggedOut /\ Running =>
       /\ pop3State # "TRANS" /\ pop3Turn \in {"CLIENT", "SERVER"}
       /\ pop3Turn = "CLIENT" => pop3Wire = <<>>
       /\ pop3Turn = "SERVER" =>
             \E answer \in [for : Nat, kind : {"+OK", "-ERR", "+ "}] :
                /\ pop3Wire = <<answer>>
                /\ answer.kind = "+OK" =>
                      pop3Request.cmd \notin {"PASS", "APOP"} /\ ~pop3Request.mline /\ pop3State # "AUTH_A"

(* Who has the turn, and how many answers the client has. *)
Pop3Turns ==
    /\ pop3Turn \in {"CLIENT", "SERVER", "MULTILINE"} /\ requests \in Nat /\ replies \in Nat
    /\ Running => replies = IF pop3Turn = "CLIENT" THEN requests + 1 ELSE requests

Pop3Inv ==
    /\ Pop3Turns /\ Pop3InStep
    /\ pop3Wire \in Seq([for : Nat, kind : {"+OK", "-ERR", "+ ", "body", "junk"}])
    /\ pop3Request \in [cmd : Pop3Commands \union {"GREETING", "*", "secret"}, mline : BOOLEAN]

-----------------------------------------------------------------------------

(* What the proofs need of the command table. *)
LEMMA CommandTable ==
    /\ \A c : IsKnown(c) => KnownCommands[c].mline \in BOOLEAN
    /\ \A c : IsKnown(c) /\ KnownCommands[c].answer = "login" => c \in {"PASS", "APOP"}
    /\ IsKnown("USER") /\ ~KnownCommands["USER"].mline
    /\ ~IsKnown("*") /\ ~IsKnown("secret") /\ ~IsKnown("GREETING")
<1>1. DOMAIN KnownCommands = {"APOP", "DELE", "LIST", "LAST", "NOOP", "PASS", "QUIT", "RETR", "RSET", "STAT",
                              "TOP", "UIDL", "USER", "AUTH"}
  BY DEF KnownCommands
<1>2. \A c \in {"DELE", "LAST", "NOOP", "QUIT", "RSET", "STAT", "USER", "AUTH", "APOP", "PASS"} : KnownCommands[c].mline = FALSE
  BY DEF KnownCommands, Known
<1>3. \A c \in {"LIST", "RETR", "TOP", "UIDL"} : KnownCommands[c].mline = TRUE
  BY DEF KnownCommands, Known
<1>4. \A c \in {"DELE", "LIST", "LAST", "NOOP", "QUIT", "RETR", "RSET", "STAT", "TOP", "UIDL", "USER", "AUTH"} :
         KnownCommands[c].answer # "login"
  BY DEF KnownCommands, Known
<1> QED BY <1>1, <1>2, <1>3, <1>4 DEF IsKnown

(* Sequences of one element. *)
LEMMA OneItem ==
    ASSUME NEW S, NEW x \in S, NEW w \in Seq(S), NEW b \in Seq(S)
    PROVE  /\ <<x>> \in Seq(S) /\ <<>> \in Seq(S) /\ Append(w, x) \in Seq(S) /\ w \o <<x>> \o b \in Seq(S)
           /\ w = <<>> => Append(w, x) = <<x>>
           /\ w = <<>> /\ b = <<>> => w \o <<x>> \o b = <<x>>
<1>1. <<x>> \in Seq(S) /\ <<>> \in Seq(S)
  OBVIOUS
<1>2. w \o <<x>> \in Seq(S)
  BY <1>1
<1>3. w \o <<x>> \o b \in Seq(S)
  BY <1>2
<1>4. ASSUME w = <<>> PROVE w \o <<x>> = <<x>> /\ Append(w, x) = <<x>>
  BY <1>4
<1>5. ASSUME w = <<>>, b = <<>> PROVE w \o <<x>> \o b = <<x>>
  <2>1. w \o <<x>> = <<x>>
    BY <1>4, <1>5
  <2>2. <<x>> \o b = <<x>>
    BY <1>5
  <2> QED BY <2>1, <2>2
<1>6. Append(w, x) \in Seq(S)
  OBVIOUS
<1> QED BY <1>1, <1>3, <1>4, <1>5, <1>6

(* What is left of a queue. *)
LEMMA TailItems == ASSUME NEW S, NEW w \in Seq(S), w # <<>> PROVE Tail(w) \in Seq(S)
  OBVIOUS

(* A queue with one item. *)
LEMMA OnlyItem == ASSUME NEW x PROVE Head(<<x>>) = x /\ Tail(<<x>>) = <<>>
  OBVIOUS

(* A session begins in step: with the greeting. *)
LEMMA Pop3InitInv == Pop3Init => Pop3Inv
<1> SUFFICES ASSUME Pop3Init PROVE Pop3Inv OBVIOUS
<1>1. Pop3Turns
  BY DEF Pop3Init, Pop3Turns
<1>2. Pop3InStep
  BY DEF Pop3Init, Pop3InStep, NoRequest
<1>3. pop3Wire \in Seq([for : Nat, kind : {"+OK", "-ERR", "+ ", "body", "junk"}])
  BY DEF Pop3Init
<1>4. pop3Request \in [cmd : Pop3Commands \union {"GREETING", "*", "secret"}, mline : BOOLEAN]
  BY DEF Pop3Init, NoRequest
<1> QED BY <1>1, <1>2, <1>3, <1>4 DEF Pop3Inv

(* What the server does with a line: a server that logged the client in     *)
(* stays so or goes, and before that one answer is under way.               *)
LEMMA AnswerInStep ==
    ASSUME NEW c, NEW a, Answer(c, a), requests' \in Nat,
           pop3Wire \in Seq([for : Nat, kind : {"+OK", "-ERR", "+ ", "body", "junk"}])
    PROVE  /\ pop3Wire' \in Seq([for : Nat, kind : {"+OK", "-ERR", "+ ", "body", "junk"}])
           /\ ~Pop3LoggedOut => ~Pop3LoggedOut'
           /\ Pop3LoggedOut' /\ pop3Wire = <<>> =>
                 \E answer \in [for : Nat, kind : {"+OK", "-ERR", "+ "}] :
                    /\ pop3Wire' = <<answer>>
                    /\ answer.kind = "+OK" => c = "USER"
<1> DEFINE item(kind) == [for |-> requests', kind |-> kind]
           body == IF IsKnown(c) /\ Multiline(c, a) THEN <<item("body")>> ELSE <<>>
           Items == [for : Nat, kind : {"+OK", "-ERR", "+ ", "body", "junk"}]
<1>1. c = "USER" => body = <<>>
  BY CommandTable DEF Multiline
<1>2. \A k \in {"+OK", "-ERR", "+ ", "body"} : item(k) \in Items
  OBVIOUS
<1>w. pop3Wire \in Seq(Items)
  OBVIOUS
<1> HIDE DEF item, Items
<1>3. body \in Seq(Items)
  BY <1>2, <1>w, OneItem
<1> HIDE DEF body
<1>4. pop3Wire \o <<item("+OK")>> \o body \in Seq(Items)
  BY <1>2, <1>3, <1>w, OneItem
<1>5. \A k \in {"-ERR", "+ "} : Append(pop3Wire, item(k)) \in Seq(Items)
  BY <1>2, <1>w, OneItem
<1>6. pop3Wire' \in Seq(Items)
  BY <1>4, <1>5, <1>w DEF Answer, item, body
<1>7. ~Pop3LoggedOut => ~Pop3LoggedOut'
  BY DEF Answer, Pop3LoggedOut
<1>8. ASSUME Pop3LoggedOut', pop3Wire = <<>>
      PROVE  \E answer \in [for : Nat, kind : {"+OK", "-ERR", "+ "}] :
                    /\ pop3Wire' = <<answer>>
                    /\ answer.kind = "+OK" => c = "USER"
  <2>1. \/ c = "USER" /\ pop3Wire' = pop3Wire \o <<item("+OK")>> \o body
        \/ pop3Wire' = Append(pop3Wire, item("-ERR"))
        \/ pop3Wire' = Append(pop3Wire, item("+ "))
    BY <1>7, <1>8 DEF Answer, Pop3LoggedOut, item, body
  <2>2. CASE c = "USER" /\ pop3Wire' = pop3Wire \o <<item("+OK")>> \o body
    <3>1. pop3Wire' = <<item("+OK")>>
      BY <1>1, <1>2, <1>3, <1>8, <1>w, <2>2, OneItem
    <3>2. item("+OK") \in [for : Nat, kind : {"+OK", "-ERR", "+ "}]
      BY DEF item
    <3> QED BY <2>2, <3>1, <3>2
  <2>3. CASE \E k \in {"-ERR", "+ "} : pop3Wire' = Append(pop3Wire, item(k))
    <3>1. PICK k \in {"-ERR", "+ "} : pop3Wire' = Append(pop3Wire, item(k))
      BY <2>3
    <3>2. pop3Wire' = <<item(k)>>
      BY <1>2, <1>3, <1>8, <1>w, <3>1, OneItem
    <3>3. item(k) \in [for : Nat, kind : {"+OK", "-ERR", "+ "}] /\ item(k).kind # "+OK"
      BY <3>1 DEF item
    <3> QED BY <3>2, <3>3
  <2> QED BY <2>1, <2>2, <2>3
<1> QED BY <1>6, <1>7, <1>8 DEF Items

(* A line that goes to the server leaves the two in step. *)
LEMMA ForwardStep ==
    ASSUME Pop3Inv, Running, pop3Turn = "CLIENT", requests' = requests + 1,
           NEW c \in Pop3Commands \union {"*", "secret"}, NEW a, NEW mline \in BOOLEAN, NEW next,
           Forward(c, a, mline, next), next # "TRANS" \/ pop3State = "TRANS",
           c = "USER" => ~mline /\ next # "AUTH_A"
    PROVE  Pop3Inv'
<1>1. /\ pop3Request' = [cmd |-> c, mline |-> mline] /\ pop3State' = next /\ pop3Turn' = "SERVER"
      /\ Answer(c, a) /\ replies' = replies /\ requests' \in Nat
  BY DEF Forward, Pop3Inv, Pop3Turns
<1>2. /\ pop3Wire' \in Seq([for : Nat, kind : {"+OK", "-ERR", "+ ", "body", "junk"}])
      /\ ~Pop3LoggedOut => ~Pop3LoggedOut'
      /\ Pop3LoggedOut' /\ pop3Wire = <<>> =>
            \E answer \in [for : Nat, kind : {"+OK", "-ERR", "+ "}] :
               /\ pop3Wire' = <<answer>>
               /\ answer.kind = "+OK" => c = "USER"
  BY <1>1, AnswerInStep DEF Pop3Inv
<1>3. Pop3Turns'
  BY <1>1 DEF Pop3Inv, Pop3Turns
<1>4. Pop3InStep'
  <2> SUFFICES ASSUME Pop3LoggedOut', Running' PROVE Pop3InStep'
    BY DEF Pop3InStep
  <2>1. Pop3LoggedOut /\ pop3Wire = <<>> /\ pop3State # "TRANS"
    BY <1>2 DEF Pop3Inv, Pop3InStep
  <2>2. PICK answer \in [for : Nat, kind : {"+OK", "-ERR", "+ "}] :
               pop3Wire' = <<answer>> /\ (answer.kind = "+OK" => c = "USER")
    BY <1>2, <2>1
  <2> QED BY <1>1, <2>1, <2>2 DEF Pop3InStep
<1>5. pop3Request' \in [cmd : Pop3Commands \union {"GREETING", "*", "secret"}, mline : BOOLEAN]
  BY <1>1
<1> QED BY <1>2, <1>3, <1>4, <1>5 DEF Pop3Inv

(* A line that is refused is answered and leaves the turn with the client. *)
LEMMA RefuseStep ==
    ASSUME Pop3Inv, Running, pop3Turn = "CLIENT", requests' = requests + 1,
           replies' = replies + 1 \/ (pop3State' = "QUIT" /\ replies' = replies),
           pop3State' # "TRANS" \/ pop3State' = pop3State,
           UNCHANGED <<pop3Request, pop3Turn, pop3Server, pop3Wire>>
    PROVE  Pop3Inv'
<1>1. Pop3Turns'
  <2>1. pop3Turn' = "CLIENT" /\ requests \in Nat /\ replies = requests + 1
    BY DEF Pop3Inv, Pop3Turns
  <2>2. replies' \in Nat /\ requests' \in Nat
    BY <2>1
  <2>3. Running' => replies' = requests' + 1
    BY <2>1 DEF Running
  <2> QED BY <2>1, <2>2, <2>3 DEF Pop3Turns
<1>2. Pop3InStep'
  BY DEF Pop3Inv, Pop3InStep, Running, Pop3LoggedOut
<1> QED BY <1>1, <1>2 DEF Pop3Inv

(* pop3_client_to_server *)
LEMMA ClientToServerStep == ASSUME Pop3Inv, ClientToServer PROVE Pop3Inv'
<1>1. Running /\ pop3Turn = "CLIENT"
  BY DEF ClientToServer
<1>2. ASSUME NEW c \in Pop3Commands, NEW a \in Args, CommandLine(c, a) PROVE Pop3Inv'
  <2>1. CASE Refused(c, a) # "no" /\ Refuse(Refused(c, a)) /\ StaysWithClient
    BY <1>1, <1>2, <2>1, RefuseStep DEF CommandLine, Refuse, Reject, StaysWithClient
  <2>2. ASSUME NEW v \in CommandVerdicts(c), Refuse(Process(c, a, v).verdict), StaysWithClient
        PROVE  Pop3Inv'
    BY <1>1, <1>2, <2>2, RefuseStep DEF CommandLine, Refuse, Reject, StaysWithClient
  <2>3. ASSUME NEW v \in CommandVerdicts(c), Process(c, a, v).verdict = "ACCEPT",
               Forward(c, a, Process(c, a, v).mline, IF c = "AUTH" THEN "AUTH_A" ELSE pop3State)
        PROVE  Pop3Inv'
    <3>1. Process(c, a, v).mline \in BOOLEAN
      <4>1. IsKnown(c) => Multiline(c, a) \in BOOLEAN
        BY CommandTable DEF Multiline
      <4>2. \/ v = <<"ACCEPT", FALSE>> \/ v = <<"ACCEPT", TRUE>> \/ v = <<"ACCEPT_MLINE", TRUE>>
            \/ v = <<"REJECT", FALSE>> \/ v = <<"ABORT", FALSE>>
        BY <2>3 DEF CommandVerdicts
      <4>3. v[2] = TRUE \/ v[2] = FALSE
        BY <4>2
      <4> QED BY <4>1, <4>3 DEF Process
    <3>2. c = "USER" => ~Process(c, a, v).mline
      <4> SUFFICES ASSUME c = "USER" PROVE ~Process(c, a, v).mline OBVIOUS
      <4>1. v[1] = "ACCEPT"
        BY <2>3 DEF Process
      <4> QED BY <4>1, CommandTable DEF Process, Multiline
    <3> QED BY <1>1, <1>2, <2>3, <3>1, <3>2, ForwardStep DEF CommandLine
  <2> QED BY <1>2, <2>1, <2>2, <2>3 DEF CommandLine
<1>3. ASSUME NEW cancel \in BOOLEAN, AuthLine(cancel) PROVE Pop3Inv'
  <2>1. CASE Forward("*", "none", FALSE, "AUTH_A_CANCEL")
    BY <1>1, <1>3, <2>1, ForwardStep DEF AuthLine
  <2>2. CASE Forward("secret", "none", FALSE, pop3State)
    BY <1>1, <1>3, <2>2, ForwardStep DEF AuthLine
  <2>3. CASE Reject /\ pop3State' = "AUTH" /\ UNCHANGED <<pop3Request, pop3Turn, pop3Server, pop3Wire>>
    BY <1>1, <1>3, <2>3, RefuseStep DEF AuthLine, Reject
  <2> QED BY <1>3, <2>1, <2>2, <2>3 DEF AuthLine
<1> QED BY <1>2, <1>3 DEF ClientToServer

(* The session ends, or goes on with the server gone: nothing is left to    *)
(* keep in step.                                                            *)
LEMMA LastSteps ==
    ASSUME Pop3Inv, ClientEnds \/ ServerEnds \/ Pop3Timeout
    PROVE  Pop3Inv'
<1>1. /\ pop3State' = "QUIT" /\ replies' \in {replies, replies + 1}
      /\ UNCHANGED <<pop3Turn, pop3Request, pop3Server, pop3Wire, requests>>
  BY DEF ClientEnds, ServerEnds, Pop3Timeout
<1>2. Pop3Turns'
  <2>1. pop3Turn \in {"CLIENT", "SERVER", "MULTILINE"} /\ requests \in Nat /\ replies \in Nat
    BY DEF Pop3Inv, Pop3Turns
  <2>2. ~Running'
    BY <1>1 DEF Running
  <2> QED BY <1>1, <2>1, <2>2 DEF Pop3Turns
<1>3. Pop3InStep'
  BY <1>1 DEF Pop3InStep, Running
<1> QED BY <1>1, <1>2, <1>3 DEF Pop3Inv

(* The server goes away: what it still had to say is junk to the proxy. *)
LEMMA ServerClosesStep == ASSUME Pop3Inv, ServerCloses PROVE Pop3Inv'
<1> DEFINE Items == [for : Nat, kind : {"+OK", "-ERR", "+ ", "body", "junk"}]
<1>1. [for |-> requests, kind |-> "junk"] \in Items
  BY DEF Pop3Inv, Pop3Turns
<1>2. pop3Wire' \in Seq(Items)
  <2> HIDE DEF Items
  <2>1. pop3Wire \in Seq(Items)
    BY DEF Pop3Inv, Items
  <2> QED BY <1>1, <2>1, OneItem DEF ServerCloses
<1>3. Pop3Turns'
  BY DEF ServerCloses, Pop3Inv, Pop3Turns, Running
<1>4. Pop3InStep'
  BY DEF ServerCloses, Pop3InStep, Pop3LoggedOut
<1> QED BY <1>2, <1>3, <1>4 DEF Pop3Inv, ServerCloses

(* pop3_response_multiline: only a logged in client gets several lines. *)
LEMMA DataTransferStep == ASSUME Pop3Inv, DataTransfer PROVE Pop3Inv'
<1>1. /\ Running /\ pop3Turn = "MULTILINE" /\ pop3Turn' = "CLIENT" /\ replies' = replies + 1
      /\ UNCHANGED <<pop3Request, pop3Server, requests>>
  BY DEF DataTransfer
<1>2. ~Pop3LoggedOut'
  BY <1>1 DEF Pop3Inv, Pop3InStep, Pop3LoggedOut
<1>3. Pop3Turns'
  <2>1. requests \in Nat /\ replies = requests
    BY <1>1 DEF Pop3Inv, Pop3Turns
  <2> QED BY <1>1, <2>1 DEF Pop3Turns
<1>4. Pop3InStep'
  BY <1>2 DEF Pop3InStep
<1>5. pop3Wire' \in Seq([for : Nat, kind : {"+OK", "-ERR", "+ ", "body", "junk"}])
  <2>1. pop3Wire' = pop3Wire \/ (pop3Wire # <<>> /\ pop3Wire' = Tail(pop3Wire))
    BY DEF DataTransfer
  <2> QED BY <2>1, TailItems DEF Pop3Inv
<1> QED BY <1>1, <1>3, <1>4, <1>5 DEF Pop3Inv

(* An answer of a server that has not logged the client in.                 *)
LEMMA LoggedOutAnswer ==
    ASSUME Pop3Inv, ServerToClient, Pop3LoggedOut
    PROVE  pop3State' # "TRANS" /\ pop3Turn' = "CLIENT" /\ pop3Wire' = <<>>
<1>1. PICK answer \in [for : Nat, kind : {"+OK", "-ERR", "+ "}] :
                /\ pop3Wire = <<answer>>
                /\ answer.kind = "+OK" =>
                      pop3Request.cmd \notin {"PASS", "APOP"} /\ ~pop3Request.mline /\ pop3State # "AUTH_A"
  BY DEF Pop3Inv, Pop3InStep, ServerToClient
<1>2. pop3State # "TRANS"
  BY DEF Pop3Inv, Pop3InStep, ServerToClient
<1>3. Head(pop3Wire) = answer /\ pop3Wire' = <<>>
  BY <1>1, OnlyItem DEF ServerToClient
<1>4. CASE AuthAnswer(answer)
  BY <1>1, <1>2, <1>3, <1>4 DEF AuthAnswer
<1>5. ASSUME NEW status \in Statuses(answer), status # "invalid",
             pop3Request' = [pop3Request EXCEPT !.mline = @ /\ status = "+OK"]
      PROVE  AfterAnswer(status) # "TRANS" /\ ~pop3Request'.mline
  <2>1. status = answer.kind
    BY <1>1, <1>5 DEF Statuses
  <2>2. pop3Request \in [cmd : Pop3Commands \union {"GREETING", "*", "secret"}, mline : BOOLEAN]
    BY DEF Pop3Inv
  <2>3. ~pop3Request'.mline
    BY <1>1, <1>5, <2>1, <2>2
  <2>4. AfterAnswer(status) # "TRANS"
    BY <1>1, <1>2, <2>1, CommandTable DEF AfterAnswer
  <2> QED BY <2>3, <2>4
<1>6. CASE AnswerLine(answer)
  <2>1. PICK status \in Statuses(answer) :
           \/ status = "invalid" /\ pop3Turn' = "CLIENT" /\ pop3State' = pop3State
           \/ /\ status # "invalid"
              /\ pop3Request' = [pop3Request EXCEPT !.mline = @ /\ status = "+OK"]
              /\ \/ /\ pop3State' = AfterAnswer(status)
                    /\ pop3Turn' = IF pop3Request'.mline THEN "MULTILINE" ELSE "CLIENT"
                 \/ /\ pop3State' \in {IF pop3State = "LISTEN" THEN "AUTH" ELSE pop3State, "QUIT"}
                    /\ pop3Turn' = "CLIENT"
    BY <1>6 DEF AnswerLine
  <2> QED BY <1>2, <1>3, <1>5, <2>1
<1> QED BY <1>3, <1>4, <1>6 DEF ServerToClient

(* pop3_server_to_client *)
LEMMA ServerToClientStep == ASSUME Pop3Inv, ServerToClient PROVE Pop3Inv'
<1>1. /\ Running /\ pop3Turn = "SERVER" /\ pop3Wire # <<>> /\ pop3Wire' = Tail(pop3Wire)
      /\ UNCHANGED <<pop3Server, requests>>
  BY DEF ServerToClient
<1>2. \/ pop3Turn' = "CLIENT" /\ replies' = replies + 1
      \/ pop3Turn' = "MULTILINE" /\ replies' = replies
  BY DEF ServerToClient, AnswerLine, AuthAnswer, Reject
<1>3. Pop3Turns'
  <2>1. requests \in Nat /\ replies = requests
    BY <1>1 DEF Pop3Inv, Pop3Turns
  <2> QED BY <1>1, <1>2, <2>1 DEF Pop3Turns
<1>4. Pop3InStep'
  BY <1>1, LoggedOutAnswer DEF Pop3InStep, Pop3LoggedOut
<1>5. pop3Wire' \in Seq([for : Nat, kind : {"+OK", "-ERR", "+ ", "body", "junk"}])
  BY <1>1, TailItems DEF Pop3Inv
<1>6. pop3Request' \in [cmd : Pop3Commands \union {"GREETING", "*", "secret"}, mline : BOOLEAN]
  <2>1. \/ pop3Request' = pop3Request
        \/ \E status : pop3Request' = [pop3Request EXCEPT !.mline = @ /\ status = "+OK"]
    BY DEF ServerToClient, AnswerLine, AuthAnswer
  <2> QED BY <2>1 DEF Pop3Inv
<1> QED BY <1>3, <1>4, <1>5, <1>6 DEF Pop3Inv

(* Pop3Inv is inductive. *)
LEMMA Pop3Step == Pop3Inv /\ [Pop3Next]_pop3Vars => Pop3Inv'
<1> SUFFICES ASSUME Pop3Inv, [Pop3Next]_pop3Vars PROVE Pop3Inv' OBVIOUS
<1>1. CASE UNCHANGED pop3Vars
  BY <1>1 DEF pop3Vars, Pop3Inv, Pop3Turns, Pop3InStep, Pop3LoggedOut, Running
<1> QED BY <1>1, ClientToServerStep, LastSteps, ServerToClientStep, DataTransferStep, ServerClosesStep DEF Pop3Next

(* For every policy, every set of commands, any number of lines and of      *)
(* lines of an authentication: the proxy takes a client to be logged in     *)
(* (pop3_state is TRANS) only if the server has logged it in or is gone,    *)
(* and whenever the client has the turn each of its lines has been answered *)
(* exactly once.                                                            *)
THEOREM Pop3IsSound == Pop3Spec => []Pop3Session
<1>1. Pop3Inv => Pop3Session
  <2> SUFFICES ASSUME Pop3Inv PROVE Pop3Session OBVIOUS
  <2>1. Pop3LoggedIn
    BY DEF Pop3Inv, Pop3InStep, Pop3LoggedIn, Pop3LoggedOut, Running
  <2>2. Pop3Alternates
    BY DEF Pop3Inv, Pop3Turns, Pop3Alternates
  <2> QED BY <2>1, <2>2 DEF Pop3Session
<1> QED BY <1>1, Pop3InitInv, Pop3Step, PTL DEF Pop3Spec
-----------------------------------------------------------------------------
(****************************************************************************)
(* SMTP.  SmtpPhase: what holds of the fields of the proxy in each state    *)
(* of its loop.  While it waits for an answer the command in work is one    *)
(* that the state lets through, and data_transfer is raised exactly for a   *)
(* transfer that exists; so a refused answer cannot leave the proxy ahead   *)
(* of the server unless it is one of those that withheld records, nor in a  *)
(* transfer without its object.                                             *)
(****************************************************************************)
Places == {"init", "ehlo", "mail", "rcpt", "data", "auth", "tls"}
Codes == {"2xx", "220", "235", "334", "354", "5xx"}

SmtpRecord ==
    [conf : [security : SmtpSecurities, requests : RequestPolicies],
     proxy : {"UNCONNECTED_GREET", "UNCONNECTED_REJECT_ALL", "REQUEST", "RESPONSE", "TRANSFER", "PLUG", "ended"},
     state : {"INITIAL", "EHLO", "MAIL_FROM", "RCPT_TO", "AUTH", "QUIT"},
     request : MailCommands \union {"Null"},
     reply : Codes \union {"none"},
     flag : BOOLEAN,
     transfer : {"none", "plain", "stacked"},
     extensions : SUBSET UNION ListedExtensions,
     tls : [client : BOOLEAN, server : BOOLEAN],
     server : Places,
     withheld : BOOLEAN,
     owed : Int,
     lines : Nat]

(* The command is one that may come in this state. *)
Permitted(s, c) == c = "NOOP" \/ (c \in DOMAIN CommandStates /\ s.state \in CommandStates[c])

(* A server in an authentication of which the proxy does not know would     *)
(* answer the next command as a line of it.                                 *)
NotAhead(s) ==
    s.withheld \/
    /\ s.state = "MAIL_FROM" => s.server \in {"mail", "rcpt"}
    /\ s.state = "RCPT_TO" => s.server = "rcpt"
    /\ s.server = "auth" => s.state \in {"AUTH", "QUIT"}

(* What an exit of the loop starts from. *)
SmtpCalm(s) ==
    /\ s \in SmtpRecord /\ NotAhead(s)
    /\ s.state = "AUTH" => s.request = "AUTH" /\ ~s.flag
    /\ s.server = "auth" => s.state \in {"EHLO", "AUTH", "QUIT"}
    /\ s.flag => s.state \in {"RCPT_TO", "QUIT"} /\ s.server # "auth"
    /\ s.proxy \in {"UNCONNECTED_GREET", "UNCONNECTED_REJECT_ALL"} => s.state # "AUTH"

(* The server waits for the mail and the proxy is about to send it. *)
Sending(s) == s \in SmtpRecord /\ s.proxy = "TRANSFER" /\ s.state = "RCPT_TO" /\ s.server = "data"

SmtpPhase(s) ==
    /\ s.proxy = "RESPONSE" =>
          /\ s.flag <=> s.transfer # "none"
          /\ s.request = "DATA" => s.flag
          /\ \/ s.request = "Null" /\ s.state = "INITIAL"
             \/ s.request = "AUTH" /\ s.state = "AUTH"
             \/ Permitted(s, s.request)
    /\ s.proxy \in {"REQUEST", "UNCONNECTED_GREET", "UNCONNECTED_REJECT_ALL"} => s.transfer = "none"
    /\ s.proxy = "TRANSFER" => s.transfer # "none" /\ s.server # "auth"

SmtpGood(s) == (SmtpCalm(s) \/ Sending(s)) /\ SmtpPhase(s)

-----------------------------------------------------------------------------

(* Only a transfer has the server in the middle of a mail. *)
LEMMA GoodIsCalm ==
    ASSUME NEW s, SmtpGood(s)
    PROVE  /\ s \in SmtpRecord /\ SmtpPhase(s) /\ (s.proxy # "TRANSFER" => SmtpCalm(s))
           /\ s.flag => s.server # "auth"
  BY DEF SmtpGood, SmtpCalm, Sending

(* The exits of the loop. *)
LEMMA ErrorExitGood == ASSUME NEW s, SmtpCalm(s) PROVE SmtpGood(ErrorExit(s))
<1> DEFINE e == ErrorExit(s)
<1>1. s \in SmtpRecord
  BY DEF SmtpCalm
<1> DEFINE flag == s.flag /\ s.transfer = "none"
           proxy == IF s.proxy = "UNCONNECTED_REJECT_ALL" THEN s.proxy ELSE "REQUEST"
<1>f. flag \in BOOLEAN /\ proxy \in {"UNCONNECTED_REJECT_ALL", "REQUEST"}
  OBVIOUS
<1>2. e = [s EXCEPT !.proxy = proxy, !.flag = flag, !.transfer = "none", !.owed = @ - 1]
  BY <1>1 DEF ErrorExit, Answered, SmtpRecord
<1> HIDE DEF e, flag, proxy
<1>3. e \in SmtpRecord
  <2>1. s.owed - 1 \in Int
    BY <1>1 DEF SmtpRecord
  <2>2. PICK o \in Int : e = [s EXCEPT !.proxy = proxy, !.flag = flag, !.transfer = "none", !.owed = o]
    BY <1>1, <1>2, <2>1
  <2> DEFINE t == [s EXCEPT !.proxy = proxy]
             u == [t EXCEPT !.flag = flag, !.transfer = "none"]
  <2>3. t \in SmtpRecord
    BY <1>1, <1>f DEF SmtpRecord
  <2>4. u \in SmtpRecord
    <3>1. ASSUME NEW b \in BOOLEAN PROVE [t EXCEPT !.flag = b, !.transfer = "none"] \in SmtpRecord
      BY <2>3, ZenonT(60) DEF SmtpRecord
    <3> QED BY <3>1, <1>f
  <2>5. e = [u EXCEPT !.owed = o]
    BY <1>1, <2>2 DEF SmtpRecord
  <2> QED BY <2>4, <2>5, ZenonT(60) DEF SmtpRecord
<1>4. /\ e.state = s.state /\ e.server = s.server /\ e.request = s.request /\ e.transfer = "none"
      /\ e.proxy = proxy /\ e.flag = flag /\ e.withheld = s.withheld
  BY <1>1, <1>2 DEF SmtpRecord
<1>5. SmtpCalm(e)
  BY <1>3, <1>4 DEF SmtpCalm, NotAhead, proxy, flag
<1>6. SmtpPhase(e)
  BY <1>4, <1>f DEF SmtpPhase
<1> QED BY <1>5, <1>6 DEF SmtpGood, e

(* A session that ends keeps what the invariant says of it. *)
LEMMA EndedGood ==
    ASSUME NEW s, SmtpCalm(s)
    PROVE  SmtpGood([s EXCEPT !.proxy = "ended"])
<1> DEFINE e == [s EXCEPT !.proxy = "ended"]
<1>1. s \in SmtpRecord
  BY DEF SmtpCalm
<1>2. /\ e \in SmtpRecord /\ e.proxy = "ended" /\ e.state = s.state /\ e.server = s.server /\ e.request = s.request
      /\ e.flag = s.flag /\ e.withheld = s.withheld
  BY <1>1, ZenonT(60) DEF SmtpRecord
<1> HIDE DEF e
<1>3. SmtpGood(e)
  BY <1>2 DEF SmtpCalm, SmtpGood, SmtpPhase, NotAhead
<1> QED BY <1>3 DEF e

(* So does one that quits. *)
LEMMA QuitsGood == ASSUME NEW s \in SmtpRecord, s.flag => s.server # "auth" PROVE SmtpGood(Quits(s))
<1> DEFINE q == Quits(s)
<1>1. q \in SmtpRecord /\ q.proxy = "ended" /\ q.state = "QUIT" /\ q.flag = s.flag /\ q.server = s.server
  BY ZenonT(60) DEF SmtpRecord, Quits
<1> HIDE DEF q
<1>2. SmtpGood(q)
  BY <1>1 DEF SmtpCalm, SmtpGood, SmtpPhase, NotAhead
<1> QED BY <1>2 DEF q

(* An aborted session, likewise. *)
LEMMA AbortExitGood == ASSUME NEW s, SmtpCalm(s) PROVE SmtpGood(AbortExit(s))
<1>1. SmtpGood(ErrorExit(s)) /\ ErrorExit(s).proxy # "TRANSFER"
  BY ErrorExitGood DEF ErrorExit, Answered, SmtpCalm, SmtpRecord
<1> QED BY <1>1, GoodIsCalm, EndedGood DEF AbortExit

(* The proxy has dealt with an answer and reads the next request. *)
LEMMA AnsweredGood ==
    ASSUME NEW s, SmtpCalm(s)
    PROVE  SmtpCalm(Answered(s)) /\ (SmtpPhase(s) => SmtpGood(Answered(s)))
<1> DEFINE e == Answered(s)
<1>1. s \in SmtpRecord
  BY DEF SmtpCalm
<1>2. /\ e \in SmtpRecord /\ e.proxy = s.proxy /\ e.state = s.state /\ e.server = s.server /\ e.request = s.request
      /\ e.flag = s.flag /\ e.transfer = s.transfer /\ e.withheld = s.withheld
  BY <1>1 DEF SmtpRecord, Answered
<1> HIDE DEF e
<1>3. SmtpCalm(e)
  BY <1>2 DEF SmtpCalm, NotAhead
<1>4. SmtpPhase(s) => SmtpPhase(e)
  BY <1>2 DEF SmtpPhase, Permitted
<1> QED BY <1>3, <1>4 DEF e, SmtpGood

(* smtp_request_* and the policy's verdict: whatever is not rejected is a   *)
(* command that may come in this state, and only data_transfer is touched.  *)
LEMMA ProcessedCalm ==
    ASSUME SmtpCalm(smtp), smtp.state # "AUTH", NEW c \in MailCommands, NEW argument,
           NEW p \in Processed(Fetched(smtp, c), c, argument)
    PROVE  /\ SmtpCalm(p[2]) /\ p[2].request = c /\ p[2].proxy = smtp.proxy /\ p[2].transfer = smtp.transfer
           /\ p[2].state = smtp.state
           /\ p[1] # "REJECT" => Permitted(p[2], c) /\ (c = "DATA" => p[2].flag)
<1> DEFINE f == Fetched(smtp, c)
           allowed == c = "NOOP" \/ f.state \in CommandStates[c]
           flag == f.flag \/ (allowed /\ c = "DATA")
           q == [f EXCEPT !.flag = flag]
<1>1. smtp \in SmtpRecord
  BY DEF SmtpCalm
<1>2. f \in SmtpRecord /\ f.request = c /\ f.proxy = smtp.proxy /\ f.transfer = smtp.transfer /\ f.state = smtp.state
      /\ f.server = smtp.server /\ f.flag = smtp.flag /\ f.withheld = smtp.withheld
  <2>1. smtp.owed + 1 \in Int /\ smtp.lines + 1 \in Nat
    BY <1>1 DEF SmtpRecord
  <2>2. PICK o \in Int, l \in Nat : f = [smtp EXCEPT !.request = c, !.lines = l, !.owed = o]
    BY <1>1, <2>1 DEF Fetched
  <2>3. f \in SmtpRecord
    BY <1>1, <2>2 DEF SmtpRecord
  <2>4. f.request = c /\ f.proxy = smtp.proxy /\ f.transfer = smtp.transfer /\ f.state = smtp.state
      /\ f.server = smtp.server /\ f.flag = smtp.flag /\ f.withheld = smtp.withheld
    BY <1>1, <2>2 DEF SmtpRecord
  <2> QED BY <2>3, <2>4
<1>3. p[2] = q /\ (p[1] # "REJECT" => allowed)
  BY DEF Processed
<1>4. flag \in BOOLEAN
  BY <1>2 DEF SmtpRecord
<1>5. allowed => Permitted(f, c)
  BY DEF Permitted, MailCommands
<1> HIDE DEF f, allowed, flag
<1>6. q \in SmtpRecord /\ q.request = c /\ q.proxy = smtp.proxy /\ q.transfer = smtp.transfer /\ q.state = smtp.state
      /\ q.server = smtp.server /\ q.flag = flag /\ q.withheld = smtp.withheld
  BY <1>2, <1>4 DEF SmtpRecord
<1> HIDE DEF q
<1>f. flag => smtp.state \in {"RCPT_TO", "QUIT"} /\ smtp.server # "auth"
  BY <1>2 DEF SmtpCalm, flag, allowed, CommandStates
<1>7. SmtpCalm(q)
  BY <1>6, <1>f DEF SmtpCalm, NotAhead
<1>8. allowed => Permitted(q, c)
  BY <1>2, <1>5, <1>6 DEF Permitted
<1>9. allowed /\ c = "DATA" => q.flag
  BY <1>6 DEF flag
<1> QED BY <1>3, <1>6, <1>7, <1>8, <1>9

(* smtp_action_STARTTLS *)
LEMMA ActionStartTlsGood ==
    ASSUME NEW s, SmtpCalm(s), s.proxy \in {"REQUEST", "UNCONNECTED_REJECT_ALL"}, s.transfer = "none",
           NEW t \in ActionStartTls(s)
    PROVE  SmtpGood(t)
<1> DEFINE a == Answered(s)
<1>1. SmtpCalm(a) /\ a.proxy = s.proxy /\ a.transfer = "none"
  BY AnsweredGood DEF Answered, SmtpCalm, SmtpRecord
<1>2. t = [a EXCEPT !.tls.client = TRUE] \/ t = Quits(a)
  BY DEF ActionStartTls
<1> HIDE DEF a
<1>3. CASE t = [a EXCEPT !.tls.client = TRUE]
  <2>1. a \in SmtpRecord
    BY <1>1 DEF SmtpCalm
  <2>2. /\ t \in SmtpRecord /\ t.proxy = a.proxy /\ t.state = a.state /\ t.server = a.server /\ t.request = a.request
        /\ t.transfer = a.transfer /\ t.flag = a.flag /\ t.withheld = a.withheld
    BY <1>3, <2>1 DEF SmtpRecord
  <2> QED BY <1>1, <2>2 DEF SmtpCalm, SmtpGood, SmtpPhase, NotAhead
<1> QED BY <1>1, <1>2, <1>3, QuitsGood DEF SmtpCalm

(* An accepted command and the transfer object of a mail. *)
LEMMA ForwardedGood ==
    ASSUME NEW s, SmtpCalm(s), s.proxy = "REQUEST", s.transfer = "none", s.state # "AUTH", Permitted(s, s.request),
           s.request = "DATA" => s.flag,
           NEW t \in Forwarded(s)
    PROVE  SmtpGood(t)
<1>1. s \in SmtpRecord
  BY DEF SmtpCalm
<1>2. CASE ~s.flag /\ t = [s EXCEPT !.proxy = "RESPONSE"]
  <2>1. /\ t \in SmtpRecord /\ t.proxy = "RESPONSE" /\ t.state = s.state /\ t.server = s.server /\ t.request = s.request
        /\ t.transfer = "none" /\ t.flag = s.flag /\ t.withheld = s.withheld
    BY <1>1, <1>2 DEF SmtpRecord
  <2> QED BY <1>2, <2>1 DEF SmtpCalm, SmtpGood, SmtpPhase, NotAhead, Permitted
<1>3. CASE s.flag /\ t = [s EXCEPT !.transfer = "plain", !.proxy = "RESPONSE"]
  <2>1. /\ t \in SmtpRecord /\ t.proxy = "RESPONSE" /\ t.state = s.state /\ t.server = s.server /\ t.request = s.request
        /\ t.transfer = "plain" /\ t.flag = s.flag /\ t.withheld = s.withheld
    BY <1>1, <1>3 DEF SmtpRecord
  <2> QED BY <1>3, <2>1 DEF SmtpCalm, SmtpGood, SmtpPhase, NotAhead, Permitted
<1>4. CASE s.flag /\ t = [s EXCEPT !.transfer = "stacked", !.proxy = "TRANSFER"]
  <2>1. /\ t \in SmtpRecord /\ t.proxy = "TRANSFER" /\ t.state = s.state /\ t.server = s.server /\ t.request = s.request
        /\ t.transfer = "stacked" /\ t.flag = s.flag /\ t.withheld = s.withheld
    BY <1>1, <1>4 DEF SmtpRecord
  <2>2. s.server # "auth"
    BY <1>4 DEF SmtpCalm
  <2>3. SmtpCalm(t)
    BY <1>4, <2>1 DEF SmtpCalm, NotAhead
  <2> QED BY <2>1, <2>2, <2>3 DEF SmtpGood, SmtpPhase
<1>5. CASE t = AbortExit(s)
  BY <1>5, AbortExitGood
<1>6. CASE t = ErrorExit([s EXCEPT !.flag = FALSE, !.proxy = "UNCONNECTED_REJECT_ALL"])
  <2> DEFINE u == [s EXCEPT !.flag = FALSE, !.proxy = "UNCONNECTED_REJECT_ALL"]
  <2>1. /\ u \in SmtpRecord /\ u.state = s.state /\ u.server = s.server /\ u.request = s.request
        /\ u.withheld = s.withheld /\ ~u.flag
    BY <1>1 DEF SmtpRecord
  <2> HIDE DEF u
  <2>2. SmtpCalm(u)
    BY <2>1 DEF SmtpCalm, NotAhead
  <2> QED BY <1>6, <2>2, ErrorExitGood DEF u
<1> QED BY <1>2, <1>3, <1>4, <1>5, <1>6 DEF Forwarded

(* case SMTP_PROXY_REQUEST and SMTP_PROXY_UNCONNECTED_REJECT_ALL *)
LEMMA RequestStep == ASSUME SmtpGood(smtp), Request \/ UnconnectedReject PROVE SmtpGood(smtp')
<1>a. SmtpCalm(smtp)
  BY GoodIsCalm DEF Request, UnconnectedReject
<1>1. smtp.state # "AUTH" /\ smtp.transfer = "none" /\ smtp.proxy \in {"REQUEST", "UNCONNECTED_REJECT_ALL"}
  BY <1>a DEF Request, UnconnectedReject, SmtpGood, SmtpCalm, SmtpPhase
<1>2. PICK c \in MailCommands, argument \in MailArguments : \E p \in Processed(Fetched(smtp, c), c, argument) :
         \/ smtp' \in {ErrorExit(p[2]), AbortExit(p[2]), Quits(ErrorExit(p[2]))}
         \/ smtp' \in ActionStartTls(p[2])
         \/ smtp.proxy = "REQUEST" /\ p[1] # "REJECT" /\ smtp' \in Forwarded(p[2])
  BY DEF Request, UnconnectedReject
<1>3. PICK p \in Processed(Fetched(smtp, c), c, argument) :
         \/ smtp' \in {ErrorExit(p[2]), AbortExit(p[2]), Quits(ErrorExit(p[2]))}
         \/ smtp' \in ActionStartTls(p[2])
         \/ smtp.proxy = "REQUEST" /\ p[1] # "REJECT" /\ smtp' \in Forwarded(p[2])
  BY <1>2
<1>4. /\ SmtpCalm(p[2]) /\ p[2].request = c /\ p[2].proxy = smtp.proxy /\ p[2].transfer = smtp.transfer
      /\ p[2].state = smtp.state
      /\ p[1] # "REJECT" => Permitted(p[2], c) /\ (c = "DATA" => p[2].flag)
  BY <1>a, <1>1, ProcessedCalm
<1>5. CASE smtp' \in {ErrorExit(p[2]), AbortExit(p[2]), Quits(ErrorExit(p[2]))}
  BY <1>4, <1>5, ErrorExitGood, AbortExitGood, QuitsGood, GoodIsCalm
<1>6. CASE smtp' \in ActionStartTls(p[2])
  BY <1>1, <1>4, <1>6, ActionStartTlsGood
<1>7. CASE smtp.proxy = "REQUEST" /\ p[1] # "REJECT" /\ smtp' \in Forwarded(p[2])
  BY <1>1, <1>4, <1>7, ForwardedGood
<1> QED BY <1>3, <1>5, <1>6, <1>7

(* A line of an authentication. *)
LEMMA AuthRequestStep == ASSUME SmtpGood(smtp), AuthRequest PROVE SmtpGood(smtp')
<1> DEFINE s == [smtp EXCEPT !.lines = @ + 1, !.owed = @ + 1]
           r == [s EXCEPT !.proxy = "RESPONSE"]
<1>1. /\ smtp \in SmtpRecord /\ smtp.state = "AUTH" /\ smtp.request = "AUTH" /\ smtp.proxy = "REQUEST"
      /\ smtp.transfer = "none" /\ ~smtp.flag
  BY GoodIsCalm DEF SmtpCalm, SmtpPhase, AuthRequest
<1>2. s \in SmtpRecord
  <2>1. smtp.owed + 1 \in Int /\ smtp.lines + 1 \in Nat
    BY <1>1 DEF SmtpRecord
  <2>2. PICK o \in Int, l \in Nat : s = [smtp EXCEPT !.lines = l, !.owed = o]
    BY <1>1, <2>1
  <2> QED BY <1>1, <2>2 DEF SmtpRecord
<1>3. s.state = "AUTH" /\ s.request = "AUTH" /\ s.proxy = "REQUEST" /\ s.transfer = "none" /\ s.flag = smtp.flag
  BY <1>1 DEF SmtpRecord
<1>4. smtp' \in {r, ErrorExit(s), AbortExit(s)}
  BY DEF AuthRequest
<1> HIDE DEF s
<1>f. ~s.flag
  BY <1>1, <1>3
<1>5. SmtpCalm(s)
  BY <1>2, <1>3, <1>f DEF SmtpCalm, NotAhead
<1>6. r \in SmtpRecord /\ r.state = "AUTH" /\ r.request = "AUTH" /\ r.proxy = "RESPONSE" /\ r.transfer = "none" /\ ~r.flag
  BY <1>2, <1>3, <1>f DEF SmtpRecord
<1> HIDE DEF r
<1>7. SmtpGood(r)
  BY <1>6 DEF SmtpGood, SmtpCalm, NotAhead, SmtpPhase
<1> QED BY <1>4, <1>5, <1>7, ErrorExitGood, AbortExitGood

(* The server's answer to a command that was let through, and what it makes *)
(* of the server's own state.                                               *)
LEMMA AnswerKeepsStep ==
    ASSUME NEW at \in Places, NEW c \in MailCommands, NEW a \in ServerAnswers(at, c)
    PROVE  /\ a[1] \in Codes /\ a[2] \in Places /\ at \notin {"data", "tls"}
           /\ a[2] = "auth" => a[1] = "334" /\ (at = "auth" \/ c = "AUTH")
           /\ at # "auth" =>
                 /\ c \in {"NOOP", "QUIT"} => a[2] = at
                 /\ c = "DATA" => a = <<"354", "data">> \/ a[2] = at
                 /\ c = "RSET" => a[1] = "2xx"
                 /\ c = "MAIL" /\ Positive(a[1]) => a[2] = "mail"
                 /\ c = "RCPT" => a[2] \in {at, "rcpt"} /\ (Positive(a[1]) => a[2] = "rcpt")
<1> DEFINE after == CASE c \in {"HELO", "EHLO"} -> "ehlo"
                   [] c = "RSET" -> IF at = "init" THEN at ELSE "ehlo"
                   [] c = "MAIL" -> "mail"
                   [] c = "RCPT" -> "rcpt"
                   [] c = "DATA" -> "data"
                   [] c = "AUTH" -> "auth"
                   [] c = "STARTTLS" -> "tls"
                   [] OTHER -> at
           code == CASE c = "DATA" -> "354" [] c = "STARTTLS" -> "220" [] c = "AUTH" -> "334" [] OTHER -> "2xx"
<1>1. /\ at \notin {"data", "tls"}
      /\ \/ at = "auth" /\ a \in {<<"334", "auth">>, <<"235", "ehlo">>, <<"5xx", "ehlo">>}
         \/ at # "auth" /\ (a = <<code, after>> \/ (c # "RSET" /\ a = <<"5xx", at>>))
  BY DEF ServerAnswers
<1>2. /\ after \in Places
      /\ after = "auth" => at = "auth" \/ c = "AUTH"
      /\ c \in {"NOOP", "QUIT"} => after = at
      /\ c = "DATA" => after = "data"
      /\ c = "MAIL" => after = "mail"
      /\ c = "RCPT" => after = "rcpt"
  BY DEF Places
<1>3. code \in Codes /\ (c = "RSET" => code = "2xx") /\ (c = "DATA" => code = "354") /\ (c = "AUTH" => code = "334")
  BY DEF Codes
<1> HIDE DEF after, code
<1>4. CASE at # "auth" /\ a = <<code, after>>
  <2>1. a[1] = code /\ a[2] = after
    BY <1>4
  <2> QED BY <1>1, <1>2, <1>3, <1>4, <2>1
<1>5. CASE at # "auth" /\ c # "RSET" /\ a = <<"5xx", at>>
  <2>1. a[1] = "5xx" /\ a[2] = at
    BY <1>5
  <2> QED BY <1>1, <1>5, <2>1 DEF Positive, Codes
<1>6. CASE at = "auth" /\ a \in {<<"334", "auth">>, <<"235", "ehlo">>, <<"5xx", "ehlo">>}
  <2>1. /\ a[1] \in {"334", "235", "5xx"} /\ a[2] \in {"auth", "ehlo"}
        /\ a[2] = "auth" => a[1] = "334"
    BY <1>6
  <2> QED BY <1>1, <1>6, <2>1 DEF Codes, Places
<1> QED BY <1>1, <1>4, <1>5, <1>6

(* The state the loop is in with an answer, before the answer is looked at. *)
Resumed(s) == [s EXCEPT !.proxy = IF s.flag THEN "TRANSFER" ELSE "REQUEST", !.flag = FALSE]

(* After a response: on to the transfer it let begin, or to the next request. *)
LEMMA ResumedGood ==
    ASSUME NEW s, SmtpGood(s), s.proxy = "RESPONSE"
    PROVE  /\ SmtpGood(Resumed(s)) /\ Resumed(s).proxy \in {"TRANSFER", "REQUEST"} /\ ~Resumed(s).flag
           /\ SmtpCalm(Resumed(s))
           /\ Resumed(s).state = s.state /\ Resumed(s).server = s.server /\ Resumed(s).request = s.request
           /\ Resumed(s).withheld = s.withheld /\ (Resumed(s).proxy = "TRANSFER" <=> s.flag)
<1> DEFINE e == Resumed(s)
           proxy == IF s.flag THEN "TRANSFER" ELSE "REQUEST"
<1>1. s \in SmtpRecord /\ SmtpCalm(s) /\ SmtpPhase(s)
  BY GoodIsCalm
<1>2. proxy \in {"TRANSFER", "REQUEST"} /\ e = [s EXCEPT !.proxy = proxy, !.flag = FALSE]
  BY DEF Resumed
<1>3. (proxy = "TRANSFER" <=> s.transfer # "none") /\ (proxy = "TRANSFER" <=> s.flag)
  BY <1>1 DEF SmtpPhase
<1>a. proxy = "TRANSFER" => s.server # "auth"
  BY <1>1, <1>3 DEF SmtpCalm
<1> HIDE DEF e, proxy
<1>4. e \in SmtpRecord
  <2>1. [s EXCEPT !.proxy = proxy] \in SmtpRecord
    BY <1>1, <1>2 DEF SmtpRecord
  <2>2. e = [[s EXCEPT !.proxy = proxy] EXCEPT !.flag = FALSE]
    BY <1>1, <1>2 DEF SmtpRecord
  <2> QED BY <2>1, <2>2 DEF SmtpRecord
<1>5. /\ e.proxy = proxy /\ e.state = s.state /\ e.server = s.server /\ e.request = s.request /\ e.transfer = s.transfer
      /\ e.withheld = s.withheld
  BY <1>1, <1>2 DEF SmtpRecord
<1>6. ~e.flag
  BY <1>1, <1>2 DEF SmtpRecord
<1>7. SmtpCalm(e)
  BY <1>1, <1>2, <1>4, <1>5, <1>6 DEF SmtpCalm, NotAhead
<1>8. SmtpPhase(e)
  BY <1>2, <1>3, <1>a, <1>5 DEF SmtpPhase
<1> QED BY <1>2, <1>3, <1>5, <1>6, <1>7, <1>8 DEF SmtpGood, e

(* The loop goes on with no answer pending; smtp_state is still to be set.  *)
Settled(s) == s \in SmtpRecord /\ s.proxy \in {"TRANSFER", "REQUEST"} /\ ~s.flag /\ SmtpPhase(s)

(* A new smtp_state that the server has reached and that the command allows.*)
Reached(s, state) ==
    /\ state \in {"INITIAL", "EHLO", "MAIL_FROM", "RCPT_TO", "AUTH", "QUIT"}
    /\ \/ s.withheld
       \/ /\ state = "MAIL_FROM" => s.server \in {"mail", "rcpt"}
          /\ state = "RCPT_TO" => s.server = "rcpt"
          /\ s.server = "auth" => state \in {"AUTH", "QUIT"}
    /\ s.server = "auth" => state \in {"EHLO", "AUTH", "QUIT"}
    /\ state = "AUTH" => s.request = "AUTH"

(* A response moves the transaction to a state its request allows. *)
LEMMA StateGood ==
    ASSUME NEW s, Settled(s), NEW state, Reached(s, state)
    PROVE  SmtpGood(Answered([s EXCEPT !.state = state]))
<1> DEFINE e == [s EXCEPT !.state = state]
<1>1. /\ e \in SmtpRecord /\ e.proxy = s.proxy /\ e.state = state /\ e.server = s.server /\ e.request = s.request
      /\ e.flag = s.flag /\ e.transfer = s.transfer /\ e.withheld = s.withheld
  BY DEF Settled, Reached, SmtpRecord
<1> HIDE DEF e
<1>2. SmtpCalm(e)
  BY <1>1 DEF Settled, Reached, SmtpCalm, NotAhead
<1>3. SmtpPhase(e)
  BY <1>1 DEF Settled, SmtpPhase
<1> QED BY <1>2, <1>3, AnsweredGood DEF e

(* smtp_reset_state after an answer *)
LEMMA ResetGood ==
    ASSUME NEW s, Settled(s), s.server # "auth"
    PROVE  SmtpGood(Answered(ResetState(s)))
<1> DEFINE e == ResetState(s)
<1>1. /\ e \in SmtpRecord /\ e.proxy = s.proxy /\ e.state = "EHLO" /\ e.server = s.server /\ e.transfer = s.transfer
      /\ e.flag = s.flag
  BY DEF Settled, ResetState, SmtpRecord
<1> HIDE DEF e
<1>2. SmtpCalm(e)
  BY <1>1 DEF Settled, SmtpCalm, NotAhead
<1>3. SmtpPhase(e)
  BY <1>1 DEF Settled, SmtpPhase
<1> QED BY <1>2, <1>3, AnsweredGood DEF e

(* What the handlers of an answer start from. *)
LEMMA SettledIsCalm ==
    ASSUME NEW s, Settled(s), Reached(s, s.state)
    PROVE  SmtpCalm(s)
  BY DEF Settled, Reached, SmtpCalm, NotAhead

(* smtp_response_EHLO when it takes the answer *)
LEMMA EhloGood ==
    ASSUME NEW s, Settled(s), Reached(s, s.state), NEW code, Positive(code) => Reached(s, "EHLO"),
           NEW listed \in ListedExtensions, NEW r,
           r = [s EXCEPT !.extensions = IF s.request = "HELO" THEN {}
                            ELSE listed \ (IF ClientSecurity(s) # "ACCEPT_STARTTLS" \/ s.tls.client
                                           THEN {"STARTTLS"} ELSE {}),
                         !.state = IF Positive(code) THEN "EHLO" ELSE @]
    PROVE  SmtpGood(Answered(r))
<1> DEFINE state == IF Positive(code) THEN "EHLO" ELSE s.state
<1>1. PICK x \in SUBSET UNION ListedExtensions : r = [s EXCEPT !.extensions = x, !.state = state]
  <2>1. r = [s EXCEPT !.extensions = IF s.request = "HELO" THEN {}
                            ELSE listed \ (IF ClientSecurity(s) # "ACCEPT_STARTTLS" \/ s.tls.client
                                           THEN {"STARTTLS"} ELSE {}),
                         !.state = state]
    BY DEF Settled, SmtpRecord
  <2> DEFINE x == IF s.request = "HELO" THEN {}
                  ELSE listed \ (IF ClientSecurity(s) # "ACCEPT_STARTTLS" \/ s.tls.client
                                           THEN {"STARTTLS"} ELSE {})
  <2>2. x \in SUBSET UNION ListedExtensions
    OBVIOUS
  <2> HIDE DEF state
  <2> QED BY <2>1, <2>2
<1>2. Reached(s, state)
  OBVIOUS
<1> DEFINE e == [s EXCEPT !.extensions = x]
<1> HIDE DEF state
<1>3. r = [e EXCEPT !.state = state]
  BY <1>1 DEF Settled, SmtpRecord
<1>4. /\ e \in SmtpRecord /\ e.proxy = s.proxy /\ e.server = s.server /\ e.request = s.request
      /\ e.flag = s.flag /\ e.transfer = s.transfer /\ e.withheld = s.withheld
  BY <1>1 DEF Settled, SmtpRecord
<1> HIDE DEF e
<1>5. Settled(e)
  BY <1>4 DEF Settled, SmtpPhase
<1>6. Reached(e, state)
  BY <1>2, <1>4 DEF Reached
<1> QED BY <1>3, <1>5, <1>6, StateGood

(* smtp_response_EHLO *)
LEMMA ResponseEhloGood ==
    ASSUME NEW s, Settled(s), Reached(s, s.state), NEW code, Positive(code) => Reached(s, "EHLO"),
           NEW r \in ResponseEhlo(s, code)
    PROVE  SmtpGood(r)
<1> DEFINE n == [s EXCEPT !.extensions = {}]
<1>1. CASE r = ErrorExit(n)
  <2>1. s \in SmtpRecord /\ SmtpCalm(s)
    BY SettledIsCalm DEF Settled
  <2>2. /\ n \in SmtpRecord /\ n.proxy = s.proxy /\ n.state = s.state /\ n.server = s.server /\ n.request = s.request
        /\ n.flag = s.flag /\ n.withheld = s.withheld
    BY <2>1 DEF SmtpRecord
  <2> HIDE DEF n
  <2>3. SmtpCalm(n)
    BY <2>1, <2>2 DEF SmtpCalm, NotAhead
  <2> QED BY <1>1, <2>3, ErrorExitGood
<1>2. CASE r # ErrorExit(n)
  <2> DEFINE u(listed) ==
                 [s EXCEPT !.extensions = IF s.request = "HELO" THEN {}
                                          ELSE listed \ (IF ClientSecurity(s) # "ACCEPT_STARTTLS" \/ s.tls.client
                                                         THEN {"STARTTLS"} ELSE {}),
                           !.state = IF Positive(code) THEN "EHLO" ELSE @]
  <2>1. r \in {Answered(u(listed)) : listed \in ListedExtensions}
               \union (IF s.request = "HELO" THEN {ErrorExit(n)} ELSE {})
    BY Zenon DEF ResponseEhlo
  <2> HIDE DEF n, u
  <2>2. PICK listed \in ListedExtensions : r = Answered(u(listed))
    BY <1>2, <2>1
  <2>3. u(listed) = [s EXCEPT !.extensions = IF s.request = "HELO" THEN {}
                                             ELSE listed \ (IF ClientSecurity(s) # "ACCEPT_STARTTLS" \/ s.tls.client
                                                            THEN {"STARTTLS"} ELSE {}),
                              !.state = IF Positive(code) THEN "EHLO" ELSE @]
    BY Zenon DEF u
  <2>4. SmtpGood(Answered(u(listed)))
    BY <2>3, EhloGood
  <2> QED BY <2>2, <2>4
<1> QED BY <1>1, <1>2

(* smtp_response_AUTH *)
LEMMA ResponseAuthGood ==
    ASSUME NEW s, Settled(s), s.request = "AUTH", NEW code, code # "334" => Reached(s, s.state),
           s.server = "auth" => code = "334", NEW r \in ResponseAuth(s, code)
    PROVE  SmtpGood(r)
<1>1. CASE code \notin {"334", "235", "5xx"}
  BY <1>1, SettledIsCalm, ErrorExitGood DEF ResponseAuth
<1>2. CASE code \in {"334", "235", "5xx"}
  <2> DEFINE state == IF code = "334" THEN "AUTH" ELSE "EHLO"
  <2>1. r = Answered([s EXCEPT !.state = state]) /\ Reached(s, state)
    BY <1>2 DEF ResponseAuth, Reached
  <2> QED BY <2>1, StateGood
<1> QED BY <1>1, <1>2

(* smtp_response_STARTTLS *)
LEMMA ResponseStartTlsGood ==
    ASSUME NEW s, Settled(s), Reached(s, s.state), NEW code, NEW r \in ResponseStartTls(s, code)
    PROVE  SmtpGood(r)
<1>1. SmtpCalm(s)
  BY SettledIsCalm
<1> DEFINE a == Answered(s)
<1>2. SmtpGood(a) /\ SmtpCalm(a) /\ a.state = s.state /\ a.proxy = s.proxy /\ a.transfer = s.transfer /\ a.flag = s.flag
  BY <1>1, AnsweredGood DEF Settled, Answered, SmtpRecord
<1>3. \/ r = a \/ r = Quits(a) \/ r = [a EXCEPT !.proxy = "PLUG"]
      \/ r = [a EXCEPT !.tls = [client |-> TRUE, server |-> TRUE], !.state = "INITIAL", !.server = "init"]
  BY DEF ResponseStartTls
<1> HIDE DEF a
<1>4. a \in SmtpRecord
  BY <1>2 DEF SmtpCalm
<1>5. CASE r = Quits(a)
  BY <1>2, <1>4, <1>5, QuitsGood DEF SmtpCalm
<1>6. CASE r = [a EXCEPT !.proxy = "PLUG"]
  <2>1. /\ r \in SmtpRecord /\ r.proxy = "PLUG" /\ r.state = a.state /\ r.server = a.server /\ r.request = a.request
        /\ r.flag = a.flag /\ r.withheld = a.withheld
    BY <1>4, <1>6 DEF SmtpRecord
  <2> QED BY <1>2, <2>1 DEF SmtpGood, SmtpCalm, SmtpPhase, NotAhead
<1>7. CASE r = [a EXCEPT !.tls = [client |-> TRUE, server |-> TRUE], !.state = "INITIAL", !.server = "init"]
  <2>1. [client |-> TRUE, server |-> TRUE] \in [client : BOOLEAN, server : BOOLEAN]
    OBVIOUS
  <2>2. PICK b \in [client : BOOLEAN, server : BOOLEAN] : r = [a EXCEPT !.tls = b, !.state = "INITIAL", !.server = "init"]
    BY <1>7, <2>1
  <2>3. /\ r \in SmtpRecord /\ r.proxy = a.proxy /\ r.state = "INITIAL" /\ r.request = a.request
        /\ r.flag = a.flag /\ r.transfer = a.transfer /\ r.server = "init"
    BY <1>4, <2>2 DEF SmtpRecord, Places
  <2> QED BY <1>2, <2>3 DEF SmtpGood, SmtpCalm, SmtpPhase, NotAhead, Settled
<1> QED BY <1>2, <1>3, <1>5, <1>6, <1>7

(* What is known of an answer when it is accepted: the server is where it   *)
(* says, and where the request leaves it.                                   *)
Told(s, code) ==
    /\ code \in Codes
    /\ s.server = "auth" => code = "334"
    /\ s.withheld \/
       /\ s.request \notin {"RSET", "AUTH"} => Reached(s, s.state) \/ (s.request = "DATA" /\ Sending(s))
       /\ s.request = "RSET" => Positive(code)
       /\ s.request = "MAIL" /\ Positive(code) => s.server = "mail"
       /\ s.request = "RCPT" /\ Positive(code) => s.server = "rcpt"
    /\ s.request = "AUTH" => s.state \in {"EHLO", "AUTH"}
    /\ s.request # "AUTH" => s.state # "AUTH"
    /\ s.server = "auth" => s.state \in {"EHLO", "AUTH", "QUIT"}

(* smtp_process_response for an accepted answer. *)
LEMMA AcceptedGood ==
    ASSUME NEW s, Settled(s), NEW code, Told(s, code), NEW r \in Accepted(s, code)
    PROVE  SmtpGood(r)
<1>1. s \in SmtpRecord
  BY DEF Settled
<1>2. s = [s EXCEPT !.state = s.state]
  BY <1>1 DEF SmtpRecord
<1>p. Positive(code) => Reached(s, "EHLO")
  BY DEF Reached, Told, Positive
<1>s. s.request \notin {"RSET", "AUTH", "DATA"} => Reached(s, s.state)
  BY <1>1 DEF Told, Reached, SmtpRecord
<1>3. CASE s.request = "AUTH"
  <2>1. code # "334" => Reached(s, s.state)
    BY <1>3 DEF Told, Reached
  <2>2. r \in ResponseAuth(s, code)
    BY <1>3 DEF Accepted
  <2> QED BY <1>3, <2>1, <2>2, ResponseAuthGood DEF Told
<1>4. CASE s.request \in {"HELO", "EHLO"}
  <2>1. r \in ResponseEhlo(s, code)
    BY <1>4 DEF Accepted
  <2> QED BY <1>p, <1>s, <1>4, <2>1, ResponseEhloGood
<1>6. CASE s.request = "STARTTLS"
  BY <1>s, <1>6, ResponseStartTlsGood DEF Accepted
<1>7. CASE s.request = "MAIL"
  <2> DEFINE state == IF Positive(code) THEN "MAIL_FROM" ELSE s.state
  <2>1. r = Answered([s EXCEPT !.state = state])
    BY <1>1, <1>7 DEF Accepted, SmtpRecord
  <2>2. Reached(s, state)
    BY <1>s, <1>7 DEF Reached, Told, Positive
  <2> QED BY <2>1, <2>2, StateGood
<1>8. CASE s.request = "RCPT"
  <2> DEFINE state == IF Positive(code) THEN "RCPT_TO" ELSE s.state
  <2>1. r = Answered([s EXCEPT !.state = state])
    BY <1>1, <1>8 DEF Accepted, SmtpRecord
  <2>2. Reached(s, state)
    BY <1>s, <1>8 DEF Reached, Told, Positive
  <2> QED BY <2>1, <2>2, StateGood
<1>9. CASE s.request = "RSET" /\ Positive(code)
  <2>1. r = Answered(ResetState(s)) /\ s.server # "auth"
    BY <1>9 DEF Accepted, Told, Positive
  <2> QED BY <2>1, ResetGood
<1>10. CASE s.request = "RSET" /\ ~Positive(code)
  <2>1. r = Answered(s)
    BY <1>10 DEF Accepted
  <2>2. Reached(s, s.state)
    BY <1>1, <1>10 DEF Told, Reached, SmtpRecord
  <2> QED BY <1>2, <2>1, <2>2, StateGood
<1>11. CASE s.request = "QUIT"
  <2>1. r = Quits(Answered(s)) /\ Answered(s) \in SmtpRecord /\ Answered(s).flag = s.flag
    BY <1>1, <1>11 DEF Accepted, Answered, SmtpRecord
  <2> QED BY <2>1, QuitsGood DEF Settled
<1>12. CASE s.request = "DATA"
  <2>1. r = Answered(s)
    BY <1>12 DEF Accepted
  <2>2. Reached(s, s.state) \/ Sending(s)
    BY <1>1, <1>12 DEF Told, Reached, SmtpRecord
  <2>3. CASE Sending(s)
    <3> DEFINE e == Answered(s)
    <3>1. e \in SmtpRecord /\ e.proxy = s.proxy /\ e.state = s.state /\ e.server = s.server /\ e.transfer = s.transfer
      BY <1>1 DEF Answered, SmtpRecord
    <3> HIDE DEF e
    <3>2. SmtpGood(e)
      BY <2>3, <3>1 DEF Sending, SmtpGood, Settled, SmtpPhase
    <3> QED BY <2>1, <3>2 DEF e
  <2> QED BY <1>2, <2>1, <2>2, <2>3, StateGood
<1>13. CASE s.request \notin {"HELO", "EHLO", "AUTH", "STARTTLS", "MAIL", "RCPT", "RSET", "QUIT", "DATA"}
  <2>1. r = Answered(s)
    BY <1>13 DEF Accepted
  <2> QED BY <1>2, <1>s, <1>13, <2>1, StateGood
<1> QED BY <1>3, <1>4, <1>6, <1>7, <1>8, <1>9, <1>10, <1>11, <1>12, <1>13

(* case SMTP_PROXY_RESPONSE *)
LEMMA ResponseStep == ASSUME SmtpGood(smtp), Response PROVE SmtpGood(smtp')
<1> DEFINE s == Resumed(smtp)
           sent == IF smtp.state = "AUTH" THEN MailCommands
                   ELSE {IF smtp.request = "Null" THEN "NOOP" ELSE smtp.request}
           with(a) == [s EXCEPT !.server = a[2], !.reply = a[1]]
           refused(a) == [with(a) EXCEPT !.withheld = @ \/ GoesOn(smtp.request, a[1])]
<1>1. smtp.proxy = "RESPONSE" /\ smtp \in SmtpRecord /\ SmtpCalm(smtp) /\ SmtpPhase(smtp)
  BY GoodIsCalm DEF Response
<1>2. /\ SmtpGood(s) /\ SmtpCalm(s) /\ s.proxy \in {"TRANSFER", "REQUEST"} /\ ~s.flag
      /\ s.state = smtp.state /\ s.server = smtp.server /\ s.request = smtp.request
      /\ s.withheld = smtp.withheld /\ (s.proxy = "TRANSFER" <=> smtp.flag)
  BY <1>1, ResumedGood
<1>3. \/ smtp' = AbortExit(s)
      \/ \E c \in sent : \E a \in ServerAnswers(smtp.server, c) :
            \/ smtp' \in Accepted(with(a), a[1])
            \/ smtp' \in {ErrorExit(refused(a)), AbortExit(refused(a))}
  BY DEF Response, Resumed
<1>4. /\ smtp.server \in Places /\ sent \subseteq MailCommands
      /\ smtp.state # "AUTH" /\ smtp.request # "Null" => sent = {smtp.request}
      /\ smtp.state # "AUTH" /\ smtp.request = "Null" => sent = {"NOOP"}
  BY <1>1 DEF SmtpRecord, MailCommands
<1>5. \/ smtp.request = "Null" /\ smtp.state = "INITIAL"
      \/ smtp.request = "AUTH" /\ smtp.state = "AUTH"
      \/ Permitted(smtp, smtp.request)
  BY <1>1 DEF SmtpPhase
<1>d. smtp.request = "DATA" => smtp.flag
  BY <1>1 DEF SmtpPhase
<1>n. NotAhead(smtp) /\ (smtp.state = "AUTH" => smtp.request = "AUTH") /\ (smtp.flag => smtp.state \in {"RCPT_TO", "QUIT"} /\ smtp.server # "auth")
      /\ (smtp.server = "auth" => smtp.state \in {"EHLO", "AUTH", "QUIT"})
  BY <1>1 DEF SmtpCalm
<1> HIDE DEF s, sent
<1>p. /\ smtp.request = "AUTH" => smtp.state \in {"EHLO", "AUTH"}
      /\ smtp.request \in {"MAIL", "HELO", "EHLO", "ETRN", "STARTTLS"} => smtp.state \notin {"MAIL_FROM", "RCPT_TO"}
      /\ smtp.request = "DATA" => smtp.state = "RCPT_TO"
      /\ smtp.request = "Null" => smtp.state \notin {"MAIL_FROM", "RCPT_TO"}
      /\ smtp.state # "QUIT" \/ smtp.request = "NOOP"
  BY <1>5 DEF Permitted, CommandStates
<1>6. ASSUME NEW c \in sent, NEW a \in ServerAnswers(smtp.server, c)
      PROVE  /\ a[1] \in Codes /\ a[2] \in Places
             /\ a[2] = "auth" => a[1] = "334" /\ smtp.state \in {"EHLO", "AUTH", "QUIT"}
             /\ a[2] = "auth" /\ ~smtp.withheld => smtp.request = "AUTH" \/ smtp.state = "QUIT"
             /\ smtp.flag => a[2] # "auth"
             /\ smtp.withheld \/
                /\ smtp.request = "RSET" => a[1] = "2xx"
                /\ smtp.request = "MAIL" /\ Positive(a[1]) => a[2] = "mail"
                /\ smtp.request = "RCPT" /\ Positive(a[1]) => a[2] = "rcpt"
                /\ smtp.request # "RSET" /\ smtp.state = "MAIL_FROM" => a[2] \in {"mail", "rcpt"}
                /\ smtp.request # "RSET" /\ smtp.state = "RCPT_TO" =>
                      a[2] = "rcpt" \/ (smtp.request = "DATA" /\ a = <<"354", "data">>)
  <2>1. c \in MailCommands
    BY <1>4, <1>6
  <2>2. /\ a[1] \in Codes /\ a[2] \in Places /\ smtp.server \notin {"data", "tls"}
        /\ a[2] = "auth" => a[1] = "334" /\ (smtp.server = "auth" \/ c = "AUTH")
        /\ smtp.server # "auth" =>
              /\ c \in {"NOOP", "QUIT"} => a[2] = smtp.server
              /\ c = "DATA" => a = <<"354", "data">> \/ a[2] = smtp.server
              /\ c = "RSET" => a[1] = "2xx"
              /\ c = "MAIL" /\ Positive(a[1]) => a[2] = "mail"
              /\ c = "RCPT" => a[2] \in {smtp.server, "rcpt"} /\ (Positive(a[1]) => a[2] = "rcpt")
    BY <1>4, <1>6, <2>1, AnswerKeepsStep
  <2>3. CASE smtp.state = "AUTH"
    BY <1>n, <2>2, <2>3
  <2>4. CASE smtp.state # "AUTH"
    <3>1. c = IF smtp.request = "Null" THEN "NOOP" ELSE smtp.request
      BY <1>4, <1>6, <2>4
    <3>2. c = "AUTH" => smtp.request = "AUTH" /\ smtp.state = "EHLO"
      BY <1>p, <2>4, <3>1
    <3>3. a[2] = "auth" => a[1] = "334" /\ smtp.state \in {"EHLO", "AUTH", "QUIT"}
      BY <1>n, <2>2, <3>2
    <3>4. a[2] = "auth" /\ ~smtp.withheld => smtp.request = "AUTH" \/ smtp.state = "QUIT"
      <4>1. ~smtp.withheld /\ smtp.server = "auth" => smtp.state = "QUIT"
        BY <1>n, <2>4 DEF NotAhead
      <4> QED BY <1>p, <2>2, <3>2, <4>1
    <3>5. smtp.flag => a[2] # "auth"
      BY <1>n, <1>p, <2>2, <3>2
    <3>6. ASSUME ~smtp.withheld
          PROVE  /\ smtp.request = "RSET" => a[1] = "2xx"
                 /\ smtp.request = "MAIL" /\ Positive(a[1]) => a[2] = "mail"
                 /\ smtp.request = "RCPT" /\ Positive(a[1]) => a[2] = "rcpt"
                 /\ smtp.request # "RSET" /\ smtp.state = "MAIL_FROM" => a[2] \in {"mail", "rcpt"}
                 /\ smtp.request # "RSET" /\ smtp.state = "RCPT_TO" =>
                      a[2] = "rcpt" \/ (smtp.request = "DATA" /\ a = <<"354", "data">>)
      <4>1. smtp.server # "auth" \/ smtp.request = "NOOP"
        BY <1>n, <1>p, <2>4, <3>6 DEF NotAhead
      <4>2. smtp.state \in {"MAIL_FROM", "RCPT_TO"} => smtp.server # "auth"
        BY <1>n
      <4>3. smtp.state \in {"MAIL_FROM", "RCPT_TO"} /\ smtp.request # "RSET" => c \in {"NOOP", "QUIT", "DATA", "RCPT"}
        BY <1>5, <3>1 DEF Permitted, CommandStates
      <4>4. smtp.state = "MAIL_FROM" => smtp.request # "DATA"
        BY <1>p
      <4> QED BY <1>n, <2>2, <3>1, <3>6, <4>1, <4>2, <4>3, <4>4 DEF NotAhead
    <3> QED BY <2>2, <3>3, <3>4, <3>5, <3>6
  <2> QED BY <2>3, <2>4
<1>7. ASSUME NEW c \in sent, NEW a \in ServerAnswers(smtp.server, c)
      PROVE  /\ Settled(with(a)) /\ Told(with(a), a[1])
             /\ SmtpCalm(refused(a))
  <2> DEFINE w == with(a)
             f == refused(a)
             held == w.withheld \/ GoesOn(smtp.request, a[1])
  <2>1. s \in SmtpRecord
    BY <1>2 DEF SmtpCalm
  <2>2. PICK k \in Codes, at \in Places : a[1] = k /\ a[2] = at
    BY <1>6, <1>7
  <2>3. /\ w \in SmtpRecord /\ w.proxy = s.proxy /\ w.state = s.state /\ w.request = s.request /\ w.flag = s.flag
        /\ w.transfer = s.transfer /\ w.server = a[2] /\ w.withheld = s.withheld
    <3>1. w = [s EXCEPT !.server = at, !.reply = k]
      BY <2>2
    <3> HIDE DEF w
    <3>2. w \in SmtpRecord
      BY <2>1, <3>1, ZenonT(60) DEF SmtpRecord
    <3>3. /\ w.proxy = s.proxy /\ w.state = s.state /\ w.request = s.request /\ w.flag = s.flag
          /\ w.transfer = s.transfer /\ w.server = at /\ w.withheld = s.withheld
      BY <2>1, <3>1 DEF SmtpRecord
    <3> QED BY <2>2, <3>2, <3>3
  <2>4. f = [w EXCEPT !.withheld = held]
    BY <2>3 DEF SmtpRecord
  <2>5. held \in BOOLEAN
    BY <2>3, Zenon DEF SmtpRecord, GoesOn
  <2> HIDE DEF w, f
  <2>6. /\ f \in SmtpRecord /\ f.proxy = w.proxy /\ f.state = w.state /\ f.request = w.request /\ f.flag = w.flag
        /\ f.server = w.server /\ f.withheld = held
    <3> HIDE DEF held
    <3> QED BY <2>3, <2>4, <2>5 DEF SmtpRecord
  <2>7. Settled(w)
    <3>1. w.proxy = "TRANSFER" => a[2] # "auth"
      BY <1>2, <1>6, <1>7, <2>3
    <3> QED BY <1>2, <2>3, <3>1 DEF Settled, SmtpGood, SmtpPhase
  <2>8. Told(w, a[1])
    <3>1. /\ a[1] \in Codes /\ (w.server = "auth" => a[1] = "334")
          /\ w.request = "AUTH" => w.state \in {"EHLO", "AUTH"}
          /\ w.request # "AUTH" => w.state # "AUTH"
      BY <1>2, <1>6, <1>7, <1>n, <1>p, <2>3
    <3>2. w.server = "auth" => w.state \in {"EHLO", "AUTH", "QUIT"}
      BY <1>2, <1>6, <1>7, <2>3
    <3>3. ASSUME ~w.withheld
          PROVE  /\ w.request \notin {"RSET", "AUTH"} => Reached(w, w.state) \/ (w.request = "DATA" /\ Sending(w))
                 /\ w.request = "RSET" => Positive(a[1])
                 /\ w.request = "MAIL" /\ Positive(a[1]) => w.server = "mail"
                 /\ w.request = "RCPT" /\ Positive(a[1]) => w.server = "rcpt"
      <4>1. ~smtp.withheld
        BY <1>2, <2>3, <3>3
      <4>2. /\ w.request = "RSET" => a[1] = "2xx"
            /\ w.request = "MAIL" /\ Positive(a[1]) => w.server = "mail"
            /\ w.request = "RCPT" /\ Positive(a[1]) => w.server = "rcpt"
            /\ w.request # "RSET" /\ w.state = "MAIL_FROM" => w.server \in {"mail", "rcpt"}
            /\ w.request # "RSET" /\ w.state = "RCPT_TO" =>
                  w.server = "rcpt" \/ (w.request = "DATA" /\ a = <<"354", "data">>)
            /\ w.server = "auth" => w.request = "AUTH" \/ w.state = "QUIT"
        BY <1>2, <1>6, <1>7, <2>3, <4>1
      <4>3. w.request = "DATA" => w.proxy = "TRANSFER" /\ w.state = "RCPT_TO"
        BY <1>2, <1>d, <1>p, <2>3
      <4>4. w.request = "DATA" /\ a = <<"354", "data">> => Sending(w)
        BY <2>3, <4>3 DEF Sending
      <4>5. w.request \notin {"RSET", "AUTH"} => Reached(w, w.state) \/ (w.request = "DATA" /\ a = <<"354", "data">>)
        BY <2>3, <3>1, <4>2 DEF Reached, SmtpRecord
      <4> QED BY <4>2, <4>4, <4>5 DEF Positive
    <3> QED BY <3>1, <3>2, <3>3 DEF Told
  <2>9. SmtpCalm(f)
    <3>1. ~f.withheld => ~smtp.withheld /\ ~GoesOn(smtp.request, a[1])
      BY <1>2, <2>3, <2>6
    <3>2. NotAhead(f)
      <4>2. ~f.withheld => smtp.request # "RSET" /\ (smtp.request = "DATA" => a # <<"354", "data">>)
        BY <1>6, <1>7, <3>1 DEF GoesOn
      <4>3. ~f.withheld /\ a[2] = "auth" => smtp.state \in {"AUTH", "QUIT"}
        BY <1>6, <1>7, <3>1 DEF GoesOn
      <4> QED BY <1>2, <1>6, <1>7, <2>3, <2>6, <3>1, <4>2, <4>3 DEF NotAhead
    <3> QED BY <1>2, <1>6, <1>7, <1>n, <2>3, <2>6, <3>2 DEF SmtpCalm
  <2> QED BY <2>7, <2>8, <2>9 DEF w, f
<1> HIDE DEF with, refused
<1>8. CASE smtp' = AbortExit(s)
  BY <1>2, <1>8, AbortExitGood
<1>9. ASSUME NEW c \in sent, NEW a \in ServerAnswers(smtp.server, c),
             \/ smtp' \in Accepted(with(a), a[1])
             \/ smtp' \in {ErrorExit(refused(a)), AbortExit(refused(a))}
      PROVE  SmtpGood(smtp')
  BY <1>7, <1>9, AcceptedGood, ErrorExitGood, AbortExitGood
<1> QED BY <1>3, <1>8, <1>9

(* The state a transfer leaves behind. *)
LEMMA Third ==
    ASSUME NEW r, NEW x, \E b \in BOOLEAN, c \in BOOLEAN : r = <<b, c, x>>
    PROVE  r[3] = x
  OBVIOUS

(* case SMTP_PROXY_TRANSFER: smtp_state goes back to EHLO in every case. *)
LEMMA TransferStep == ASSUME SmtpGood(smtp), Transfer PROVE SmtpGood(smtp')
<1> DEFINE results == IF smtp.transfer = "stacked" THEN TransferDelayed(smtp) ELSE TransferPlain(smtp)
           after(r) == [ResetState(r[3]) EXCEPT !.transfer = "none", !.flag = FALSE, !.proxy = "REQUEST"]
<1>1. smtp \in SmtpRecord /\ SmtpPhase(smtp)
  BY GoodIsCalm
<1>2. PICK r \in results : smtp' \in {Answered(after(r)), AbortExit(after(r)), ErrorExit(after(r))}
  BY DEF Transfer
<1>3. r[3] \in SmtpRecord /\ r[3].server # "auth"
  <2> DEFINE t == [smtp EXCEPT !.owed = @ + 1]
             d == [smtp EXCEPT !.server = "data"]
             Left(u) == u \in SmtpRecord /\ u.server # "auth"
  <2>0. Left(smtp)
    BY <1>1 DEF SmtpPhase, Transfer
  <2>1. Left(t) /\ Left(d)
    BY <1>1, <2>0 DEF SmtpRecord, Places
  <2>2. \A u \in SmtpRecord : u.server # "auth" => Left(MailDone(u)) /\ Left(SentRset(u))
    BY DEF MailDone, SentRset, SmtpRecord, Places
  <2> HIDE DEF t, d
  <2>3. ASSUME r \in TransferDelayed(smtp) PROVE r[3] \in {smtp, d, MailDone(smtp), SentRset(smtp)}
    <3>1. \/ r = <<FALSE, FALSE, smtp>> \/ r = <<FALSE, TRUE, smtp>> \/ r = <<FALSE, FALSE, SentRset(smtp)>>
          \/ r = <<TRUE, FALSE, MailDone(smtp)>> \/ \E abort \in BOOLEAN : r = <<FALSE, abort, d>>
      BY <2>3 DEF TransferDelayed, d
    <3>2. \E x \in {smtp, d, MailDone(smtp), SentRset(smtp)} : \E b \in BOOLEAN, c \in BOOLEAN : r = <<b, c, x>>
      BY <3>1
    <3> QED BY <3>2, Third
  <2>4. ASSUME r \in TransferPlain(smtp) PROVE r[3] \in {smtp, t, MailDone(t)}
    <3>1. \/ r = <<TRUE, FALSE, MailDone(t)>> \/ r = <<FALSE, FALSE, smtp>>
          \/ r = <<FALSE, TRUE, t>> \/ r = <<FALSE, FALSE, t>>
          \/ r = <<FALSE, TRUE, MailDone(t)>> \/ r = <<FALSE, FALSE, MailDone(t)>>
      BY <2>4 DEF TransferPlain, t
    <3>2. \E x \in {smtp, t, MailDone(t)} : \E b \in BOOLEAN, c \in BOOLEAN : r = <<b, c, x>>
      BY <3>1
    <3> QED BY <3>2, Third
  <2>5. r[3] \in {smtp, t, d, MailDone(smtp), MailDone(t), SentRset(smtp)}
    BY <2>3, <2>4
  <2> QED BY <2>0, <2>1, <2>2, <2>5
<1> DEFINE e == after(r)
<1>4. /\ e \in SmtpRecord /\ e.state = "EHLO" /\ e.proxy = "REQUEST" /\ e.transfer = "none"
      /\ ~e.flag /\ e.server # "auth"
  <2>1. PICK u \in SmtpRecord : u = r[3] /\ u.server # "auth"
    BY <1>3
  <2>2. e = [u EXCEPT !.state = "EHLO", !.withheld = FALSE, !.transfer = "none", !.flag = FALSE, !.proxy = "REQUEST"]
    BY <2>1 DEF ResetState, SmtpRecord
  <2> HIDE DEF e
  <2>3. [u EXCEPT !.state = "EHLO", !.withheld = FALSE, !.transfer = "none"] \in SmtpRecord
    BY DEF SmtpRecord
  <2>4. e = [[[u EXCEPT !.state = "EHLO", !.withheld = FALSE, !.transfer = "none"] EXCEPT !.flag = FALSE] EXCEPT !.proxy = "REQUEST"]
    BY <2>2 DEF SmtpRecord
  <2>5. e \in SmtpRecord
    <3>1. ASSUME NEW w \in SmtpRecord PROVE [w EXCEPT !.flag = FALSE] \in SmtpRecord
      BY DEF SmtpRecord
    <3>2. ASSUME NEW w \in SmtpRecord PROVE [w EXCEPT !.proxy = "REQUEST"] \in SmtpRecord
      BY DEF SmtpRecord
    <3> QED BY <2>3, <2>4, <3>1, <3>2
  <2>6. e.state = "EHLO" /\ e.proxy = "REQUEST" /\ e.transfer = "none" /\ ~e.flag /\ e.server # "auth"
    BY <2>1, <2>2 DEF SmtpRecord
  <2> QED BY <2>5, <2>6
<1>5. smtp' \in {Answered(e), AbortExit(e), ErrorExit(e)}
  BY <1>2
<1> HIDE DEF e
<1>6. SmtpCalm(e) /\ SmtpPhase(e)
  BY <1>4 DEF SmtpCalm, NotAhead, SmtpPhase
<1> QED BY <1>5, <1>6, AnsweredGood, AbortExitGood, ErrorExitGood DEF SmtpGood

(* case SMTP_PROXY_UNCONNECTED_GREET, and what ends the loop. *)
LEMMA OtherSmtpSteps ==
    ASSUME SmtpGood(smtp), UnconnectedGreet \/ ClientGone \/ Plug \/ SmtpStopped
    PROVE  SmtpGood(smtp')
<1>1. CASE UnconnectedGreet
  <2> DEFINE e == [smtp EXCEPT !.proxy = "UNCONNECTED_REJECT_ALL"]
  <2>1. smtp.proxy = "UNCONNECTED_GREET" /\ smtp' = ErrorExit(e)
    BY <1>1 DEF UnconnectedGreet
  <2>2. SmtpCalm(smtp)
    BY <2>1, GoodIsCalm
  <2>3. /\ e \in SmtpRecord /\ e.state = smtp.state /\ e.server = smtp.server /\ e.withheld = smtp.withheld
        /\ e.flag = smtp.flag /\ e.request = smtp.request
    BY <2>2 DEF SmtpCalm, SmtpRecord
  <2> HIDE DEF e
  <2>4. SmtpCalm(e)
    BY <2>1, <2>2, <2>3 DEF SmtpCalm, NotAhead
  <2> QED BY <2>1, <2>4, ErrorExitGood
<1>2. CASE ClientGone
  BY <1>2, GoodIsCalm, AbortExitGood DEF ClientGone
<1>3. CASE Plug \/ SmtpStopped
  BY <1>3, GoodIsCalm, QuitsGood DEF Plug, SmtpStopped, Quits
<1> QED BY <1>1, <1>2, <1>3

(* A session begins. *)
LEMMA SmtpInitGood == SmtpInit => SmtpGood(smtp)
<1> SUFFICES ASSUME SmtpInit PROVE SmtpGood(smtp) OBVIOUS
<1>1. PICK security \in SmtpSecurities, requests_ \in RequestPolicies, connected \in BOOLEAN :
         smtp = [conf |-> [security |-> security, requests |-> requests_],
                 proxy |-> IF connected THEN "RESPONSE" ELSE "UNCONNECTED_GREET",
                 state |-> "INITIAL", request |-> "Null", reply |-> "none", flag |-> FALSE, transfer |-> "none",
                 extensions |-> {}, tls |-> [client |-> FALSE, server |-> FALSE], server |-> "init", withheld |-> FALSE,
                 owed |-> 1, lines |-> 0]
  BY DEF SmtpInit, SmtpInits
<1>2. smtp \in SmtpRecord
  BY <1>1 DEF SmtpRecord, Places
<1>3. /\ smtp.state = "INITIAL" /\ smtp.request = "Null" /\ ~smtp.flag /\ smtp.transfer = "none" /\ smtp.server = "init"
      /\ smtp.proxy \in {"RESPONSE", "UNCONNECTED_GREET"}
  BY <1>1
<1> QED BY <1>2, <1>3 DEF SmtpGood, SmtpCalm, SmtpPhase, NotAhead

(* For every policy, every set of security settings and of extensions, and  *)
(* any number of commands: the proxy never believes more of a mail          *)
(* transaction than the server has accepted, except after the response      *)
(* policy has withheld an answer to RSET, DATA or AUTH and until the next   *)
(* smtp_reset_state; and smtp_process_transfer is never entered without a   *)
(* transfer.                                                                *)
THEOREM SmtpIsSound == SmtpSpec => []SmtpTransaction
<1>1. SmtpGood(smtp) /\ [SmtpNext]_smtp => SmtpGood(smtp')
  BY RequestStep, AuthRequestStep, ResponseStep, TransferStep, OtherSmtpSteps DEF SmtpNext
<1>2. SmtpGood(smtp) => SmtpTransaction
  BY DEF SmtpGood, SmtpCalm, Sending, SmtpPhase, NotAhead, SmtpTransaction, NotAheadOfServer, TransferExists
<1> DEFINE Good == SmtpGood(smtp)
<1>3. SmtpInit => Good
  BY SmtpInitGood
<1>4. Good /\ [SmtpNext]_smtp => Good'
  BY <1>1 DEF SmtpGood, SmtpCalm, Sending, SmtpPhase, NotAhead, Permitted, SmtpRecord, Places, Codes
<1>5. Good => SmtpTransaction
  BY <1>2
<1> HIDE DEF Good
<1> QED BY <1>3, <1>4, <1>5, PTL DEF SmtpSpec
=============================================================================
