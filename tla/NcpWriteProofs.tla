--------------------------- MODULE NcpWriteProofs ---------------------------
(* Theorems about NcpWrite, for any callers, commands, cids and any limit  *)
(* on the retries.                                                         *)
EXTENDS NcpWrite, TLAPS

Places == {"idle", "send", "wait", "breathe"}

(* What is true of a caller at each of its places.                         *)
PlaceOK(c) ==
  /\ at[c] = "idle" <=> result[c] # "open"
  /\ at[c] = "idle" <=> write[c] = None
  /\ at[c] = "wait" <=> cid[c] # None
  /\ at[c] # "wait" => heard[c] = None
  /\ at[c] \in {"send", "breathe"} => effect[c] = "none"

(* What an answer to the open write of c tells of its effect.              *)
Tells(c, status) ==
  /\ status = "ok" => effect[c] = "applied"
  /\ status = "error" => effect[c] = "refused"
  /\ status = "busy" => effect[c] = "none"

(* A command that belongs to a caller carries its write and the cid it     *)
(* waits for, which nothing else on its way carries.                       *)
CommandsOK ==
  \A m \in toNcp :
    /\ m.by # None => /\ cid[m.by] = m.cid /\ write[m.by] = m.cmd
                      /\ heard[m.by] = None /\ effect[m.by] = "none"
    /\ \A c \in Callers : cid[c] = m.cid => m.by = c
    /\ \A n \in toNcp : n.cid = m.cid => n = m

(* An answer that a caller waits for is the only one, and the command it   *)
(* answers has left.                                                       *)
AnswersOK ==
  \A a \in answers :
    /\ \A c \in Callers : cid[c] = a.cid => heard[c] = None /\ Tells(c, a.status)
    /\ \A m \in toNcp : m.cid # a.cid
    /\ \A b \in answers : b.cid = a.cid => b = a

OwnCids ==
  \A c, d \in Callers : cid[c] = cid[d] /\ cid[c] # None => c = d

(* The inductive invariant.                                                *)
WriteInv ==
  /\ TypeOK
  /\ \A c \in Callers : PlaceOK(c) /\ Tells(c, heard[c])
  /\ OwnCids /\ CommandsOK /\ AnswersOK

-----------------------------------------------------------------------------
(* The cid that Send picks is one that nothing refers to.                  *)
LEMMA FreshCid ==
  ASSUME \E k \in Cids : Unused(k)
  PROVE  /\ (CHOOSE k \in Cids : Unused(k)) \in Cids
         /\ Unused(CHOOSE k \in Cids : Unused(k))
OBVIOUS

(* What becomes of the commands of a write that returns.                   *)
LEMMA DisownedCommands ==
  ASSUME NEW c \in Callers, toNcp \subseteq CommandsSent
  PROVE  /\ Disowned(c) \subseteq CommandsSent
         /\ \A m \in Disowned(c) : \E n \in toNcp :
              m = [cid |-> n.cid, cmd |-> n.cmd,
                   by |-> IF n.by = c THEN None ELSE n.by]
BY DEF Disowned, CommandsSent

(* A write that returns leaves the invariant to the other one.             *)
LEMMA ReturnInv ==
  ASSUME WriteInv, NEW c \in Callers, NEW value \in {"true", "false"},
         Return(c, value)
  PROVE  WriteInv'
<1>1. TypeOK'
  <2>1. toNcp' \subseteq CommandsSent
    BY DisownedCommands DEF WriteInv, TypeOK, Return
  <2>2. QED
    BY <2>1, WriteAssumption DEF WriteInv, TypeOK, Return, Unregister, session
<1>2. \A d \in Callers : PlaceOK(d)' /\ Tells(d, heard[d])'
  BY WriteAssumption DEF WriteInv, TypeOK, PlaceOK, Tells, Return, Unregister
<1>3. OwnCids'
  BY DEF WriteInv, TypeOK, OwnCids, Return, Unregister
<1>4. CommandsOK'
  <2>1. SUFFICES ASSUME NEW m \in toNcp', NEW n \in toNcp,
                        m = [cid |-> n.cid, cmd |-> n.cmd,
                             by |-> IF n.by = c THEN None ELSE n.by]
                 PROVE  (/\ m.by # None => /\ cid[m.by] = m.cid /\ write[m.by] = m.cmd
                                           /\ heard[m.by] = None /\ effect[m.by] = "none"
                         /\ \A d \in Callers : cid[d] = m.cid => m.by = d
                         /\ \A l \in toNcp : l.cid = m.cid => l = m)'
    BY DisownedCommands DEF WriteInv, TypeOK, Return, CommandsOK
  <2>2. m.by # None => n.by \in Callers /\ m.by = n.by /\ n.by # c
    BY <2>1, WriteAssumption DEF WriteInv, TypeOK, CommandsSent
  <2>3. (m.by # None => /\ cid[m.by] = m.cid /\ write[m.by] = m.cmd
                        /\ heard[m.by] = None /\ effect[m.by] = "none")'
    BY <2>1, <2>2 DEF WriteInv, TypeOK, CommandsOK, Return, Unregister
  <2>4. (\A d \in Callers : cid[d] = m.cid => m.by = d)'
    BY <2>1, WriteAssumption
    DEF WriteInv, TypeOK, CommandsOK, CommandsSent, Return, Unregister
  <2>5. (\A l \in toNcp : l.cid = m.cid => l = m)'
    <3>1. SUFFICES ASSUME NEW l \in toNcp', l.cid = m.cid
                   PROVE  l = m
      OBVIOUS
    <3>2. PICK k \in toNcp :
            l = [cid |-> k.cid, cmd |-> k.cmd,
                 by |-> IF k.by = c THEN None ELSE k.by]
      BY DisownedCommands DEF WriteInv, TypeOK, Return
    <3>3. k = n
      BY <2>1, <3>1, <3>2 DEF WriteInv, CommandsOK
    <3>4. QED
      BY <2>1, <3>2, <3>3
  <2>6. QED
    BY <2>3, <2>4, <2>5
<1>5. AnswersOK'
  <2>1. \A a \in answers : \A m \in toNcp' : m.cid # a.cid
    BY DisownedCommands DEF WriteInv, TypeOK, AnswersOK, Return
  <2>2. \A a \in answers : a.cid # None
    BY WriteAssumption DEF WriteInv, TypeOK, Answers
  <2>3. QED
    BY <2>1, <2>2 DEF WriteInv, TypeOK, AnswersOK, Tells, Return, Unregister
<1>6. QED
  BY <1>1, <1>2, <1>3, <1>4, <1>5 DEF WriteInv

(* The steps of a caller.                                                  *)
LEMMA BeginInv ==
  ASSUME WriteInv, NEW c \in Callers, NEW cmd \in Commands, Begin(c, cmd)
  PROVE  WriteInv'
<1>1. TypeOK'
  BY DEF WriteInv, TypeOK, Begin, session
<1>2. \A d \in Callers : PlaceOK(d)' /\ Tells(d, heard[d])'
  BY WriteAssumption DEF WriteInv, TypeOK, PlaceOK, Tells, Begin
<1>3. OwnCids'
  BY DEF WriteInv, OwnCids, Begin
<1>4. CommandsOK'
  <2>1. \A m \in toNcp : m.by # c
    BY WriteAssumption
    DEF WriteInv, TypeOK, CommandsOK, CommandsSent, PlaceOK, Begin
  <2>2. \A m \in toNcp : m.by # None => m.by \in Callers
    BY DEF WriteInv, TypeOK, CommandsSent
  <2>3. QED
    BY <2>1, <2>2 DEF WriteInv, TypeOK, CommandsOK, Begin
<1>5. AnswersOK'
  <2>1. \A a \in answers : cid[c] # a.cid
    BY WriteAssumption DEF WriteInv, TypeOK, PlaceOK, Answers, Begin
  <2>2. QED
    BY <2>1 DEF WriteInv, TypeOK, AnswersOK, Tells, Begin
<1>6. QED
  BY <1>1, <1>2, <1>3, <1>4, <1>5 DEF WriteInv

LEMMA SendInv ==
  ASSUME WriteInv, NEW c \in Callers, Send(c)
  PROVE  WriteInv'
<1>1. PICK k \in Cids : /\ Unused(k)
                        /\ cid' = [cid EXCEPT ![c] = k]
                        /\ toNcp' = toNcp \cup {[cid |-> k, cmd |-> write[c], by |-> c]}
  BY FreshCid DEF Send
<1>2. PICK sent \in CommandsSent : /\ sent.cid = k /\ sent.cmd = write[c] /\ sent.by = c
                                   /\ toNcp' = toNcp \cup {sent}
  <2>1. write[c] \in Commands
    BY DEF WriteInv, TypeOK, PlaceOK, Send
  <2>2. [cid |-> k, cmd |-> write[c], by |-> c] \in CommandsSent
    BY <2>1 DEF CommandsSent
  <2>3. QED
    BY <1>1, <2>2
<1>3. /\ \A d \in Callers : cid[d] # k
      /\ \A m \in toNcp : m.cid # k
      /\ \A a \in answers : a.cid # k
  BY <1>1 DEF Unused
<1>4. UNCHANGED <<write, heard, result, answers, effect>>
  BY DEF Send
<1>5. TypeOK'
  BY <1>1, <1>2 DEF WriteInv, TypeOK, Send, session
<1>6. \A d \in Callers : PlaceOK(d)' /\ Tells(d, heard[d])'
  BY <1>1, WriteAssumption DEF WriteInv, TypeOK, PlaceOK, Tells, Send
<1>7. OwnCids'
  BY <1>1, <1>3 DEF WriteInv, TypeOK, OwnCids
<1>8. CommandsOK'
  <2>1. \A m \in toNcp : m.by # c /\ (m.by # None => m.by \in Callers)
    BY WriteAssumption
    DEF WriteInv, TypeOK, CommandsOK, CommandsSent, PlaceOK, Send
  <2>2. c # None /\ heard[c] = None /\ effect[c] = "none"
    BY WriteAssumption DEF WriteInv, PlaceOK, Send
  <2>3. cid \in [Callers -> Cids \cup {None}]
    BY DEF WriteInv, TypeOK
  <2>4. QED
    BY <1>1, <1>2, <1>3, <1>4, <2>1, <2>2, <2>3 DEF WriteInv, CommandsOK
<1>9. AnswersOK'
  BY <1>1, <1>2, <1>3, <1>4 DEF WriteInv, TypeOK, AnswersOK, Tells
<1>10. QED
  BY <1>5, <1>6, <1>7, <1>8, <1>9 DEF WriteInv

LEMMA BreatheInv ==
  ASSUME WriteInv, NEW c \in Callers, HeardBusy(c)
  PROVE  WriteInv'
<1>1. /\ heard[c] = "busy" /\ effect[c] = "none"
      /\ Breathe(c) /\ retries[c] # RetryLimit
  BY DEF WriteInv, Tells, HeardBusy, Waiting, RetryAllowed
<1>2. \A m \in toNcp : m.by # c
  BY <1>1, WriteAssumption DEF WriteInv, TypeOK, CommandsOK
<1>3. TypeOK'
  <2>1. retries[c] + 1 \in 0..RetryLimit
    BY <1>1, WriteAssumption DEF WriteInv, TypeOK
  <2>2. QED
    BY <1>1, <2>1 DEF WriteInv, TypeOK, Breathe, Unregister, session
<1>4. \A d \in Callers : PlaceOK(d)' /\ Tells(d, heard[d])'
  BY <1>1, WriteAssumption
  DEF WriteInv, TypeOK, PlaceOK, Tells, Breathe, Unregister, HeardBusy, Waiting
<1>5. OwnCids'
  BY <1>1 DEF WriteInv, TypeOK, OwnCids, Breathe, Unregister
<1>6. CommandsOK'
  <2>1. \A m \in toNcp : m.cid # None /\ (m.by # None => m.by \in Callers)
    BY WriteAssumption DEF WriteInv, TypeOK, CommandsSent
  <2>2. QED
    BY <1>1, <1>2, <2>1 DEF WriteInv, TypeOK, CommandsOK, Breathe, Unregister
<1>7. AnswersOK'
  <2>1. \A a \in answers : a.cid # None
    BY WriteAssumption DEF WriteInv, TypeOK, Answers
  <2>2. QED
    BY <1>1, <2>1 DEF WriteInv, TypeOK, AnswersOK, Tells, Breathe, Unregister
<1>8. QED
  BY <1>3, <1>4, <1>5, <1>6, <1>7 DEF WriteInv

LEMMA CallerInv ==
  ASSUME WriteInv, NEW c \in Callers, Caller(c)
  PROVE  WriteInv'
<1>1. CASE Send(c)
  BY <1>1, SendInv
<1>2. CASE HeardBusy(c)
  BY <1>2, BreatheInv
<1>3. CASE SendAgain(c)
  BY <1>3, WriteAssumption
  DEF WriteInv, TypeOK, PlaceOK, Tells, OwnCids, CommandsOK, AnswersOK, SendAgain,
      session
<1>4. CASE \E value \in {"true", "false"} : Return(c, value)
  BY <1>4, ReturnInv
<1>5. QED
  BY <1>1, <1>2, <1>3, <1>4
  DEF Caller, SendOffline, HeardOk, HeardError, GaveUp, TimedOut, StopWakes

-----------------------------------------------------------------------------
(* The steps of the paho thread, the appliance and the network.            *)
LEMMA DeliverInv ==
  ASSUME WriteInv, NEW a \in answers, Deliver(a)
  PROVE  WriteInv'
<1>1. a.cid \in Cids /\ a.status \in Statuses
  BY DEF WriteInv, TypeOK, Answers
<1>2. heard' = [c \in Callers |-> IF cid[c] = a.cid THEN a.status ELSE heard[c]]
  BY DEF Deliver, Addressed
<1>3. TypeOK'
  BY <1>1, <1>2 DEF WriteInv, TypeOK, Deliver, session
<1>4. \A c \in Callers : PlaceOK(c)' /\ Tells(c, heard[c])'
  BY <1>1, <1>2, WriteAssumption
  DEF WriteInv, PlaceOK, Tells, AnswersOK, Deliver
<1>5. OwnCids'
  BY DEF WriteInv, OwnCids, Deliver
<1>6. CommandsOK'
  <2>1. \A m \in toNcp : m.cid # a.cid /\ (m.by # None => m.by \in Callers)
    BY DEF WriteInv, TypeOK, CommandsSent, AnswersOK
  <2>2. QED
    BY <1>2, <2>1 DEF WriteInv, CommandsOK, Deliver
<1>7. AnswersOK'
  BY <1>2 DEF WriteInv, AnswersOK, Tells, Deliver
<1>8. QED
  BY <1>3, <1>4, <1>5, <1>6, <1>7 DEF WriteInv

(* An answer that tells the truth about the write it answers.              *)
LEMMA AnswerInv ==
  ASSUME WriteInv, NEW m \in toNcp, NEW status \in Statuses, Answer(m, status),
         UNCHANGED <<session, at, write, cid, heard, retries, result, lateSends>>,
         effect' \in [Callers -> {"none", "applied", "refused"}],
         \A c \in Callers : IF c = m.by THEN Tells(c, status)'
                            ELSE effect'[c] = effect[c]
  PROVE  WriteInv'
<1>1. /\ m.cid \in Cids
      /\ \A n \in toNcp : n.by # None => n.by \in Callers
  BY DEF WriteInv, TypeOK, CommandsSent
<1>2. PICK a \in Answers : /\ a.cid = m.cid /\ a.status = status
                          /\ answers' = answers \cup {a}
  <2>1. [cid |-> m.cid, status |-> status] \in Answers
    BY <1>1 DEF Answers
  <2>2. QED
    BY <2>1 DEF Answer
<1>3. toNcp' = toNcp \ {m}
  BY DEF Answer
<1>4. m.by \in Callers => /\ heard[m.by] = None /\ cid[m.by] = m.cid
                          /\ effect[m.by] = "none"
  BY WriteAssumption DEF WriteInv, CommandsOK
<1>5. \A n \in toNcp : n # m => n.cid # m.cid
  BY DEF WriteInv, CommandsOK
<1>6. TypeOK'
  BY <1>2, <1>3 DEF WriteInv, TypeOK, session
<1>7. \A c \in Callers : PlaceOK(c)' /\ Tells(c, heard[c])'
  <2>1. SUFFICES ASSUME NEW c \in Callers
                 PROVE  PlaceOK(c)' /\ Tells(c, heard[c])'
    OBVIOUS
  <2>2. CASE c = m.by
    <3>1. heard[c] = None /\ at[c] = "wait"
      BY <1>1, <1>4, <2>2, WriteAssumption DEF WriteInv, PlaceOK
    <3>2. QED
      BY <3>1, WriteAssumption DEF WriteInv, PlaceOK, Tells
  <2>3. CASE c # m.by
    BY <2>3 DEF WriteInv, PlaceOK, Tells
  <2>4. QED
    BY <2>2, <2>3
<1>8. OwnCids'
  BY DEF WriteInv, OwnCids
<1>9. CommandsOK'
  <2>1. \A n \in toNcp' : n.by # None => n.by # m.by
    BY <1>1, <1>3, <1>4, <1>5 DEF WriteInv, CommandsOK
  <2>2. QED
    BY <1>1, <1>3, <2>1 DEF WriteInv, CommandsOK
<1>10. AnswersOK'
  <2>1. \A c \in Callers : cid[c] = m.cid => c = m.by
    BY DEF WriteInv, CommandsOK
  <2>2. \A b \in answers : b.cid # m.cid
    BY DEF WriteInv, AnswersOK
  <2>3. \A c \in Callers : cid[c] = m.cid => heard[c] = None /\ Tells(c, status)'
    BY <1>4, <2>1
  <2>4. \A b \in answers : \A c \in Callers :
          cid[c] = b.cid => heard[c] = None /\ Tells(c, b.status)'
    <3>1. \A c \in Callers : c = m.by => cid[c] = m.cid
      BY <1>4
    <3>2. QED
      BY <2>2, <3>1 DEF WriteInv, AnswersOK, Tells
  <2>5. \A b \in answers : /\ \A n \in toNcp : n.cid # b.cid
                           /\ \A d \in answers : d.cid = b.cid => d = b
    BY DEF WriteInv, AnswersOK
  <2>6. QED
    BY <1>2, <1>3, <1>5, <2>2, <2>3, <2>4, <2>5 DEF AnswersOK
<1>11. QED
  BY <1>6, <1>7, <1>8, <1>9, <1>10 DEF WriteInv

LEMMA ApplianceInv ==
  ASSUME WriteInv, NEW m \in toNcp, Appliance(m)
  PROVE  WriteInv'
<1>1. ASSUME NEW what \in {"applied", "refused"}, effect' = Marked(m, what)
      PROVE  /\ effect' \in [Callers -> {"none", "applied", "refused"}]
             /\ \A c \in Callers : IF c = m.by THEN effect'[c] = what
                                   ELSE effect'[c] = effect[c]
  BY <1>1 DEF WriteInv, TypeOK, Marked
<1>2. CASE Apply(m)
  <2>1. \A c \in Callers : c = m.by => Tells(c, "ok")'
    BY <1>1, <1>2 DEF Apply, Tells
  <2>2. QED
    BY <1>1, <1>2, <2>1, AnswerInv DEF Apply, Statuses
<1>3. CASE Refuse(m)
  <2>1. \A c \in Callers : c = m.by => Tells(c, "error")'
    BY <1>1, <1>3 DEF Refuse, Tells
  <2>2. QED
    BY <1>1, <1>3, <2>1, AnswerInv DEF Refuse, Statuses
<1>4. CASE AnswerBusy(m)
  <2>1. \A c \in Callers : c = m.by => Tells(c, "busy")'
    BY <1>4, WriteAssumption DEF WriteInv, CommandsOK, AnswerBusy, Tells
  <2>2. effect' = effect /\ effect \in [Callers -> {"none", "applied", "refused"}]
    BY <1>4 DEF WriteInv, TypeOK, AnswerBusy
  <2>3. QED
    BY <1>4, <2>1, <2>2, AnswerInv DEF AnswerBusy, Statuses
<1>5. CASE LoseCommand(m)
  BY <1>5
  DEF WriteInv, TypeOK, PlaceOK, Tells, OwnCids, CommandsOK, AnswersOK, LoseCommand,
      session
<1>6. QED
  BY <1>2, <1>3, <1>4, <1>5 DEF Appliance

LEMMA LoseAnswerInv ==
  ASSUME WriteInv, NEW a \in answers, LoseAnswer(a)
  PROVE  WriteInv'
BY DEF WriteInv, TypeOK, PlaceOK, Tells, OwnCids, CommandsOK, AnswersOK, LoseAnswer,
       session

LEMMA LinkInv ==
  ASSUME WriteInv, Link
  PROVE  WriteInv'
BY DEF WriteInv, TypeOK, PlaceOK, Tells, OwnCids, CommandsOK, AnswersOK, Link

-----------------------------------------------------------------------------
LEMMA InitInv == Init => WriteInv
<1>1. SUFFICES ASSUME Init PROVE WriteInv
  OBVIOUS
<1>2. TypeOK
  <2>1. 0 \in 0..RetryLimit
    BY WriteAssumption
  <2>2. retries \in [Callers -> 0..RetryLimit] /\ lateSends \in [Callers -> 0..2]
    BY <1>1, <2>1 DEF Init
  <2>3. QED
    BY <1>1, <2>2 DEF Init, TypeOK
<1>3. \A c \in Callers : PlaceOK(c) /\ Tells(c, heard[c])
  BY <1>1, WriteAssumption DEF Init, PlaceOK, Tells
<1>4. OwnCids /\ CommandsOK /\ AnswersOK
  BY <1>1 DEF Init, OwnCids, CommandsOK, AnswersOK
<1>5. QED
  BY <1>2, <1>3, <1>4 DEF WriteInv

LEMMA NextInv == WriteInv /\ [Next]_vars => WriteInv'
<1>1. SUFFICES ASSUME WriteInv, [Next]_vars PROVE WriteInv'
  OBVIOUS
<1>2. CASE UNCHANGED vars
  BY <1>1, <1>2
  DEF WriteInv, TypeOK, PlaceOK, Tells, OwnCids, CommandsOK, AnswersOK, vars
<1>3. CASE Next
  BY <1>1, <1>3, BeginInv, CallerInv, ApplianceInv, DeliverInv, LoseAnswerInv, LinkInv
  DEF Next
<1>4. QED
  BY <1>1, <1>2, <1>3

(* The invariant of the writes: whatever is lost, late or busy, a caller   *)
(* waits under a cid of its own, at most one command or answer carries it, *)
(* and what it is told is what became of its write.                        *)
THEOREM WriteInvariant == Spec => []WriteInv
<1>1. QED
  BY InitInv, NextInv, PTL DEF Spec

(* Every variable has its type.                                            *)
THEOREM WriteTypes == Spec => []TypeOK
<1>1. WriteInv => TypeOK
  BY DEF WriteInv
<1>2. QED
  BY <1>1, WriteInvariant, PTL

(* A caller hears the answer to its own write (the lookup of the cid in    *)
(* _handle_ncp_response).                                                  *)
THEOREM OwnAnswers == Spec => []AnswerIsOwn
<1>1. WriteInv => AnswerIsOwn
  BY DEF WriteInv, AnswerIsOwn, Tells
<1>2. QED
  BY <1>1, WriteInvariant, PTL

(* A write that the appliance has applied or refused is not on its way     *)
(* again (the retry of send_port_command_and_wait).                        *)
THEOREM NeverSentTwice == Spec => []NotSentTwice
<1>1. WriteInv => NotSentTwice
  BY DEF WriteInv, NotSentTwice, CommandsOK
<1>2. QED
  BY <1>1, WriteInvariant, PTL

(* A write published after the stop is not at the point of publishing.     *)
LateInv ==
  \A c \in Callers : /\ lateSends[c] \in 0..1
                     /\ lateSends[c] = 1 => stopping /\ at[c] # "send"

(* After disconnect() a write is published once more at most: the breather *)
(* of send_port_command_and_wait ends with the session.                    *)
THEOREM OneSendAfterStop == Spec => []OneLateSend
<1>1. Init => LateInv
  <2>1. SUFFICES ASSUME Init PROVE LateInv
    OBVIOUS
  <2>2. lateSends = [c \in Callers |-> 0] /\ stopping \in BOOLEAN
    BY <2>1 DEF Init
  <2>3. ASSUME NEW c \in Callers
        PROVE  /\ lateSends[c] \in 0..1
               /\ lateSends[c] = 1 => stopping /\ at[c] # "send"
    BY <2>2
  <2>4. QED
    BY <2>3 DEF LateInv
<1>2. LateInv /\ TypeOK /\ [Next]_vars => LateInv'
  <2>1. SUFFICES ASSUME LateInv, TypeOK, [Next]_vars PROVE LateInv'
    OBVIOUS
  <2>2. CASE UNCHANGED vars
    BY <2>1, <2>2 DEF LateInv, vars
  <2>3. CASE \E c \in Callers, cmd \in Commands : Begin(c, cmd)
    BY <2>1, <2>3 DEF LateInv, TypeOK, Begin, session
  <2>4. CASE \E c \in Callers : Send(c) \/ SendAgain(c)
    BY <2>1, <2>4 DEF LateInv, TypeOK, Send, SendAgain, Silenced, session
  <2>5. CASE \E c \in Callers :
               Breathe(c) \/ \E value \in {"true", "false"} : Return(c, value)
    BY <2>1, <2>5 DEF LateInv, TypeOK, Breathe, Return, session
  <2>6. CASE Link \/ (\E m \in toNcp : Appliance(m))
               \/ (\E a \in answers : Deliver(a) \/ LoseAnswer(a))
    BY <2>1, <2>6
    DEF LateInv, TypeOK, Link, Appliance, Apply, Refuse, AnswerBusy, LoseCommand,
        Deliver, LoseAnswer, session
  <2>7. CASE \E c \in Callers : Caller(c)
    BY <2>4, <2>5, <2>7
    DEF Caller, SendOffline, HeardOk, HeardError, HeardBusy, GaveUp, TimedOut, StopWakes
  <2>8. CASE Next
    BY <2>3, <2>6, <2>7, <2>8 DEF Next
  <2>9. QED
    BY <2>1, <2>2, <2>8
<1>3. LateInv => OneLateSend
  <2>1. ASSUME LateInv, NEW c \in Callers
        PROVE  lateSends[c] <= 1
    BY <2>1 DEF LateInv
  <2>2. QED
    BY <2>1 DEF OneLateSend
<1>4. QED
  BY <1>1, <1>2, <1>3, WriteTypes, PTL DEF Spec

-----------------------------------------------------------------------------
(* NcpWrite implements WriteContract.                                      *)

(* What the refinement maps `adrift` to.                                   *)
Adrift == {m.cmd : m \in {n \in toNcp : n.by = None}}

LEMMA ReturnRefines ==
  ASSUME WriteInv, NEW c \in Callers, NEW value, Return(c, value), at[c] # "idle"
  PROVE  /\ Contract!Returns(c, value)
         /\ Adrift' \subseteq Adrift \cup Contract!Unsettled(c)
         /\ (\A m \in toNcp : m.by # c) => Adrift' = Adrift
<1>1. Contract!Returns(c, value)
  BY DEF WriteInv, PlaceOK, Return, Contract!Returns
<1>2. \A m \in toNcp : m.by = c => m.cmd = write[c] /\ effect[c] = "none"
  BY WriteAssumption DEF WriteInv, CommandsOK
<1>3. Adrift' \subseteq Adrift \cup Contract!Unsettled(c)
  BY <1>2, DisownedCommands DEF WriteInv, TypeOK, Adrift, Return, Contract!Unsettled
<1>4. ASSUME \A m \in toNcp : m.by # c
      PROVE  Adrift' = Adrift
  <2>1. Adrift' \subseteq Adrift
    BY <1>3, <1>4, DisownedCommands DEF WriteInv, TypeOK, Adrift, Return
  <2>2. ASSUME NEW n \in toNcp, n.by = None
        PROVE  n.cmd \in Adrift'
    <3>1. [cid |-> n.cid, cmd |-> n.cmd, by |-> IF n.by = c THEN None ELSE n.by] \in toNcp'
      BY DEF Return, Disowned
    <3>2. PICK m \in toNcp' : m.cmd = n.cmd /\ m.by = None
      BY <2>2, <3>1
    <3>3. QED
      BY <3>2 DEF Adrift
  <2>3. QED
    BY <2>1, <2>2 DEF Adrift
<1>5. QED
  BY <1>1, <1>3, <1>4

LEMMA CallerRefines ==
  ASSUME WriteInv, NEW c \in Callers, Caller(c)
  PROVE  \/ Contract!ReturnTrue(c) \/ Contract!ReturnFalse(c)
         \/ UNCHANGED Contract!contract
<1> USE DEF Contract!contract
<1>1. CASE HeardOk(c) \/ TimedOut(c)
  <2>1. Return(c, "true") /\ at[c] # "idle"
    BY <1>1 DEF HeardOk, TimedOut, Waiting
  <2>2. QED
    BY <2>1, ReturnRefines DEF Contract!ReturnTrue, Adrift
<1>2. CASE SendOffline(c) \/ HeardError(c) \/ GaveUp(c) \/ StopWakes(c)
  <2>1. Return(c, "false") /\ at[c] # "idle"
    BY <1>2 DEF SendOffline, HeardError, GaveUp, StopWakes, Waiting
  <2>2. effect[c] # "applied" /\ \A m \in toNcp : m.by # c
    BY <1>2, WriteAssumption
    DEF WriteInv, TypeOK, CommandsSent, PlaceOK, Tells, CommandsOK, SendOffline,
        HeardError, GaveUp, StopWakes, Waiting
  <2>3. QED
    BY <2>1, <2>2, ReturnRefines DEF Contract!ReturnFalse, Adrift
<1>3. CASE Send(c)
  BY <1>3, WriteAssumption DEF Send
<1>4. CASE HeardBusy(c) \/ SendAgain(c)
  BY <1>4 DEF HeardBusy, SendAgain, Breathe
<1>5. QED
  BY <1>1, <1>2, <1>3, <1>4 DEF Caller

LEMMA ApplianceRefines ==
  ASSUME WriteInv, NEW m \in toNcp, Appliance(m)
  PROVE  (\E c \in Callers : Contract!TakeEffect(c)) \/ Contract!Settle
<1>1. Adrift' \subseteq Adrift /\ (m.by # None => Adrift' = Adrift)
  BY DEF Adrift, Appliance, Apply, Refuse, AnswerBusy, LoseCommand, Answer
<1>2. UNCHANGED <<write, result>>
  BY DEF Appliance, Apply, Refuse, AnswerBusy, LoseCommand
<1>3. CASE AnswerBusy(m) \/ LoseCommand(m)
  BY <1>1, <1>2, <1>3 DEF AnswerBusy, LoseCommand, Contract!Settle, Adrift
<1>4. CASE Apply(m) \/ Refuse(m)
  <2>1. PICK what \in {"applied", "refused"} : effect' = Marked(m, what)
    BY <1>4 DEF Apply, Refuse
  <2>2. effect \in [Callers -> {"none", "applied", "refused"}]
    BY DEF WriteInv, TypeOK
  <2>3. CASE m.by = None
    <3>1. effect' = effect
      BY <2>1, <2>2, <2>3, WriteAssumption DEF Marked
    <3>2. QED
      BY <1>1, <1>2, <3>1 DEF Contract!Settle, Adrift
  <2>4. CASE m.by # None
    <3>1. /\ m.by \in Callers /\ effect[m.by] = "none"
          /\ cid[m.by] = m.cid /\ m.cid \in Cids
      BY <2>4 DEF WriteInv, TypeOK, CommandsSent, CommandsOK
    <3>2. result[m.by] = "open"
      BY <3>1, WriteAssumption DEF WriteInv, PlaceOK
    <3>3. effect' = [effect EXCEPT ![m.by] = what]
      BY <2>1, <2>2, <3>1 DEF Marked
    <3>4. Contract!TakeEffect(m.by)
      BY <1>1, <1>2, <2>4, <3>1, <3>2, <3>3 DEF Contract!TakeEffect, Adrift
    <3>5. QED
      BY <3>1, <3>4
  <2>5. QED
    BY <2>3, <2>4
<1>5. QED
  BY <1>3, <1>4 DEF Appliance

LEMMA NextRefines ==
  ASSUME WriteInv, [Next]_vars
  PROVE  [Contract!ContractNext]_(Contract!contract)
<1> USE DEF Contract!contract
<1>1. CASE UNCHANGED vars
  BY <1>1 DEF vars
<1>2. ASSUME NEW c \in Callers, NEW cmd \in Commands, Begin(c, cmd)
      PROVE  Contract!BeginWrite(c, cmd)
  BY <1>2 DEF WriteInv, PlaceOK, Begin, Contract!BeginWrite
<1>3. CASE \E a \in answers : Deliver(a) \/ LoseAnswer(a)
  BY <1>3 DEF Deliver, LoseAnswer
<1>4. CASE Link
  BY <1>4 DEF Link
<1>5. CASE \E c \in Callers : Caller(c)
  BY <1>5, CallerRefines DEF Contract!ContractNext
<1>6. CASE \E m \in toNcp : Appliance(m)
  BY <1>6, ApplianceRefines DEF Contract!ContractNext
<1>7. CASE \E c \in Callers, cmd \in Commands : Begin(c, cmd)
  BY <1>2, <1>7 DEF Contract!ContractNext
<1>8. QED
  BY <1>1, <1>3, <1>4, <1>5, <1>6, <1>7 DEF Next

(* Every behaviour of the writes is one the contract allows: False means   *)
(* not applied and never to be, and what is left adrift is what a returned *)
(* write left (send_port_command_and_wait under _mqtt_command).            *)
THEOREM ImplementsContract == Spec => KeepsContract
<1>1. Init => Contract!ContractInit
  BY DEF Init, Contract!ContractInit
<1>2. QED
  BY <1>1, NextRefines, WriteInvariant, PTL DEF Spec, KeepsContract, Contract!ContractSpec

=============================================================================
