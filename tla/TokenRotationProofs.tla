------------------------ MODULE TokenRotationProofs ------------------------
(* Theorems about TokenRotation, for any fetches, attempts and tracked      *)
(* tasks and any number of loads and tokens.                                *)
EXTENDS TokenRotation, TLAPS

(* Every token anybody holds was issued by the cloud.                       *)
Issued ==
  /\ minted \in Nat /\ stored \in 1..minted /\ alive \subseteq 1..minted
  /\ \A c \in calls : c.token \in 1..minted /\ c.reply \in 1..minted

(* An answer under way carries a token that works, that has gone nowhere    *)
(* else and that no other answer carries.                                   *)
Fresh(c) ==
  /\ c.reply \in alive /\ c.reply # stored
  /\ \A d \in calls :
       /\ d.token # c.reply
       /\ d.state = "answered" /\ d.reply = c.reply => d = c

AnswersFresh == \A c \in calls : c.state = "answered" => Fresh(c)

(* The inductive invariant.                                                 *)
TokenInv == Issued /\ AnswersFresh /\ SuccessorKept

----------------------------------------------------------------------------
(* A call that is not an answer can go, and another that is none can come.  *)
LEMMA NoAnswer ==
  ASSUME TokenInv, NEW c, c.state # "answered",
         NEW X,
         \A d \in X :
                 /\ d.state # "answered"
                 /\ d.token \in {e.token : e \in calls} \cup {stored}
                 /\ d.reply \in 1..minted,
         calls' = (calls \ {c}) \cup X, UNCHANGED <<stored, cloud>>
  PROVE  TokenInv'
<1> USE DEF TokenInv, cloud
<1>1. Issued'
  BY DEF Issued
<1>2. AnswersFresh'
  <2> SUFFICES ASSUME NEW d \in calls', d.state = "answered"
               PROVE  Fresh(d)'
    BY DEF AnswersFresh
  <2>1. d \in calls /\ Fresh(d)
    BY DEF AnswersFresh
  <2>2. \A e \in calls' : e.token # d.reply
    BY <2>1 DEF Fresh
  <2>3. QED
    BY <2>1, <2>2 DEF Fresh
<1>3. SuccessorKept'
  <2>1. CASE stored \in alive \/ lost
    BY <2>1 DEF SuccessorKept
  <2>2. CASE \E d \in calls :
               d.state = "answered" /\ d.token = stored /\ d.reply \in alive
    BY <2>2 DEF SuccessorKept
  <2>3. QED
    BY <2>1, <2>2 DEF SuccessorKept
<1>4. QED
  BY <1>1, <1>2, <1>3

LEMMA SendRefreshInv ==
  ASSUME TokenInv, NEW l, NEW a, SendRefresh(l, a), UNCHANGED <<stored, cloud>>
  PROVE  TokenInv'
<1> DEFINE n == Call(l, a, stored, "sent", stored)
<1>1. n.state = "sent" /\ n.token = stored /\ n.reply = stored
  BY DEF Call
<1>2. calls' = (calls \ {n}) \cup {n}
  BY DEF SendRefresh
<1>3. stored \in 1..minted
  BY DEF TokenInv, Issued
<1>4. QED
  BY <1>1, <1>2, <1>3, NoAnswer

LEMMA LeaveInv ==
  ASSUME TokenInv, NEW l, NEW a, NEW c, Ended(l, a, c),
         calls' = calls \ {c}, UNCHANGED <<stored, cloud>>
  PROVE  TokenInv'
<1>1. c.state # "answered"
  BY DEF Ended
<1>2. PICK X : X = {}
  OBVIOUS
<1>3. calls' = (calls \ {c}) \cup X
  BY <1>2
<1>4. QED
  BY <1>1, <1>2, <1>3, NoAnswer

----------------------------------------------------------------------------
(* The exchange with the cloud.                                             *)

LEMMA RotateInv ==
  ASSUME TokenInv, NEW c \in calls, Rotate(c), UNCHANGED stored,
         NEW X, \A d \in X : d.token = c.token,
         \/ /\ X # {} /\ UNCHANGED lost /\ \A d, e \in X : d = e
            /\ \A d \in X : d.state = "answered" /\ d.reply = minted + 1
         \/ /\ lost'
            /\ \A d \in X : d.state = "unreachable" /\ d.reply \in 1..minted,
         calls' = (calls \ {c}) \cup X
  PROVE  TokenInv'
<1> USE DEF TokenInv
<1>1. /\ minted \in Nat /\ minted' = minted + 1
      /\ alive' = (alive \ {c.token}) \cup {minted + 1}
      /\ c.state = "sent" /\ c.token \in 1..minted
  BY DEF Rotate, Issued
<1>2. Issued'
  <2>1. \A d \in calls' : d.token \in 1..minted' /\ d.reply \in 1..minted'
    BY <1>1 DEF Issued
  <2>2. stored \in 1..minted /\ alive \subseteq 1..minted
    BY DEF Issued
  <2>3. \A n \in 1..minted : n \in 1..minted'
    BY <1>1
  <2>4. minted' \in Nat /\ minted + 1 \in 1..minted'
    BY <1>1
  <2>5. stored' \in 1..minted'
    BY <2>2, <2>3
  <2>6. alive' \subseteq 1..minted'
    BY <1>1, <2>2, <2>3, <2>4
  <2>7. QED
    BY <2>1, <2>4, <2>5, <2>6 DEF Issued
<1>3. AnswersFresh'
  <2> SUFFICES ASSUME NEW d \in calls', d.state = "answered"
               PROVE  Fresh(d)'
    BY DEF AnswersFresh
  <2>1. CASE d \in X
    <3>1. d.reply = minted + 1
      BY <2>1
    <3>2. \A e \in calls : e.reply \in 1..minted /\ e.token \in 1..minted
      BY DEF Issued
    <3>3. \A e \in calls' : e.token \in 1..minted
      BY <1>1, <3>2
    <3>4. \A e \in calls' : e.token # d.reply
      BY <1>1, <3>1, <3>3
    <3>5. \A e \in calls' : e.reply = d.reply => e = d
      BY <1>1, <2>1, <3>1, <3>2
    <3>6. stored' # d.reply /\ d.reply \in alive'
      BY <1>1, <3>1 DEF Issued
    <3>7. QED
      BY <3>4, <3>5, <3>6 DEF Fresh
  <2>2. CASE d \notin X
    <3>1. d \in calls /\ Fresh(d) /\ d.reply \in 1..minted
      BY <2>2 DEF AnswersFresh, Issued
    <3>2. d.reply # c.token
      BY <3>1 DEF Fresh
    <3>3. d.reply \in alive' /\ d.reply # stored'
      BY <1>1, <3>1, <3>2 DEF Fresh
    <3>4. \A e \in calls' : e.token # d.reply
      BY <3>1, <3>2 DEF Fresh
    <3>5. \A e \in calls' : e.state = "answered" /\ e.reply = d.reply => e = d
      BY <1>1, <3>1 DEF Fresh
    <3>6. QED
      BY <3>3, <3>4, <3>5 DEF Fresh
  <2>3. QED
    BY <2>1, <2>2
<1>4. SuccessorKept'
  <2>1. CASE lost'
    BY <2>1 DEF SuccessorKept
  <2>2. CASE ~lost' /\ lost
    BY <2>2 DEF SuccessorKept
  <2>3. CASE ~lost' /\ c.token = stored
    <3>1. PICK d \in X : TRUE
      BY <2>3
    <3>2. /\ d \in calls' /\ d.state = "answered"
          /\ d.token = stored' /\ d.reply \in alive'
      BY <1>1, <2>3, <3>1
    <3>3. QED
      BY <3>2 DEF SuccessorKept
  <2>4. CASE ~lost' /\ c.token # stored /\ stored \in alive
    BY <1>1, <2>4 DEF SuccessorKept
  <2>5. CASE /\ ~lost'
             /\ \E d \in calls :
                  d.state = "answered" /\ d.token = stored /\ d.reply \in alive
    <3>1. PICK d \in calls :
            d.state = "answered" /\ d.token = stored /\ d.reply \in alive
      BY <2>5
    <3>2. d \in calls' /\ d.reply # c.token
      BY <1>1, <3>1 DEF AnswersFresh, Fresh
    <3>3. d.reply \in alive'
      BY <1>1, <3>1, <3>2
    <3>4. QED
      BY <3>1, <3>2, <3>3 DEF SuccessorKept
  <2>6. QED
    BY <2>1, <2>2, <2>3, <2>4, <2>5 DEF SuccessorKept
<1>5. QED
  BY <1>2, <1>3, <1>4

LEMMA CloudStepInv ==
  ASSUME TokenInv, NEW c \in calls, CloudStep(c)
  PROVE  TokenInv'
<1> DEFINE Kept(s) ==
             {d \in {Call(c.load, c.by, c.token, s, c.reply)} : c.by # Nobody}
           Answer == Call(c.load, c.by, c.token, "answered", minted + 1)
<1>1. c.token \in 1..minted /\ c.reply \in 1..minted
  BY DEF TokenInv, Issued
<1>2. UNCHANGED stored
  BY DEF CloudStep
<1>3. ASSUME NEW s
      PROVE  /\ EndCall(c, s) = (calls \ {c}) \cup Kept(s)
             /\ \A d \in Kept(s) :
                  d.state = s /\ d.token = c.token /\ d.reply = c.reply
             /\ \A d, e \in Kept(s) : d = e
  BY DEF EndCall, Call
<1>4. CASE CloudAnswers(c)
  <2>1. Rotate(c) /\ calls' = (calls \ {c}) \cup {Answer} /\ UNCHANGED lost
    BY <1>4 DEF CloudAnswers
  <2>2. /\ Answer.state = "answered" /\ Answer.token = c.token
        /\ Answer.reply = minted + 1
    BY DEF Call
  <2>3. PICK X : X = {Answer}
    OBVIOUS
  <2>4. /\ X # {} /\ \A d, e \in X : d = e
        /\ \A d \in X : /\ d.token = c.token /\ d.state = "answered"
                        /\ d.reply = minted + 1
    BY <2>2, <2>3
  <2>5. calls' = (calls \ {c}) \cup X
    BY <2>1, <2>3
  <2>6. QED
    BY <1>2, <2>1, <2>4, <2>5, RotateInv
<1>5. CASE AnswerLost(c)
  <2>1. Rotate(c) /\ calls' = (calls \ {c}) \cup Kept("unreachable") /\ lost'
    BY <1>3, <1>5 DEF AnswerLost
  <2>2. PICK X : X = Kept("unreachable")
    OBVIOUS
  <2>3. \A d \in X : /\ d.token = c.token /\ d.state = "unreachable"
                     /\ d.reply \in 1..minted
    BY <1>1, <1>3, <2>2
  <2>4. calls' = (calls \ {c}) \cup X
    BY <2>1, <2>2
  <2>5. QED
    BY <1>2, <2>1, <2>3, <2>4, RotateInv
<1>6. ASSUME c.state = "sent", NEW s \in {"rejected", "unreachable"},
             calls' = EndCall(c, s), UNCHANGED cloud
      PROVE  TokenInv'
  <2>1. calls' = (calls \ {c}) \cup Kept(s)
    BY <1>3, <1>6
  <2> HIDE DEF Kept
  <2>2. \A d \in Kept(s) : /\ d.state # "answered"
                           /\ d.token \in {e.token : e \in calls} \cup {stored}
                           /\ d.reply \in 1..minted
    BY <1>1, <1>3
  <2>3. QED
    BY <1>2, <1>6, <2>1, <2>2, NoAnswer
<1>7. QED
  BY <1>4, <1>5, <1>6 DEF CloudStep, CloudRejects, CloudUnreachable

LEMMA PersistInv ==
  ASSUME TokenInv, NEW c \in calls, Persist(c)
  PROVE  TokenInv'
<1> USE DEF TokenInv
<1>1. /\ c.state = "answered" /\ stored' = c.reply /\ UNCHANGED cloud
      /\ calls' = EndCall(c, "stored")
  BY DEF Persist
<1>2. /\ minted' = minted /\ alive' = alive /\ lost' = lost
      /\ Fresh(c) /\ c.token \in 1..minted /\ c.reply \in 1..minted
  BY <1>1 DEF cloud, AnswersFresh, Issued
<1>3. \A d \in calls' :
        \/ d \in calls /\ d # c
        \/ d.state = "stored" /\ d.token = c.token /\ d.reply = c.reply
  BY <1>1 DEF EndCall, Call
<1>4. Issued'
  BY <1>1, <1>2, <1>3 DEF Issued
<1>5. AnswersFresh'
  <2> SUFFICES ASSUME NEW d \in calls', d.state = "answered"
               PROVE  Fresh(d)'
    BY DEF AnswersFresh
  <2>1. d \in calls /\ d # c /\ Fresh(d)
    BY <1>3 DEF AnswersFresh
  <2>2. d.reply # stored'
    BY <1>1, <1>2, <2>1 DEF Fresh
  <2>3. \A e \in calls' : e.token # d.reply
    BY <1>3, <2>1 DEF Fresh
  <2>4. \A e \in calls' : e.state = "answered" /\ e.reply = d.reply => e = d
    BY <1>3, <2>1 DEF Fresh
  <2>5. QED
    BY <1>2, <2>1, <2>2, <2>3, <2>4 DEF Fresh
<1>6. SuccessorKept'
  BY <1>1, <1>2 DEF SuccessorKept, Fresh
<1>7. QED
  BY <1>4, <1>5, <1>6

----------------------------------------------------------------------------
(* The life of the entry.                                                   *)

(* A cancelled task takes no answer with it: the shield keeps the exchange. *)
LEMMA UnloadInv ==
  ASSUME TokenInv, Unload
  PROVE  TokenInv'
<1> USE DEF TokenInv
<1>1. calls' = Shielded(load) /\ UNCHANGED <<stored, cloud>>
  BY DEF Unload
<1>2. minted' = minted /\ alive' = alive /\ lost' = lost /\ stored' = stored
  BY <1>1 DEF cloud
<1> DEFINE Orphan(c) == Call(c.load, Nobody, c.token, c.state, c.reply)
<1>3. ASSUME NEW c
      PROVE  /\ Orphan(c).token = c.token /\ Orphan(c).state = c.state
             /\ Orphan(c).reply = c.reply
  BY DEF Call
<1>4. \A d \in calls' : \E c \in calls :
        /\ d.token = c.token /\ d.state = c.state /\ d.reply = c.reply
        /\ d = IF c \in Abandoned(load) THEN Orphan(c) ELSE c
  <2> SUFFICES ASSUME NEW d \in calls'
               PROVE  \E c \in calls :
                        /\ d.token = c.token /\ d.state = c.state
                        /\ d.reply = c.reply
                        /\ d = IF c \in Abandoned(load) THEN Orphan(c) ELSE c
    OBVIOUS
  <2>1. CASE d \in calls \ Abandoned(load)
    BY <2>1
  <2>2. CASE d \notin calls \ Abandoned(load)
    <3>1. PICK c \in Abandoned(load) : d = Orphan(c)
      BY <1>1, <2>2 DEF Shielded
    <3>2. c \in calls
      BY <3>1 DEF Abandoned
    <3>3. QED
      BY <1>3, <3>1, <3>2
  <2>3. QED
    BY <2>1, <2>2
<1>5. \A c \in calls : c.state = "answered" =>
        c \in calls' \/ Orphan(c) \in calls'
  BY <1>1 DEF Shielded, Unfinished
<1>6. Issued'
  BY <1>2, <1>4 DEF Issued
<1>7. AnswersFresh'
  <2> SUFFICES ASSUME NEW d \in calls', d.state = "answered"
               PROVE  Fresh(d)'
    BY DEF AnswersFresh
  <2>1. PICK c \in calls :
          /\ d.token = c.token /\ d.state = c.state /\ d.reply = c.reply
          /\ d = IF c \in Abandoned(load) THEN Orphan(c) ELSE c
    BY <1>4
  <2>2. Fresh(c)
    BY <2>1 DEF AnswersFresh
  <2>3. d.reply \in alive' /\ d.reply # stored'
    BY <1>2, <2>1, <2>2 DEF Fresh
  <2>4. \A e \in calls' : e.token # d.reply
    BY <1>4, <2>1, <2>2 DEF Fresh
  <2>5. ASSUME NEW e \in calls', e.state = "answered", e.reply = d.reply
        PROVE  e = d
    <3>1. PICK f \in calls :
            /\ e.token = f.token /\ e.state = f.state /\ e.reply = f.reply
            /\ e = IF f \in Abandoned(load) THEN Orphan(f) ELSE f
      BY <1>4
    <3>2. f = c
      BY <2>1, <2>2, <2>5, <3>1 DEF Fresh
    <3>3. QED
      BY <2>1, <3>1, <3>2
  <2>6. QED
    BY <2>3, <2>4, <2>5 DEF Fresh
<1>8. SuccessorKept'
  <2>1. CASE stored \in alive \/ lost
    BY <1>2, <2>1 DEF SuccessorKept
  <2>2. CASE \E c \in calls :
               c.state = "answered" /\ c.token = stored /\ c.reply \in alive
    BY <1>2, <1>3, <1>5, <2>2 DEF SuccessorKept
  <2>3. QED
    BY <2>1, <2>2 DEF SuccessorKept
<1>9. QED
  BY <1>6, <1>7, <1>8

LEMMA LoginInv ==
  ASSUME TokenInv, Login
  PROVE  TokenInv'
<1> USE DEF TokenInv
<1>1. /\ minted \in Nat /\ minted' = minted + 1 /\ stored' = minted + 1
      /\ alive' = alive \cup {minted + 1} /\ calls' = calls
  BY DEF Login, Issued
<1>2. Issued'
  BY <1>1 DEF Issued
<1>3. AnswersFresh'
  BY <1>1 DEF AnswersFresh, Fresh, Issued
<1>4. SuccessorKept'
  BY <1>1 DEF SuccessorKept
<1>5. QED
  BY <1>2, <1>3, <1>4

LEMMA QuietInv ==
  ASSUME TokenInv, UNCHANGED <<stored, cloud, calls>>
  PROVE  TokenInv'
BY DEF TokenInv, Issued, AnswersFresh, Fresh, SuccessorKept, cloud

LEMMA UserStepInv ==
  ASSUME TokenInv, NEW l \in Loads, NEW a \in Tasks, UserStep(l, a)
  PROVE  TokenInv'
<1>1. CASE Refresh(l, a)
  BY <1>1, SendRefreshInv DEF Refresh
<1>2. CASE EndTask(l, a)
  <2>1. UNCHANGED <<stored, cloud>>
    BY <1>2 DEF EndTask, EndFetch, EndProactive, EndAttempt
  <2>2. \E b, c : Leave(l, b, c)
    BY <1>2 DEF EndTask, EndFetch, EndProactive, EndAttempt
  <2>3. QED
    BY <2>1, <2>2, LeaveInv DEF Leave
<1>3. QED
  BY <1>1, <1>2 DEF UserStep

LEMMA LifeInv ==
  ASSUME TokenInv, Life
  PROVE  TokenInv'
<1>1. CASE BeginSetup
  BY <1>1, SendRefreshInv DEF BeginSetup
<1>2. CASE SetupTokens
  <2>1. UNCHANGED <<stored, cloud>>
    BY <1>2 DEF SetupTokens
  <2>2. \E c : Ended(load, Setup, c) /\ calls' = calls \ {c}
    BY <1>2 DEF SetupTokens
  <2>3. QED
    BY <2>1, <2>2, LeaveInv
<1>3. CASE SetupDone \/ SetupFails \/ Unloaded
  BY <1>3, QuietInv DEF SetupDone, SetupFails, Unloaded
<1>4. CASE Unload
  BY <1>4, UnloadInv
<1>5. QED
  BY <1>1, <1>2, <1>3, <1>4 DEF Life

LEMMA InitInv == Init => TokenInv
BY DEF Init, TokenInv, Issued, AnswersFresh, Fresh, SuccessorKept, Call

LEMMA NextInv ==
  ASSUME TokenInv, [Next]_vars
  PROVE  TokenInv'
<1>1. CASE \E c \in calls : Exchange(c)
  BY <1>1, CloudStepInv, PersistInv DEF Exchange
<1>2. CASE \E l \in Loads, a \in Tasks : UserStep(l, a)
  BY <1>2, UserStepInv
<1>3. CASE Start
  BY <1>3, QuietInv
     DEF Start, StartProactive, StartBackoff, AttemptTimesOut, BackoffDone,
         StartFetch, StartAttempt
<1>4. CASE Life
  BY <1>4, LifeInv
<1>5. CASE Login
  BY <1>5, LoginInv
<1>6. CASE Rest \/ UNCHANGED vars
  BY <1>6, QuietInv DEF Rest, vars
<1>7. QED
  BY <1>1, <1>2, <1>3, <1>4, <1>5, <1>6 DEF Next

(* Whatever is cancelled, times out or is reloaded: the entry holds a token *)
(* that works, or its successor is on its way to the entry, unless the      *)
(* network lost it (the shielded _refresh_cloud_tokens, coordinator.py).    *)
THEOREM SuccessorAlwaysKept == Spec => []SuccessorKept
<1>1. TokenInv => SuccessorKept
  BY DEF TokenInv
<1>2. QED
  BY <1>1, InitInv, NextInv, PTL DEF Spec

----------------------------------------------------------------------------
(* Why a token that the cloud turns down was dead.                          *)

(* A call is of a load there was; setup's only while setup wants the token, *)
(* before any task of its load waits for the lock.                          *)
Placed ==
  /\ load \in Nat
  /\ \A c \in calls :
       /\ c.load \in 1..load /\ c.by \in Tasks \cup {Setup, Nobody}
       /\ c.by = Setup => c.load = load /\ phase = "tokens"
  /\ \A c, d \in calls : c.by = Setup /\ d.by = Setup => c = d
  /\ queue = [l \in Loads |-> queue[l]]
  /\ \A l \in Loads :
       l > load \/ (l = load /\ phase = "tokens") => queue[l] = <<>>

(* Until a coordinator is left with an exchange, there is one at a time.    *)
OneCall == ~alongside => \A c, d \in Unfinished : c = d

RejectInv == TokenInv /\ Placed /\ OneCall /\ RejectedOnlyWhenDead

(* A call changes its state, or goes.                                       *)
LEMMA ReplaceCall ==
  ASSUME Placed, OneCall, NEW c \in calls, NEW X,
         \A d \in X : /\ d.load = c.load /\ d.by = c.by
                      /\ d.state \in {"sent", "answered"} => c \in Unfinished,
         \A d, e \in X : d = e,
         calls' = (calls \ {c}) \cup X, UNCHANGED <<entry, queue, alongside>>
  PROVE  Placed' /\ OneCall'
<1>1. load' = load /\ phase' = phase /\ queue' = queue /\ alongside' = alongside
  BY DEF entry
<1>2. Placed'
  BY <1>1 DEF Placed
<1>3. OneCall'
  BY <1>1 DEF OneCall, Unfinished
<1>4. QED
  BY <1>2, <1>3

LEMMA EndCallReplaces ==
  ASSUME NEW c, NEW s
  PROVE  \E X :
           /\ EndCall(c, s) = (calls \ {c}) \cup X
           /\ \A d, e \in X : d = e
           /\ \A d \in X : /\ d.load = c.load /\ d.by = c.by
                           /\ d.token = c.token /\ d.state = s
<1> DEFINE X ==
             {d \in {Call(c.load, c.by, c.token, s, c.reply)} : c.by # Nobody}
<1>1. /\ EndCall(c, s) = (calls \ {c}) \cup X
      /\ \A d, e \in X : d = e
      /\ \A d \in X : /\ d.load = c.load /\ d.by = c.by /\ d.token = c.token
                      /\ d.state = s
  BY DEF EndCall, Call
<1> HIDE DEF X
<1>2. QED
  BY <1>1

(* The one call that a live successor could be on its way to is the one     *)
(* that was rejected, and a rejected call has no successor.                 *)
LEMMA CloudStepRejects ==
  ASSUME RejectInv, NEW c \in calls, CloudStep(c)
  PROVE  Placed' /\ OneCall' /\ RejectedOnlyWhenDead'
<1>1. UNCHANGED <<stored, entry, queue, alongside>> /\ c.state = "sent"
  BY DEF CloudStep, CloudAnswers, AnswerLost, CloudRejects, CloudUnreachable,
         Rotate
<1>2. c \in Unfinished
  BY <1>1 DEF Unfinished
<1>3. lost => lost'
  BY DEF CloudStep, CloudAnswers, AnswerLost, CloudRejects, CloudUnreachable,
         cloud
<1>4. \E X :
        /\ calls' = (calls \ {c}) \cup X
        /\ \A d, e \in X : d = e
        /\ \A d \in X : d.load = c.load /\ d.by = c.by /\ d.token = c.token
        /\ \A d \in X : d.state = "rejected" => c.token \notin alive
  <2>1. CASE CloudAnswers(c)
    <3> DEFINE n == Call(c.load, c.by, c.token, "answered", minted + 1)
    <3>1. /\ n.load = c.load /\ n.by = c.by /\ n.token = c.token
          /\ n.state = "answered"
      BY DEF Call
    <3>2. calls' = (calls \ {c}) \cup {n}
      BY <2>1 DEF CloudAnswers
    <3> HIDE DEF n
    <3>3. PICK X : X = {n}
      OBVIOUS
    <3>4. \A d \in X : d = n
      BY <3>3
    <3>5. calls' = (calls \ {c}) \cup X
      BY <3>2, <3>3
    <3>6. QED
      BY <3>1, <3>4, <3>5
  <2>2. CASE AnswerLost(c)
    BY <2>2, EndCallReplaces DEF AnswerLost
  <2>3. CASE CloudRejects(c)
    BY <2>3, EndCallReplaces DEF CloudRejects
  <2>4. CASE CloudUnreachable(c)
    BY <2>4, EndCallReplaces DEF CloudUnreachable
  <2>5. QED
    BY <2>1, <2>2, <2>3, <2>4 DEF CloudStep
<1>5. PICK X :
        /\ calls' = (calls \ {c}) \cup X
        /\ \A d, e \in X : d = e
        /\ \A d \in X : d.load = c.load /\ d.by = c.by /\ d.token = c.token
        /\ \A d \in X : d.state = "rejected" => c.token \notin alive
  BY <1>4
<1>6. Placed' /\ OneCall'
  BY <1>1, <1>2, <1>5, ReplaceCall DEF RejectInv
<1>7. ASSUME NEW d \in calls', d.state = "rejected", d.token = stored'
      PROVE  lost' \/ alongside'
  <2>1. CASE d \in calls
    BY <1>1, <1>3, <1>7, <2>1 DEF RejectInv, RejectedOnlyWhenDead
  <2>2. CASE d \in X
    <3>1. stored \notin alive
      BY <1>1, <1>5, <1>7, <2>2
    <3>2. ~(\E e \in calls :
              e.state = "answered" /\ e.token = stored /\ e.reply \in alive)
          \/ alongside
      BY <1>1, <1>2 DEF RejectInv, OneCall, Unfinished
    <3>3. QED
      BY <1>1, <1>3, <3>1, <3>2 DEF RejectInv, TokenInv, SuccessorKept
  <2>3. QED
    BY <1>5, <2>1, <2>2
<1>8. QED
  BY <1>6, <1>7 DEF RejectedOnlyWhenDead

LEMMA PersistRejects ==
  ASSUME RejectInv, NEW c \in calls, Persist(c)
  PROVE  Placed' /\ OneCall' /\ RejectedOnlyWhenDead'
<1>1. /\ UNCHANGED <<entry, queue, alongside>> /\ c.state = "answered"
      /\ calls' = EndCall(c, "stored") /\ stored' = c.reply
  BY DEF Persist
<1>2. PICK X :
        /\ calls' = (calls \ {c}) \cup X
        /\ \A d, e \in X : d = e
        /\ \A d \in X : /\ d.load = c.load /\ d.by = c.by
                        /\ d.token = c.token /\ d.state = "stored"
  BY <1>1, EndCallReplaces
<1>3. Placed' /\ OneCall'
  <2>1. c \in Unfinished
    BY <1>1 DEF Unfinished
  <2>2. QED
    BY <1>1, <1>2, <2>1, ReplaceCall DEF RejectInv
<1>4. \A d \in calls' : d.state = "rejected" => d.token # stored'
  BY <1>1, <1>2 DEF RejectInv, TokenInv, AnswersFresh, Fresh
<1>5. QED
  BY <1>3, <1>4 DEF RejectedOnlyWhenDead

(* A refresh that finds none left behind is the only one.                   *)
LEMMA SendRefreshRejects ==
  ASSUME RejectInv, NEW l, NEW a, SendRefresh(l, a),
         UNCHANGED <<stored, cloud>>,
         \A c \in Unfinished : c.load # l \/ c.by = Nobody
  PROVE  OneCall' /\ RejectedOnlyWhenDead'
<1> DEFINE n == Call(l, a, stored, "sent", stored)
<1>1. n.state = "sent" /\ calls' = calls \cup {n}
  BY DEF Call, SendRefresh
<1>2. alongside' = (alongside \/ LeftBehind(l) # {})
  BY DEF SendRefresh
<1> HIDE DEF n
<1>3. OneCall'
  <2> SUFFICES ASSUME ~alongside', NEW c \in Unfinished', NEW d \in Unfinished'
               PROVE  c = d
    BY DEF OneCall
  <2>1. Unfinished = {}
    BY <1>2 DEF LeftBehind
  <2>2. QED
    BY <1>1, <2>1 DEF Unfinished
<1>4. RejectedOnlyWhenDead'
  BY <1>1, <1>2 DEF RejectInv, RejectedOnlyWhenDead, cloud
<1>5. QED
  BY <1>3, <1>4

LEMMA RefreshRejects ==
  ASSUME RejectInv, NEW l \in Loads, NEW a \in Tasks, Refresh(l, a)
  PROVE  Placed' /\ OneCall' /\ RejectedOnlyWhenDead'
<1> USE DEF RejectInv
<1>1. /\ SendRefresh(l, a) /\ UNCHANGED <<stored, cloud, entry>>
      /\ queue' = [queue EXCEPT ![l] = Tail(@)]
      /\ queue[l] # <<>> /\ ~Locked(l)
  BY DEF Refresh, Acquires
<1>2. load' = load /\ phase' = phase /\ l \in 1..load
      /\ ~(l = load /\ phase = "tokens")
  BY <1>1 DEF entry, Placed, Loads
<1>3. \A c \in Unfinished : c.load # l \/ c.by = Nobody
  BY <1>1, <1>2 DEF Placed, Unfinished, Locked, CallsOf
<1>4. OneCall' /\ RejectedOnlyWhenDead'
  BY <1>1, <1>3, SendRefreshRejects
<1>5. a # Setup
  BY TokenAssumption DEF Tasks
<1>6. Placed'
  <2> DEFINE n == Call(l, a, stored, "sent", stored)
  <2>1. n.load = l /\ n.by = a /\ calls' = calls \cup {n}
    BY <1>1 DEF Call, SendRefresh
  <2> HIDE DEF n
  <2>2. \A c \in calls' :
          /\ c.load \in 1..load /\ c.by \in Tasks \cup {Setup, Nobody}
          /\ c.by = Setup => c.load = load /\ phase = "tokens"
    BY <1>2, <1>5, <2>1 DEF Placed
  <2>3. \A c, d \in calls' : c.by = Setup /\ d.by = Setup => c = d
    BY <1>5, <2>1 DEF Placed
  <2>4. queue' = [k \in Loads |-> queue'[k]]
    BY <1>1 DEF Placed
  <2>5. \A k \in Loads :
          k > load \/ (k = load /\ phase = "tokens") => queue'[k] = <<>>
    BY <1>1, <1>2 DEF Placed
  <2>6. QED
    BY <1>2, <2>2, <2>3, <2>4, <2>5 DEF Placed
<1>7. QED
  BY <1>4, <1>6

LEMMA BeginSetupRejects ==
  ASSUME RejectInv, BeginSetup
  PROVE  Placed' /\ OneCall' /\ RejectedOnlyWhenDead'
<1> USE DEF RejectInv
<1>1. /\ SendRefresh(load + 1, Setup) /\ UNCHANGED <<stored, cloud, queue>>
      /\ load' = load + 1 /\ phase' = "tokens" /\ phase # "tokens"
  BY DEF BeginSetup
<1>2. load \in Nat /\ \A c \in calls : c.load \in 1..load /\ c.by # Setup
  BY <1>1 DEF Placed
<1>3. \A c \in Unfinished : c.load # load + 1
  BY <1>2 DEF Unfinished
<1>4. OneCall' /\ RejectedOnlyWhenDead'
  BY <1>1, <1>3, SendRefreshRejects
<1>5. Placed'
  <2> DEFINE n == Call(load + 1, Setup, stored, "sent", stored)
  <2>1. n.load = load' /\ n.by = Setup /\ calls' = calls \cup {n}
    BY <1>1 DEF Call, SendRefresh
  <2> HIDE DEF n
  <2>2. load' \in Nat /\ \A c \in calls' : c.load \in 1..load'
    BY <1>1, <1>2, <2>1
  <2>3. \A c \in calls' :
          /\ c.by \in Tasks \cup {Setup, Nobody}
          /\ c.by = Setup => c.load = load' /\ phase' = "tokens"
    BY <1>1, <1>2, <2>1 DEF Placed
  <2>4. \A c, d \in calls' : c.by = Setup /\ d.by = Setup => c = d
    BY <1>2, <2>1
  <2>5. \A k \in Loads :
          k > load' \/ (k = load' /\ phase' = "tokens") => queue'[k] = <<>>
    BY <1>1, <1>2 DEF Placed, Loads
  <2>6. queue' = [k \in Loads |-> queue'[k]]
    BY <1>1 DEF Placed
  <2>7. QED
    BY <2>2, <2>3, <2>4, <2>5, <2>6 DEF Placed
<1>6. QED
  BY <1>4, <1>5

(* Calls go and none comes.                                                 *)
LEMMA FewerCalls ==
  ASSUME RejectInv, calls' \subseteq calls,
         UNCHANGED <<stored, cloud, alongside>>
  PROVE  OneCall' /\ RejectedOnlyWhenDead'
BY DEF RejectInv, OneCall, RejectedOnlyWhenDead, Unfinished, cloud

LEMMA LeaveRejects ==
  ASSUME RejectInv, NEW l, NEW a, NEW c, Leave(l, a, c),
         UNCHANGED <<stored, cloud, entry, queue, alongside>>
  PROVE  Placed' /\ OneCall' /\ RejectedOnlyWhenDead'
<1>1. calls' \subseteq calls
  BY DEF Leave
<1>2. Placed'
  BY <1>1 DEF RejectInv, Placed, entry
<1>3. QED
  BY <1>1, <1>2, FewerCalls

LEMMA SetupTokensRejects ==
  ASSUME RejectInv, SetupTokens
  PROVE  Placed' /\ OneCall' /\ RejectedOnlyWhenDead'
<1> USE DEF RejectInv
<1>1. UNCHANGED <<stored, cloud, queue, alongside, load>>
  BY DEF SetupTokens, Goto
<1>2. PICK c \in calls : c.by = Setup /\ calls' = calls \ {c}
  BY DEF SetupTokens, Ended, CallsOf
<1>3. \A d \in calls' : d \in calls /\ d.by # Setup
  BY <1>2 DEF Placed
<1>4. Placed'
  <2>1. \A k \in Loads : k > load => queue[k] = <<>>
    BY DEF Placed
  <2>2. phase' # "tokens" /\ phase = "tokens"
    BY DEF SetupTokens, Goto
  <2>3. QED
    BY <1>1, <1>3, <2>1, <2>2 DEF Placed
<1>5. QED
  BY <1>1, <1>2, <1>4, FewerCalls

LEMMA UnloadRejects ==
  ASSUME RejectInv, Unload
  PROVE  Placed' /\ OneCall' /\ RejectedOnlyWhenDead'
<1> USE DEF RejectInv
<1>1. /\ calls' = Shielded(load) /\ UNCHANGED <<stored, cloud, alongside, load>>
      /\ queue' = [queue EXCEPT ![load] = queue'[load]]
      /\ phase = "running" /\ phase' = "closing"
  BY DEF Unload, Goto, Placed
<1> DEFINE Orphan(c) == Call(c.load, Nobody, c.token, c.state, c.reply)
<1>2. ASSUME NEW c
      PROVE  /\ Orphan(c).token = c.token /\ Orphan(c).state = c.state
             /\ Orphan(c).load = c.load /\ Orphan(c).by = Nobody
  BY DEF Call
<1>3. \A d \in calls' :
        \/ d \in calls /\ d \notin Abandoned(load)
        \/ \E c \in Abandoned(load) \cap Unfinished : d = Orphan(c)
  BY <1>1 DEF Shielded
<1>4. Abandoned(load) \subseteq calls
  BY DEF Abandoned
<1>5. Placed'
  <2>1. Nobody # Setup
    BY TokenAssumption
  <2>2. \A d \in calls' :
          /\ d.load \in 1..load /\ d.by \in Tasks \cup {Setup, Nobody}
          /\ d.by # Setup
    BY <1>1, <1>2, <1>3, <1>4, <2>1 DEF Placed
  <2>3. queue' = [k \in Loads |-> queue'[k]]
    BY <1>1 DEF Placed
  <2>4. \A k \in Loads : k > load => queue'[k] = <<>>
    <3> SUFFICES ASSUME NEW k \in Loads, k > load
                 PROVE  queue'[k] = <<>>
      OBVIOUS
    <3>1. k # load /\ queue[k] = <<>>
      BY DEF Placed, Loads
    <3>2. queue'[k] = queue[k]
      BY <1>1, <3>1 DEF Placed
    <3>3. QED
      BY <3>1, <3>2
  <2>5. QED
    BY <1>1, <2>2, <2>3, <2>4 DEF Placed
<1>6. OneCall'
  <2> SUFFICES ASSUME ~alongside', NEW c \in Unfinished', NEW d \in Unfinished'
               PROVE  c = d
    BY DEF OneCall
  <2>1. \A e \in Unfinished' : \E f \in Unfinished :
          e = IF f \in Abandoned(load) THEN Orphan(f) ELSE f
    BY <1>3 DEF Unfinished
  <2>2. \A e, f \in Unfinished : e = f
    BY <1>1 DEF OneCall
  <2>3. QED
    BY <2>1, <2>2
<1>7. RejectedOnlyWhenDead'
  <2> SUFFICES ASSUME NEW d \in calls', d.state = "rejected", d.token = stored'
               PROVE  lost' \/ alongside'
    BY DEF RejectedOnlyWhenDead
  <2>1. d \in calls
    BY <1>2, <1>3 DEF Unfinished
  <2>2. QED
    BY <1>1, <2>1 DEF RejectedOnlyWhenDead, cloud
<1>8. QED
  BY <1>5, <1>6, <1>7

(* A task joins a queue only when setup has its token.                      *)
LEMMA StartRejects ==
  ASSUME RejectInv, Start
  PROVE  Placed' /\ OneCall' /\ RejectedOnlyWhenDead'
<1> USE DEF RejectInv
<1>1. UNCHANGED <<stored, cloud, calls, entry, alongside>>
  BY DEF Start, StartProactive, StartBackoff, AttemptTimesOut, BackoffDone,
         StartFetch, StartAttempt
<1>2. UNCHANGED queue \/ \E a \in Tasks : StartTask(a)
  BY DEF Start, StartProactive, StartBackoff, AttemptTimesOut, BackoffDone,
         StartFetch, StartAttempt, Tasks
<1>3. Placed'
  <2>1. CASE UNCHANGED queue
    BY <1>1, <2>1 DEF Placed, entry
  <2>2. ASSUME NEW a \in Tasks, StartTask(a)
        PROVE  Placed'
    <3>1. queue' = [queue EXCEPT ![load] = Append(@, a)] /\ phase # "tokens"
      BY <2>2 DEF StartTask, Serving
    <3>2. \A k \in Loads : k > load => queue'[k] = queue[k]
      BY <3>1 DEF Placed, Loads
    <3>3. queue' = [k \in Loads |-> queue'[k]]
      BY <3>1 DEF Placed
    <3>4. QED
      BY <1>1, <3>1, <3>2, <3>3 DEF Placed, entry
  <2>3. QED
    BY <1>2, <2>1, <2>2
<1>4. QED
  BY <1>1, <1>3, FewerCalls

LEMMA LifeRejects ==
  ASSUME RejectInv, Life
  PROVE  Placed' /\ OneCall' /\ RejectedOnlyWhenDead'
<1>1. CASE SetupDone \/ SetupFails \/ Unloaded
  <2>1. UNCHANGED <<stored, cloud, queue, calls, alongside, load>>
    BY <1>1 DEF SetupDone, SetupFails, Unloaded, Goto
  <2>2. phase # "tokens" /\ phase' # "tokens"
    BY <1>1 DEF SetupDone, SetupFails, Unloaded, Goto
  <2>3. Placed'
    BY <2>1, <2>2 DEF RejectInv, Placed
  <2>4. QED
    BY <2>1, <2>3, FewerCalls
<1>2. QED
  BY <1>1, BeginSetupRejects, SetupTokensRejects, UnloadRejects DEF Life

LEMMA RestRejects ==
  ASSUME RejectInv, Login \/ Rest \/ UNCHANGED vars
  PROVE  Placed' /\ OneCall' /\ RejectedOnlyWhenDead'
<1> USE DEF RejectInv
<1>1. UNCHANGED <<entry, queue, calls, alongside>>
  BY DEF Login, Rest, vars
<1>2. Placed' /\ OneCall'
  BY <1>1 DEF Placed, OneCall, Unfinished, entry
<1>3. CASE Login
  <2>1. stored' = minted + 1 /\ \A c \in calls : c.token # minted + 1
    BY <1>3 DEF Login, TokenInv, Issued
  <2>2. QED
    BY <1>1, <1>2, <2>1 DEF RejectedOnlyWhenDead
<1>4. CASE Rest \/ UNCHANGED vars
  <2>1. UNCHANGED <<stored, cloud>>
    BY <1>4 DEF Rest, vars
  <2>2. QED
    BY <1>1, <1>2, <2>1, FewerCalls
<1>5. QED
  BY <1>3, <1>4

LEMMA UserStepRejects ==
  ASSUME RejectInv, NEW l \in Loads, NEW a \in Tasks, UserStep(l, a)
  PROVE  Placed' /\ OneCall' /\ RejectedOnlyWhenDead'
<1>1. CASE EndTask(l, a)
  <2>1. /\ UNCHANGED <<stored, cloud, entry, queue, alongside>>
        /\ \E b, c : Leave(l, b, c)
    BY <1>1 DEF EndTask, EndFetch, EndProactive, EndAttempt
  <2>2. QED
    BY <2>1, LeaveRejects
<1>2. QED
  BY <1>1, RefreshRejects DEF UserStep

LEMMA InitRejects == Init => RejectInv
<1> SUFFICES ASSUME Init
             PROVE  RejectInv
  OBVIOUS
<1>1. \A c \in calls : /\ c.load = 1 /\ c.by = Setup /\ c.state = "sent"
                       /\ c = Call(1, Setup, 1, "sent", 1)
  BY DEF Init, Call
<1>2. Placed
  BY <1>1 DEF Init, Placed
<1>3. OneCall /\ RejectedOnlyWhenDead
  BY <1>1 DEF OneCall, RejectedOnlyWhenDead, Unfinished
<1>4. QED
  BY <1>2, <1>3, InitInv DEF RejectInv

LEMMA NextRejects ==
  ASSUME RejectInv, [Next]_vars
  PROVE  RejectInv'
<1>1. TokenInv'
  BY NextInv DEF RejectInv
<1>2. Placed' /\ OneCall' /\ RejectedOnlyWhenDead'
  <2>1. CASE \E c \in calls : Exchange(c)
    BY <2>1, CloudStepRejects, PersistRejects DEF Exchange
  <2>2. CASE \E l \in Loads, a \in Tasks : UserStep(l, a)
    BY <2>2, UserStepRejects
  <2>3. QED
    BY <2>1, <2>2, StartRejects, LifeRejects, RestRejects DEF Next
<1>3. QED
  BY <1>1, <1>2 DEF RejectInv

(* The user is asked to log in again only for a token that is dead for good *)
(* or that a coordinator which was left had taken to the cloud: the lock    *)
(* and the writes of rotated tokens are enough for all the others           *)
(* (_token_lock in coordinator.py and __init__.py).                         *)
THEOREM LiveTokenNeverRejected == Spec => []RejectedOnlyWhenDead
<1>1. RejectInv => RejectedOnlyWhenDead
  BY DEF RejectInv
<1>2. QED
  BY <1>1, InitRejects, NextRejects, PTL DEF Spec

----------------------------------------------------------------------------
(* The lock of a load, and the types.                                       *)

(* _token_lock excludes: one task of a load at a time has its exchange.     *)
OneHolder ==
  \A c, d \in calls : c.load = d.load /\ c.by \in Tasks /\ d.by \in Tasks => c = d

(* Nobody waits for the lock that it holds, so no task waits for itself.    *)
NoSelfWait ==
  \A l \in Loads : \A a \in Range(queue[l]) : CallsOf(l, a) = {}

LockInv == TypeOK /\ OneHolder /\ NoSelfWait

Once(q) == ~\E a \in Tasks : Ahead(q, a, a)

LEMMA WaiterJoins ==
  ASSUME NEW q \in Seq(Tasks), NEW a \in Tasks, Once(q), a \notin Range(q)
  PROVE  /\ Append(q, a) \in Seq(Tasks) /\ Once(Append(q, a))
         /\ Range(Append(q, a)) \subseteq Range(q) \cup {a}
<1>1. /\ Append(q, a) \in Seq(Tasks) /\ Len(Append(q, a)) = Len(q) + 1 /\ Len(q) \in Nat
      /\ \A i \in 1..Len(q) : Append(q, a)[i] = q[i]
      /\ Append(q, a)[Len(q) + 1] = a
  OBVIOUS
<1>2. \A i \in 1..(Len(q) + 1) : i = Len(q) + 1 \/ i \in 1..Len(q)
  BY <1>1
<1>3. Range(Append(q, a)) \subseteq Range(q) \cup {a}
  BY <1>1, <1>2 DEF Range
<1>4. Once(Append(q, a))
  <2> SUFFICES ASSUME NEW b \in Tasks, Ahead(Append(q, a), b, b) PROVE FALSE
    BY DEF Once
  <2>1. PICK i \in 1..(Len(q) + 1), j \in 1..(Len(q) + 1) :
          i < j /\ Append(q, a)[i] = b /\ Append(q, a)[j] = b
    BY <1>1 DEF Ahead
  <2>2. i \in 1..Len(q) /\ q[i] = b
    BY <1>1, <1>2, <2>1
  <2>3. CASE j = Len(q) + 1
    BY <1>1, <2>1, <2>2, <2>3 DEF Range
  <2>4. CASE j \in 1..Len(q)
    BY <1>1, <2>1, <2>2, <2>4 DEF Once, Ahead
  <2> QED BY <1>2, <2>3, <2>4
<1> QED BY <1>1, <1>3, <1>4

LEMMA WaiterLeaves ==
  ASSUME NEW q \in Seq(Tasks), q # <<>>, Once(q)
  PROVE  /\ Tail(q) \in Seq(Tasks) /\ Once(Tail(q))
         /\ Head(q) \in Tasks /\ Range(Tail(q)) \subseteq Range(q) \ {Head(q)}
<1>1. /\ Head(q) \in Tasks /\ Tail(q) \in Seq(Tasks) /\ Len(Tail(q)) = Len(q) - 1
      /\ Len(q) \in Nat \ {0} /\ Head(q) = q[1]
      /\ \A i \in 1..(Len(q) - 1) : Tail(q)[i] = q[i + 1] /\ q[i + 1] \in Tasks
  OBVIOUS
<1>2. 1 \in 1..Len(q) /\ \A i \in 1..(Len(q) - 1) : i + 1 \in 1..Len(q) /\ 1 < i + 1
  BY <1>1
<1>3. Range(Tail(q)) \subseteq Range(q) \ {Head(q)}
  BY <1>1, <1>2 DEF Range, Once, Ahead
<1>4. Once(Tail(q))
  <2> SUFFICES ASSUME NEW b \in Tasks, Ahead(Tail(q), b, b) PROVE FALSE
    BY DEF Once
  <2>1. PICK i \in 1..(Len(q) - 1), j \in 1..(Len(q) - 1) :
          i < j /\ q[i + 1] = b /\ q[j + 1] = b
    BY <1>1 DEF Ahead
  <2>2. i + 1 < j + 1
    BY <1>1, <2>1
  <2> QED BY <1>2, <2>1, <2>2 DEF Once, Ahead
<1> QED BY <1>1, <1>3, <1>4

LEMMA WaitersCancelled ==
  ASSUME NEW q \in Seq(Tasks), Once(q), NEW r \in Uncancelled(q)
  PROVE  r \in Seq(Tasks) /\ Once(r) /\ Range(r) \subseteq Range(q)
<1>1. PICK n \in 0..Len(q) : r \in [1..n -> Range(q)]
  BY DEF Uncancelled
<1>2. Range(q) \subseteq Tasks
  BY DEF Range
<1>3. Len(q) \in Nat
  OBVIOUS
<1>4. n \in Nat /\ r \in [1..n -> Tasks]
  BY <1>1, <1>2, <1>3
<1>5. r \in Seq(Tasks) /\ Len(r) = n
  BY <1>4
<1>6. Once(r)
  <2> SUFFICES ASSUME NEW a \in Tasks, Ahead(r, a, a) PROVE FALSE
    BY DEF Once
  <2>1. Ahead(q, a, a)
    BY DEF Ahead, Uncancelled
  <2> QED BY <2>1 DEF Once
<1>7. Range(r) \subseteq Range(q)
  BY DEF Uncancelled
<1> QED BY <1>5, <1>6, <1>7

----------------------------------------------------------------------------
(* What the calls have to do with the lock.                                 *)

CallsOK == calls \subseteq Calls /\ OneHolder /\ NoSelfWait

LEMMA ReplaceKeeps ==
  ASSUME CallsOK, NEW c \in calls, NEW X \in SUBSET Calls,
         \A d \in X : d.load = c.load /\ d.by = c.by,
         \A d, e \in X : d = e,
         calls' = (calls \ {c}) \cup X, queue' = queue
  PROVE  CallsOK'
<1>1. (calls \subseteq Calls)'
  BY DEF CallsOK
<1>2. OneHolder'
  BY DEF CallsOK, OneHolder
<1>3. NoSelfWait'
  <2> SUFFICES ASSUME NEW l \in Loads, NEW a \in Range(queue[l]), NEW d \in calls',
                      d.load = l, d.by = a
               PROVE  FALSE
    BY DEF NoSelfWait, CallsOf, Range
  <2>1. PICK e \in calls : e.load = l /\ e.by = a
    BY DEF CallsOK
  <2> QED BY <2>1 DEF CallsOK, NoSelfWait, CallsOf
<1> QED BY <1>1, <1>2, <1>3 DEF CallsOK

LEMMA EndCallKeeps ==
  ASSUME CallsOK, NEW c \in calls, NEW s \in CallStates,
         calls' = EndCall(c, s), queue' = queue
  PROVE  CallsOK'
<1> DEFINE d == Call(c.load, c.by, c.token, s, c.reply)
           X == {e \in {d} : c.by # Nobody}
<1>1. c \in Calls
  BY DEF CallsOK
<1>2. d \in Calls /\ d.load = c.load /\ d.by = c.by
  <2>1. c.load \in Loads /\ c.by \in Tasks \cup {Setup, Nobody} /\ c.token \in Tokens /\ c.reply \in Tokens
    BY <1>1 DEF Calls
  <2> QED BY <2>1 DEF Call, Calls
<1>3. calls' = (calls \ {c}) \cup X
  BY DEF EndCall
<1> HIDE DEF d
<1>4. X \in SUBSET Calls /\ (\A e \in X : e = d) /\ \A e \in X : e.load = c.load /\ e.by = c.by
  BY <1>2
<1> HIDE DEF X
<1> QED BY <1>3, <1>4, ReplaceKeeps

LEMMA RotateTyped ==
  ASSUME TypeOK, NEW c \in calls, Rotate(c)
  PROVE  minted' \in Tokens /\ alive' \subseteq 1..minted'
<1>1. minted \in Nat /\ minted' = minted + 1 /\ minted < MaxTokens /\ minted' \in Tokens
  BY TokenAssumption DEF TypeOK, Tokens, Rotate
<1>2. ASSUME NEW k \in alive' PROVE k \in 1..minted'
  <2>1. k = minted + 1 \/ k \in 1..minted
    BY <1>2 DEF TypeOK, Rotate
  <2> QED BY <1>1, <2>1
<1> QED BY <1>1, <1>2

LEMMA CloudStepLock ==
  ASSUME LockInv, NEW c \in calls, CloudStep(c)
  PROVE  LockInv'
<1>1. CallsOK /\ TypeOK /\ c \in Calls
  BY DEF LockInv, CallsOK, TypeOK
<1>2. UNCHANGED <<stored, load, phase, queue, owner, awaiting, alongside>>
  BY DEF CloudStep, entry, link
<1>3. /\ minted' \in Tokens /\ alive' \subseteq 1..minted' /\ lost' \in BOOLEAN
      /\ CallsOK'
  <2>1. CASE CloudAnswers(c)
    <3> DEFINE d == Call(c.load, c.by, c.token, "answered", minted + 1)
    <3>1. minted' \in Tokens /\ alive' \subseteq 1..minted' /\ minted' = minted + 1
      BY <1>1, <2>1, RotateTyped DEF CloudAnswers, Rotate
    <3>2. d \in Calls /\ d.load = c.load /\ d.by = c.by
      <4>1. /\ c.load \in Loads /\ c.by \in Tasks \cup {Setup, Nobody} /\ c.token \in Tokens
            /\ minted + 1 \in Tokens /\ "answered" \in CallStates
        BY <1>1, <3>1 DEF Calls, CallStates
      <4> QED BY <4>1 DEF Call, Calls
    <3> DEFINE X == {d}
    <3>3. calls' = (calls \ {c}) \cup X
      BY <2>1 DEF CloudAnswers
    <3> HIDE DEF d
    <3>4. X \in SUBSET Calls /\ (\A e \in X : e.load = c.load /\ e.by = c.by) /\ \A e, g \in X : e = g
      BY <3>2
    <3> HIDE DEF X
    <3>5. CallsOK'
      BY <1>1, <1>2, <3>3, <3>4, ReplaceKeeps
    <3> QED BY <1>1, <2>1, <3>1, <3>5 DEF CloudAnswers, TypeOK
  <2>2. CASE AnswerLost(c)
    <3>1. calls' = EndCall(c, "unreachable") /\ "unreachable" \in CallStates
      BY <2>2 DEF AnswerLost, CallStates
    <3>2. CallsOK'
      BY <1>1, <1>2, <3>1, EndCallKeeps
    <3> QED BY <1>1, <2>2, <3>2, RotateTyped DEF AnswerLost
  <2>3. CASE CloudRejects(c)
    <3>1. calls' = EndCall(c, "rejected") /\ "rejected" \in CallStates
      BY <2>3 DEF CloudRejects, CallStates
    <3>2. CallsOK'
      BY <1>1, <1>2, <3>1, EndCallKeeps
    <3> QED BY <1>1, <2>3, <3>2 DEF CloudRejects, cloud, TypeOK
  <2>4. CASE CloudUnreachable(c)
    <3>1. calls' = EndCall(c, "unreachable") /\ "unreachable" \in CallStates
      BY <2>4 DEF CloudUnreachable, CallStates
    <3>2. CallsOK'
      BY <1>1, <1>2, <3>1, EndCallKeeps
    <3> QED BY <1>1, <2>4, <3>2 DEF CloudUnreachable, cloud, TypeOK
  <2> QED BY <2>1, <2>2, <2>3, <2>4 DEF CloudStep
<1> QED BY <1>1, <1>2, <1>3 DEF LockInv, TypeOK, CallsOK

LEMMA PersistLock ==
  ASSUME LockInv, NEW c \in calls, Persist(c)
  PROVE  LockInv'
<1>1. CallsOK /\ TypeOK /\ c \in Calls
  BY DEF LockInv, CallsOK, TypeOK
<1>2. /\ UNCHANGED <<minted, alive, lost, load, phase, queue, owner, awaiting, alongside>>
      /\ stored' = c.reply /\ stored' \in Tokens
  BY <1>1 DEF Persist, cloud, entry, link, Calls
<1>3. calls' = EndCall(c, "stored") /\ "stored" \in CallStates
  BY DEF Persist, CallStates
<1>4. CallsOK'
  BY <1>1, <1>2, <1>3, EndCallKeeps
<1> QED BY <1>1, <1>2, <1>4 DEF LockInv, TypeOK, CallsOK

LEMMA SentCall ==
  ASSUME TypeOK, NEW l \in Loads, NEW a \in Tasks \cup {Setup}
  PROVE  LET d == Call(l, a, stored, "sent", stored)
         IN  d \in Calls /\ d.load = l /\ d.by = a
BY DEF TypeOK, Call, Calls, CallStates

LEMMA RefreshLock ==
  ASSUME LockInv, NEW l \in Loads, NEW a \in Tasks, Refresh(l, a)
  PROVE  LockInv'
<1> DEFINE q == queue[l]
           d == Call(l, a, stored, "sent", stored)
<1>1. /\ q \in Seq(Tasks) /\ q # <<>> /\ Head(q) = a /\ ~Locked(l)
      /\ queue' = [queue EXCEPT ![l] = Tail(q)] /\ Once(q)
  BY DEF Refresh, Acquires, LockInv, TypeOK, Once
<1>2. /\ calls' = calls \cup {d} /\ alongside' \in BOOLEAN
      /\ UNCHANGED <<stored, minted, alive, lost, load, phase, owner, awaiting>>
  BY DEF Refresh, SendRefresh, cloud, entry, link, LockInv, TypeOK
<1>3. d \in Calls /\ d.load = l /\ d.by = a
  BY SentCall DEF LockInv
<1>4. /\ Tail(q) \in Seq(Tasks) /\ Once(Tail(q))
      /\ Range(Tail(q)) \subseteq Range(q) /\ a \notin Range(Tail(q))
  <2> HIDE DEF q
  <2> QED BY <1>1, WaiterLeaves
<1> HIDE DEF d
<1>5. \A c \in calls : c.load = l => c.by \notin Tasks
  BY <1>1 DEF Locked, CallsOf
<1>6. queue'[l] = Tail(q) /\ \A k \in Loads \ {l} : queue'[k] = queue[k]
  BY <1>1 DEF LockInv, TypeOK
<1>7. queue' \in [Loads -> Seq(Tasks)] /\ \A k \in Loads : Once(queue'[k])
  BY <1>1, <1>4, <1>6 DEF LockInv, TypeOK, Once
<1>8. TypeOK'
  BY <1>2, <1>3, <1>7 DEF LockInv, TypeOK, Once
<1>9. OneHolder'
  BY <1>2, <1>3, <1>5 DEF LockInv, OneHolder
<1>10. NoSelfWait'
  <2> SUFFICES ASSUME NEW k \in Loads, NEW b \in Range(queue'[k]), NEW c \in calls',
                      c.load = k, c.by = b
               PROVE  FALSE
    BY DEF NoSelfWait, CallsOf
  <2>1. b \in Range(queue[k])
    BY <1>4, <1>6
  <2>2. c \notin calls
    BY <2>1 DEF LockInv, NoSelfWait, CallsOf
  <2>3. k = l /\ b = a
    BY <1>2, <1>3, <2>2
  <2> QED BY <1>4, <1>6, <2>3
<1> QED BY <1>8, <1>9, <1>10 DEF LockInv

(* Calls that go leave the lock's waiters as they are.                      *)
LEMMA FewerCallsLock ==
  ASSUME CallsOK, calls' \subseteq calls, queue' = queue
  PROVE  CallsOK'
<1>1. calls' \subseteq Calls /\ OneHolder'
  BY DEF CallsOK, OneHolder
<1>2. NoSelfWait'
  BY DEF CallsOK, NoSelfWait, CallsOf
<1> QED BY <1>1, <1>2 DEF CallsOK

LEMMA EndTaskLock ==
  ASSUME LockInv, NEW l \in Loads, NEW a \in Tasks, EndTask(l, a)
  PROVE  LockInv'
<1>1. /\ UNCHANGED <<stored, minted, alive, lost, load, phase, queue, alongside>>
      /\ calls' \subseteq calls
  BY DEF EndTask, EndFetch, EndProactive, EndAttempt, Leave, cloud, entry, link
<1>2. owner' \in {owner, Nobody} /\ awaiting' \in {awaiting, Nobody}
  <2>1. CASE EndFetch(l, a)
    BY <2>1 DEF EndFetch, link
  <2>2. CASE EndProactive(l)
    BY <2>2 DEF EndProactive
  <2>3. CASE EndAttempt(l, a)
    BY <2>3 DEF EndAttempt
  <2> QED BY <2>1, <2>2, <2>3 DEF EndTask
<1>3. CallsOK'
  BY <1>1, FewerCallsLock DEF LockInv, CallsOK, TypeOK
<1> QED BY <1>1, <1>2, <1>3 DEF LockInv, TypeOK, CallsOK

LEMMA StartTaskLock ==
  ASSUME LockInv, NEW a \in Tasks, StartTask(a), calls' = calls
  PROVE  /\ queue' \in [Loads -> Seq(Tasks)] /\ \A k \in Loads : Once(queue'[k])
         /\ NoSelfWait'
<1> DEFINE q == queue[load]
<1>1. /\ load \in Loads /\ q \in Seq(Tasks) /\ Once(q)
      /\ a \notin Range(q) /\ CallsOf(load, a) = {}
      /\ queue' = [queue EXCEPT ![load] = Append(q, a)]
  BY DEF StartTask, UsesToken, LockInv, TypeOK, Once
<1>2. /\ Append(q, a) \in Seq(Tasks) /\ Once(Append(q, a))
      /\ Range(Append(q, a)) \subseteq Range(q) \cup {a}
  <2> HIDE DEF q
  <2> QED BY <1>1, WaiterJoins
<1>3. queue'[load] = Append(q, a) /\ \A k \in Loads \ {load} : queue'[k] = queue[k]
  BY <1>1 DEF LockInv, TypeOK
<1>4. queue' \in [Loads -> Seq(Tasks)] /\ \A k \in Loads : Once(queue'[k])
  BY <1>1, <1>2, <1>3 DEF LockInv, TypeOK, Once
<1>5. NoSelfWait'
  <2> SUFFICES ASSUME NEW k \in Loads, NEW b \in Range(queue'[k])
               PROVE  CallsOf(k, b) = {}
    BY DEF NoSelfWait, CallsOf
  <2>1. b \in Range(queue[k]) \/ (k = load /\ b = a)
    BY <1>2, <1>3
  <2> QED BY <1>1, <2>1 DEF LockInv, NoSelfWait
<1> QED BY <1>4, <1>5

LEMMA StartLock ==
  ASSUME LockInv, Start
  PROVE  LockInv'
<1>1. /\ UNCHANGED <<stored, minted, alive, lost, load, phase, calls, alongside>>
      /\ owner' \in {Nobody, Proactive, Backoff} /\ awaiting' \in Attempts \cup {Nobody}
      /\ queue' = queue \/ \E a \in Tasks : StartTask(a)
  <2>1. CASE StartProactive \/ StartBackoff \/ AttemptTimesOut \/ BackoffDone
    BY <2>1 DEF StartProactive, StartBackoff, AttemptTimesOut, BackoffDone, cloud, entry,
                LockInv, TypeOK, Tasks
  <2>2. CASE \E a \in Tasks : StartFetch(a) \/ StartAttempt(a)
    BY <2>2 DEF StartFetch, StartAttempt, cloud, entry, link, LockInv, TypeOK
  <2> QED BY <2>1, <2>2 DEF Start
<1>2. /\ queue' \in [Loads -> Seq(Tasks)] /\ \A k \in Loads : Once(queue'[k])
      /\ NoSelfWait'
  <2>1. CASE queue' = queue
    BY <1>1, <2>1 DEF LockInv, TypeOK, Once, NoSelfWait, CallsOf
  <2>2. CASE \E a \in Tasks : StartTask(a)
    BY <1>1, <2>2, StartTaskLock
  <2> QED BY <1>1, <2>1, <2>2
<1>3. OneHolder'
  BY <1>1 DEF LockInv, OneHolder
<1> QED BY <1>1, <1>2, <1>3 DEF LockInv, TypeOK, Once

LEMMA BeginSetupLock ==
  ASSUME LockInv, BeginSetup
  PROVE  LockInv'
<1> DEFINE d == Call(load + 1, Setup, stored, "sent", stored)
<1>1. /\ load' = load + 1 /\ load' \in Loads /\ phase' \in Phases
      /\ owner' = Nobody /\ awaiting' = Nobody
      /\ calls' = calls \cup {d} /\ alongside' \in BOOLEAN
      /\ UNCHANGED <<stored, minted, alive, lost, queue>>
  BY TokenAssumption DEF BeginSetup, SendRefresh, cloud, LockInv, TypeOK, Loads, Phases
<1>2. d \in Calls /\ d.by = Setup
  BY <1>1, SentCall DEF LockInv
<1>3. Setup \notin Tasks
  BY TokenAssumption DEF Tasks
<1> HIDE DEF d
<1>4. OneHolder'
  BY <1>1, <1>2, <1>3 DEF LockInv, OneHolder
<1>5. NoSelfWait'
  <2> SUFFICES ASSUME NEW l \in Loads, NEW a \in Range(queue[l])
               PROVE  CallsOf(l, a)' = {}
    BY <1>1 DEF NoSelfWait, CallsOf
  <2>1. a \in Tasks /\ CallsOf(l, a) = {}
    BY DEF LockInv, TypeOK, NoSelfWait, Range
  <2> QED BY <1>1, <1>2, <1>3, <2>1 DEF CallsOf
<1> QED BY <1>1, <1>2, <1>4, <1>5 DEF LockInv, TypeOK

LEMMA UnloadLock ==
  ASSUME LockInv, Unload
  PROVE  LockInv'
<1> DEFINE q == queue[load]
           Orphan(c) == Call(c.load, Nobody, c.token, c.state, c.reply)
<1>1. /\ load \in Loads /\ load' = load /\ phase' \in Phases
      /\ calls' = Shielded(load) /\ UNCHANGED <<stored, minted, alive, lost, awaiting, alongside>>
      /\ owner' \in {owner, Nobody}
  BY DEF Unload, Goto, cloud, LockInv, TypeOK, Phases
<1>2. PICK r \in Uncancelled(q) : queue' = [queue EXCEPT ![load] = r]
  BY DEF Unload
<1>3. r \in Seq(Tasks) /\ Once(r) /\ Range(r) \subseteq Range(q)
  <2>1. q \in Seq(Tasks) /\ Once(q)
    BY <1>1 DEF LockInv, TypeOK, Once
  <2> HIDE DEF q
  <2> QED BY <2>1, WaitersCancelled
<1>4. queue'[load] = r /\ \A k \in Loads \ {load} : queue'[k] = queue[k]
  BY <1>1, <1>2 DEF LockInv, TypeOK
<1>5. queue' \in [Loads -> Seq(Tasks)] /\ \A k \in Loads : Once(queue'[k])
  BY <1>2, <1>3, <1>4 DEF LockInv, TypeOK, Once
<1>6. Nobody \notin Tasks
  BY TokenAssumption DEF Tasks
<1>7. ASSUME NEW c \in calls PROVE Orphan(c) \in Calls /\ Orphan(c).by = Nobody
  <2>1. c \in Calls
    BY DEF LockInv, TypeOK
  <2> QED BY <2>1 DEF Call, Calls
<1>8. \A d \in calls' : d \in calls \/ \E c \in calls : d = Orphan(c)
  BY <1>1 DEF Shielded, Abandoned
<1> HIDE DEF Orphan
<1>9. calls' \subseteq Calls /\ \A d \in calls' : d.by \in Tasks => d \in calls
  BY <1>6, <1>7, <1>8 DEF LockInv, TypeOK
<1>10. OneHolder'
  BY <1>9 DEF LockInv, OneHolder
<1>11. NoSelfWait'
  <2> SUFFICES ASSUME NEW k \in Loads, NEW a \in Range(queue'[k]), NEW d \in calls',
                      d.load = k, d.by = a
               PROVE  FALSE
    BY DEF NoSelfWait, CallsOf
  <2>1. a \in Range(queue[k]) /\ a \in Tasks
    <3>1. a \in Range(queue[k])
      BY <1>3, <1>4
    <3> QED BY <3>1 DEF LockInv, TypeOK, Range
  <2>2. d \in calls
    BY <1>9, <2>1
  <2> QED BY <2>1, <2>2 DEF LockInv, NoSelfWait, CallsOf
<1> QED BY <1>1, <1>5, <1>9, <1>10, <1>11 DEF LockInv, TypeOK, Once

LEMMA LifeLock ==
  ASSUME LockInv, Life
  PROVE  LockInv'
<1>1. CASE SetupTokens \/ SetupDone \/ SetupFails \/ Unloaded
  <2>1. /\ UNCHANGED <<stored, minted, alive, lost, load, queue, owner, awaiting, alongside>>
        /\ phase' \in Phases /\ calls' \subseteq calls
    BY <1>1 DEF SetupTokens, SetupDone, SetupFails, Unloaded, Goto, cloud, link, Phases
  <2>2. CallsOK'
    BY <2>1, FewerCallsLock DEF LockInv, CallsOK, TypeOK
  <2> QED BY <2>1, <2>2 DEF LockInv, TypeOK, CallsOK
<1> QED BY <1>1, BeginSetupLock, UnloadLock DEF Life

LEMMA LoginLock ==
  ASSUME LockInv, Login
  PROVE  LockInv'
<1>1. /\ UNCHANGED <<load, phase, queue, calls, owner, awaiting, alongside>>
      /\ minted' = minted + 1 /\ minted < MaxTokens /\ minted \in 1..MaxTokens
      /\ stored' = minted' /\ alive' = alive \cup {minted + 1} /\ lost' \in BOOLEAN
  BY DEF Login, entry, link, LockInv, TypeOK, Tokens
<1> minted \in Nat /\ minted' \in Tokens
  BY <1>1, TokenAssumption DEF Tokens
<1>2. ASSUME NEW k \in alive' PROVE k \in 1..minted'
  <2>1. k = minted + 1 \/ k \in 1..minted
    BY <1>1, <1>2 DEF LockInv, TypeOK
  <2> QED BY <1>1, <2>1
<1>3. OneHolder' /\ NoSelfWait'
  BY <1>1 DEF LockInv, OneHolder, NoSelfWait, CallsOf
<1> QED BY <1>1, <1>2, <1>3 DEF LockInv, TypeOK

LEMMA InitLock == Init => LockInv
<1> SUFFICES ASSUME Init PROVE LockInv
  OBVIOUS
<1> DEFINE d == Call(1, Setup, 1, "sent", 1)
<1>1. /\ stored = 1 /\ minted = 1 /\ alive = {1} /\ load = 1 /\ phase \in Phases
      /\ queue = [l \in Loads |-> <<>>] /\ calls = {d}
      /\ owner = Nobody /\ awaiting = Nobody /\ lost \in BOOLEAN /\ alongside \in BOOLEAN
  BY DEF Init, Phases
<1> 1 \in Tokens /\ 1 \in Loads
  BY TokenAssumption DEF Tokens, Loads
<1>2. d \in Calls /\ d.by = Setup
  BY <1>1 DEF Call, Calls, CallStates
<1>3. <<>> \in Seq(Tasks) /\ Once(<<>>) /\ Range(<<>>) = {}
  BY DEF Once, Ahead, Range
<1> HIDE DEF d
<1>4. queue \in [Loads -> Seq(Tasks)] /\ \A l \in Loads : queue[l] = <<>>
  BY <1>1, <1>3
<1>5. OneHolder
  BY <1>1 DEF OneHolder
<1>6. NoSelfWait
  BY <1>3, <1>4 DEF NoSelfWait
<1> QED BY <1>1, <1>2, <1>3, <1>4, <1>5, <1>6 DEF LockInv, TypeOK, Once

LEMMA NextLock ==
  ASSUME LockInv, [Next]_vars
  PROVE  LockInv'
<1>1. CASE \E c \in calls : Exchange(c)
  BY <1>1, CloudStepLock, PersistLock DEF Exchange
<1>2. CASE \E l \in Loads, a \in Tasks : UserStep(l, a)
  BY <1>2, RefreshLock, EndTaskLock DEF UserStep
<1>3. CASE Rest \/ UNCHANGED vars
  <2>1. UNCHANGED <<stored, minted, alive, lost, load, phase, queue, calls, owner, awaiting,
                    alongside>>
    BY <1>3 DEF Rest, vars, cloud, entry, link
  <2>2. OneHolder' /\ NoSelfWait'
    BY <2>1 DEF LockInv, OneHolder, NoSelfWait, CallsOf
  <2> QED BY <2>1, <2>2 DEF LockInv, TypeOK
<1> QED BY <1>1, <1>2, <1>3, StartLock, LifeLock, LoginLock DEF Next

THEOREM LockInvariant == Spec => []LockInv
BY InitLock, NextLock, PTL DEF Spec

(* Every variable has its type and no task is in the queue of a lock twice  *)
(* (TypeOK is the safety part of LockServed).                               *)
THEOREM TokenTypes == Spec => []TypeOK
<1>1. LockInv => TypeOK
  BY DEF LockInv
<1> QED BY <1>1, LockInvariant, PTL

(* Of the tasks of one coordinator, one at a time has a refresh under way:  *)
(* what _token_lock is for (coordinator.py:1362 and 1495).                  *)
THEOREM LockExcludes == Spec => []OneHolder
<1>1. LockInv => OneHolder
  BY DEF LockInv
<1> QED BY <1>1, LockInvariant, PTL

============================================================================
