---------------------------- MODULE SettingsProofs ----------------------------
(***************************************************************************)
(* Theorems about Settings, for any sessions and values.  If forms of one  *)
(* subject do not overlap, then what a form has loaded of its subject is   *)
(* what the row holds: from that, no form is lost and what belongs         *)
(* together is stored together.                                            *)
(***************************************************************************)
EXTENDS Settings, TLAPS

USE ConstantsAssumption

Together(r) ==
    /\ r.ssl => r.global # None
    /\ r.user = r.token
    /\ r.token = None => r.chat = None /\ r.proxy = None

\* What a form asks for belongs together, as far as the form is about it, and leaves what
\* it does not assign as it was loaded.
Consistent(f) ==
    /\ f.kind = "proxy" => (f.ask.ssl => f.ask.global # None)
    /\ f.kind = "telegram" => f.ask.token # None /\ f.ask.user = f.ask.token
    /\ f.kind = "remove" => /\ f.ask.token = None /\ f.ask.user = None
                            /\ f.ask.chat = None /\ f.ask.proxy = None
    /\ f.kind = "detect" => f.ask.token # None /\ f.ask.token = f.old.token

Current(s) == \A c \in About(form[s].kind) : form[s].old[c] = row[c]

Busy(s) == form[s].at # "idle" => form[s].kind \in Forms[s] /\ Consistent(form[s]) /\ Current(s)

IInv == TypeOK /\ row = asked /\ Together(row) /\ \A s \in Session : Busy(s)

-----------------------------------------------------------------------------
(* Lemmas about rows and columns.                                          *)

\* Columns of one row in the place of those of another make a row.
LEMMA Mixed ==
    ASSUME NEW r \in Row, NEW q \in Row, NEW C
    PROVE  [c \in Column |-> IF c \in C THEN q[c] ELSE r[c]] \in Row
<1> DEFINE m == [c \in Column |-> IF c \in C THEN q[c] ELSE r[c]]
<1>1. m = [token |-> m["token"], proxy |-> m["proxy"], user |-> m["user"], chat |-> m["chat"],
           global |-> m["global"], ssl |-> m["ssl"], hide |-> m["hide"]]
  BY DEF Column, Telegram
<1>2. /\ m["token"] \in Token \cup {None} /\ m["proxy"] \in Proxy \cup {None}
      /\ m["user"] \in Token \cup {None} /\ m["chat"] \in Chat \cup {None}
      /\ m["global"] \in Proxy \cup {None} /\ m["ssl"] \in BOOLEAN /\ m["hide"] \in BOOLEAN
  BY DEF Column, Telegram, Row
<1> HIDE DEF m
<1>3. m \in Row
  BY <1>1, <1>2 DEF Row
<1> QED
  BY <1>3 DEF m

\* Every kind of form assigns columns it is about.
LEMMA AssignedAbout ==
    ASSUME NEW k \in Kind
    PROVE  Assigned(k) \subseteq About(k) /\ About(k) \subseteq Column
  BY DEF Kind, Assigned, About, Telegram, Column

\* The default row is a row, and what belongs together in it does.
LEMMA DefaultsRow == Defaults \in Row /\ Together(Defaults)
  BY DEF Defaults, Row, Together

-----------------------------------------------------------------------------
(* Types.                                                                  *)

LEMMA InitTypes == Init => TypeOK
<1> SUFFICES ASSUME Init PROVE TypeOK
  OBVIOUS
<1>1. Idle \in FormState /\ Idle.at = "idle"
  BY DefaultsRow DEF Idle, FormState, Kind
<1>2. form \in [Session -> FormState] /\ \A s \in Session : form[s].at = "idle"
  BY <1>1 DEF Init
<1>3. Defaults \in Row
  BY DefaultsRow
<1>4. stored \in BOOLEAN /\ row \in Row /\ asked \in Row
  BY <1>3 DEF Init
<1>5. posts \in 0..MaxPosts
  BY DEF Init
<1> QED
  BY <1>2, <1>4, <1>5 DEF TypeOK

LEMMA PostTypes ==
    ASSUME TypeOK, NEW s \in Session, NEW kind \in Kind, NEW at \in {"telegram", "save"},
           NEW ask \in Row, at = "telegram" => ask.token # None, Post(s, kind, at, ask)
    PROVE  TypeOK'
<1> DEFINE f == [at |-> at, kind |-> kind, adds |-> ~stored, old |-> row, ask |-> ask]
<1>1. f \in FormState
  BY DEF TypeOK, FormState
<1>2. f.at = "telegram" => f.ask.token # None
  OBVIOUS
<1>3. form' = [form EXCEPT ![s] = f] /\ posts' \in 0..MaxPosts
      /\ stored' = stored /\ row' = row /\ asked' = asked
  BY DEF Post, TypeOK
<1> HIDE DEF f
<1> QED
  BY <1>1, <1>2, <1>3 DEF TypeOK

\* A row that is asked for is a row, whatever form asks for it.
LEMMA AskRow ==
    ASSUME NEW r \in Row, NEW t \in Token \cup {None}, NEW p \in Proxy \cup {None},
           NEW c \in Chat \cup {None}, NEW b \in BOOLEAN
    PROVE  /\ [r EXCEPT !.hide = b] \in Row
           /\ [r EXCEPT !.global = p, !.ssl = b] \in Row
           /\ [r EXCEPT !.token = t, !.proxy = p, !.user = t, !.chat = c] \in Row
           /\ [r EXCEPT !.chat = c] \in Row
  BY DEF Row

\* What a form may be posted as, in one place.
Posting(s) == \E kind \in Kind, at \in {"telegram", "save"}, ask \in Row :
    /\ at = "telegram" => ask.token # None
    /\ Consistent([at |-> at, kind |-> kind, adds |-> ~stored, old |-> row, ask |-> ask])
    /\ Post(s, kind, at, ask)

LEMMA PostingCase ==
    ASSUME NEW s, NEW kind \in Kind, NEW at \in {"telegram", "save"}, NEW ask \in Row,
           at = "telegram" => ask.token # None,
           Consistent([at |-> at, kind |-> kind, adds |-> ~stored, old |-> row, ask |-> ask]),
           Post(s, kind, at, ask)
    PROVE  Posting(s)
  BY Zenon DEF Posting

Posted(s) ==
    \/ Page(s) \/ RemoveBot(s) \/ DetectAdmin(s)
    \/ \E b \in BOOLEAN : Preferences(s, b)
    \/ \E p \in Proxy \cup {None}, b \in BOOLEAN : GlobalProxy(s, p, b)
    \/ \E t \in Token \cup {None}, c \in Chat \cup {None}, p \in Proxy \cup {None},
          b \in BOOLEAN : Bot(s, t, c, p, b)

LEMMA PostedPosting ==
    ASSUME TypeOK, NEW s \in Session, Posted(s)
    PROVE  Posting(s)
<1>0. row \in Row
  BY DEF TypeOK
<1> USE DEF Consistent
<1>1. CASE Page(s)
  BY <1>0, <1>1, PostingCase DEF Page, Kind
<1>2. CASE RemoveBot(s)
  <2> DEFINE ask == [row EXCEPT !.token = None, !.proxy = None, !.user = None, !.chat = None]
  <2>1. ask \in Row /\ ask.token = None /\ ask.user = None /\ ask.chat = None /\ ask.proxy = None
    <3>1. ask \in Row
      BY <1>0, AskRow
    <3>2. ask.token = None /\ ask.user = None /\ ask.chat = None /\ ask.proxy = None
      BY <1>0 DEF Row
    <3> QED
      BY <3>1, <3>2
  <2>2. Post(s, "remove", "save", ask)
    BY <1>2 DEF RemoveBot
  <2> HIDE DEF ask
  <2> QED
    BY <2>1, <2>2, PostingCase DEF Kind
<1>3. CASE DetectAdmin(s)
  <2>1. row.token # None /\ Post(s, "detect", "telegram", row)
    BY <1>3 DEF DetectAdmin
  <2> QED
    BY <1>0, <2>1, PostingCase DEF Kind
<1>4. ASSUME NEW b \in BOOLEAN, Preferences(s, b) PROVE Posting(s)
  <2> DEFINE ask == [row EXCEPT !.hide = b]
  <2>1. ask \in Row /\ Post(s, "preferences", "save", ask)
    BY <1>0, <1>4, AskRow DEF Preferences
  <2> HIDE DEF ask
  <2> QED
    BY <2>1, PostingCase DEF Kind
<1>5. ASSUME NEW p \in Proxy \cup {None}, NEW b \in BOOLEAN, GlobalProxy(s, p, b)
      PROVE  Posting(s)
  <2> DEFINE both == b /\ p # None
             ask == [row EXCEPT !.global = p, !.ssl = both]
  <2>1. both \in BOOLEAN /\ (both => p # None)
    OBVIOUS
  <2>2. Post(s, "proxy", "save", ask)
    BY <1>5 DEF GlobalProxy
  <2> HIDE DEF both
  <2>3. ask \in Row
    BY <1>0, <2>1, AskRow
  <2>4. ask.global = p /\ ask.ssl = both
    BY <1>0 DEF Row
  <2> HIDE DEF ask
  <2> QED
    BY <2>1, <2>2, <2>3, <2>4, PostingCase DEF Kind
<1>6. ASSUME NEW t \in Token \cup {None}, NEW c \in Chat \cup {None},
             NEW p \in Proxy \cup {None}, NEW b \in BOOLEAN, Bot(s, t, c, p, b)
      PROVE  Posting(s)
  <2> DEFINE effective == IF t # None THEN t ELSE row.token
             specific == IF b THEN None ELSE IF p # None THEN p ELSE row.proxy
             ask == [row EXCEPT !.token = effective, !.proxy = specific,
                                !.user = effective, !.chat = c]
  <2>1. effective \in Token \cup {None} /\ specific \in Proxy \cup {None}
    BY <1>0 DEF Row
  <2>2. effective # None /\ Post(s, "telegram", "telegram", ask)
    BY <1>6 DEF Bot
  <2> HIDE DEF effective, specific
  <2>3. ask \in Row
    BY <1>0, <2>1, AskRow
  <2>4. ask.token = effective /\ ask.user = effective
    BY <1>0 DEF Row
  <2> HIDE DEF ask
  <2> QED
    BY <2>2, <2>3, <2>4, PostingCase DEF Kind
<1> QED
  BY <1>1, <1>2, <1>3, <1>4, <1>5, <1>6 DEF Posted

\* The steps, grouped: a form is posted, answered, saved or given up.
Step(s) ==
    Posting(s) \/ (\E c \in Chat : Answered(s, c)) \/ Save(s) \/ GiveUp(s)

LEMMA NextSteps ==
    ASSUME TypeOK, Next
    PROVE  \E s \in Session : Step(s)
<1>1. PICK s \in Session : Posted(s) \/ (\E c \in Chat : Answered(s, c)) \/ Save(s) \/ GiveUp(s)
  BY Zenon DEF Next, Posted
<1> QED
  BY <1>1, PostedPosting, Zenon DEF Step

\* An answer changes the chat of the form that waits for it, and only of a detection.
LEMMA AnsweredForm ==
    ASSUME TypeOK, NEW s \in Session, NEW c \in Chat, Answered(s, c)
    PROVE  /\ form' = [form EXCEPT ![s] = [form[s] EXCEPT !.at = "save", !.ask.chat =
                          IF form[s].kind = "detect" THEN c ELSE form[s].ask.chat]]
           /\ row' = row /\ asked' = asked
<1>1. form' = [form EXCEPT ![s] = [form[s] EXCEPT !.at = "save", !.ask.chat =
                 IF form[s].kind = "detect" THEN c ELSE form[s].ask.chat]]
  BY DEF Answered, TypeOK
<1>2. row' = row /\ asked' = asked
  BY DEF Answered
<1> QED
  BY <1>1, <1>2

LEMMA AnsweredTypes ==
    ASSUME TypeOK, NEW s \in Session, NEW c \in Chat, Answered(s, c)
    PROVE  TypeOK'
<1> DEFINE f == form[s]
           chat == IF f.kind = "detect" THEN c ELSE f.ask.chat
           g == [f EXCEPT !.at = "save", !.ask.chat = chat]
<1>1. f \in FormState /\ f.ask \in Row /\ chat \in Chat \cup {None}
  BY DEF TypeOK, FormState, Row
<1>2. form' = [form EXCEPT ![s] = g]
  BY AnsweredForm
<1>3. [f.ask EXCEPT !.chat = chat] \in Row
  BY <1>1 DEF Row
<1>4. g \in FormState /\ g.at = "save"
  BY <1>1, <1>3 DEF FormState
<1> HIDE DEF g
<1> QED
  BY <1>2, <1>4 DEF TypeOK, Answered

LEMMA SaveTypes ==
    ASSUME TypeOK, NEW s \in Session, Save(s)
    PROVE  TypeOK'
<1>1. form[s] \in FormState /\ form[s].ask \in Row /\ row \in Row /\ asked \in Row
  BY DEF TypeOK, FormState
<1>2. row' \in Row /\ asked' \in Row
  BY <1>1, Mixed DEF Save
<1>3. Idle \in FormState /\ Idle.at = "idle"
  BY DefaultsRow DEF Idle, FormState, Kind
<1> QED
  BY <1>2, <1>3 DEF TypeOK, Save

LEMMA GiveUpTypes ==
    ASSUME TypeOK, NEW s \in Session, GiveUp(s)
    PROVE  TypeOK'
<1>1. Idle \in FormState /\ Idle.at = "idle"
  BY DefaultsRow DEF Idle, FormState, Kind
<1> QED
  BY <1>1 DEF TypeOK, GiveUp

LEMMA TypesNext == TypeOK /\ [Next]_vars => TypeOK'
<1> SUFFICES ASSUME TypeOK, [Next]_vars PROVE TypeOK'
  OBVIOUS
<1>1. CASE UNCHANGED vars
  BY <1>1 DEF TypeOK, vars
<1>2. CASE Next
  <2>1. PICK s \in Session : Step(s)
    BY <1>2, NextSteps
  <2>2. CASE Posting(s)
    <3>1. PICK kind \in Kind, at \in {"telegram", "save"}, ask \in Row :
            (at = "telegram" => ask.token # None) /\ Post(s, kind, at, ask)
      BY <2>2, Zenon DEF Posting
    <3> QED
      BY <3>1, PostTypes
  <2>3. ASSUME NEW c \in Chat, Answered(s, c) PROVE TypeOK'
    BY <2>3, AnsweredTypes
  <2>4. CASE Save(s)
    BY <2>4, SaveTypes
  <2>5. CASE GiveUp(s)
    BY <2>5, GiveUpTypes
  <2> QED
    BY <2>1, <2>2, <2>3, <2>4, <2>5, Zenon DEF Step
<1> QED
  BY <1>1, <1>2

\* For any sessions, overlapping or not, the state keeps its type, and a request that asks
\* Telegram has a token to ask with.
THEOREM TypeCorrect == Spec => []TypeOK
  BY InitTypes, TypesNext, PTL DEF Spec

-----------------------------------------------------------------------------
(* The invariant.                                                          *)

LEMMA InitIInv == Init => IInv
<1> SUFFICES ASSUME Init PROVE IInv
  OBVIOUS
<1>1. TypeOK
  BY InitTypes
<1>2. row = asked /\ Together(row)
  BY DefaultsRow DEF Init
<1>3. \A s \in Session : form[s].at = "idle"
  BY DEF Init, Idle
<1> QED
  BY <1>1, <1>2, <1>3 DEF IInv, Busy

LEMMA PostingIInv ==
    ASSUME IInv, TypeOK', NEW s \in Session, Posting(s)
    PROVE  IInv'
<1>1. PICK kind \in Kind, at \in {"telegram", "save"}, ask \in Row :
        /\ Consistent([at |-> at, kind |-> kind, adds |-> ~stored, old |-> row, ask |-> ask])
        /\ Post(s, kind, at, ask)
  BY Zenon DEF Posting
<1> DEFINE f == [at |-> at, kind |-> kind, adds |-> ~stored, old |-> row, ask |-> ask]
<1>2. f.kind = kind /\ f.old = row /\ Consistent(f)
  BY <1>1
<1>3. /\ kind \in Forms[s] /\ form' = [form EXCEPT ![s] = f]
      /\ row' = row /\ asked' = asked
  BY <1>1 DEF Post
<1> HIDE DEF f
<1>4. form'[s] = f /\ \A t \in Session : t # s => form'[t] = form[t]
  BY <1>3 DEF IInv, TypeOK
<1>5. Busy(s)'
  BY <1>2, <1>3, <1>4 DEF Busy, Current
<1>6. ASSUME NEW t \in Session, t # s PROVE Busy(t)'
  BY <1>3, <1>4, <1>6 DEF IInv, Busy, Current
<1> QED
  BY <1>3, <1>5, <1>6 DEF IInv

LEMMA AnsweredIInv ==
    ASSUME IInv, TypeOK', NEW s \in Session, NEW c \in Chat, Answered(s, c)
    PROVE  IInv'
<1> DEFINE f == form[s]
           chat == IF f.kind = "detect" THEN c ELSE f.ask.chat
           g == [f EXCEPT !.at = "save", !.ask.chat = chat]
<1>1. f \in FormState /\ f.at = "telegram" /\ Busy(s)
  BY DEF IInv, TypeOK, Answered
<1>2. form' = [form EXCEPT ![s] = g] /\ row' = row /\ asked' = asked
  <2>1. TypeOK
    BY DEF IInv
  <2> QED
    BY <2>1, AnsweredForm, Zenon
<1>3. /\ g.kind = f.kind /\ g.old = f.old /\ g.ask = [f.ask EXCEPT !.chat = chat]
  BY <1>1 DEF FormState
<1>4. f.ask \in Row
  BY <1>1 DEF FormState
<1>5. /\ g.ask.token = f.ask.token /\ g.ask.user = f.ask.user /\ g.ask.proxy = f.ask.proxy
      /\ g.ask.ssl = f.ask.ssl /\ g.ask.global = f.ask.global
      /\ (f.kind # "detect" => g.ask.chat = f.ask.chat)
  BY <1>3, <1>4 DEF Row
<1>6. Consistent(g) /\ f.kind \in Forms[s]
  BY <1>1, <1>3, <1>5 DEF Busy, Consistent
<1> HIDE DEF g
<1>7. form'[s] = g /\ \A t \in Session : t # s => form'[t] = form[t]
  BY <1>2 DEF IInv, TypeOK
<1>8. Busy(s)'
  BY <1>1, <1>2, <1>3, <1>6, <1>7 DEF Busy, Current
<1>9. ASSUME NEW t \in Session, t # s PROVE Busy(t)'
  BY <1>2, <1>7, <1>9 DEF IInv, Busy, Current
<1> QED
  BY <1>2, <1>8, <1>9 DEF IInv

\* What a saved form assigns is in the row afterwards, whether it was written or the same.
LEMMA SaveAssigns ==
    ASSUME IInv, NEW s \in Session, Save(s)
    PROVE  /\ row' \in Row /\ asked' = row'
           /\ \A c \in Column : row'[c] = IF c \in Assigned(form[s].kind) THEN form[s].ask[c]
                                                                        ELSE row[c]
<1> DEFINE f == form[s]
           written == Written(f.kind, f.old, f.ask)
<1>1. /\ f.kind \in Kind /\ f.ask \in Row /\ row \in Row /\ asked = row
      /\ f.at = "save" /\ Busy(s)
  BY DEF IInv, TypeOK, FormState, Save
<1>2. row' = [c \in Column |-> IF c \in written THEN f.ask[c] ELSE row[c]]
  BY DEF Save
<1>3. asked' = [c \in Column |-> IF c \in Assigned(f.kind) THEN f.ask[c] ELSE asked[c]]
  BY DEF Save
<1>4. row' \in Row
  BY <1>1, <1>2, Mixed
<1>5. ASSUME NEW c \in Column
      PROVE  row'[c] = IF c \in Assigned(f.kind) THEN f.ask[c] ELSE row[c]
  <2>1. CASE c \notin Assigned(f.kind)
    BY <1>2, <2>1 DEF Written
  <2>2. CASE c \in written
    BY <1>2, <2>2 DEF Written
  <2>3. CASE c \in Assigned(f.kind) /\ c \notin written
    <3>1. f.ask[c] = f.old[c]
      BY <2>3 DEF Written
    <3>2. f.old[c] = row[c]
      BY <1>1, <2>3, AssignedAbout DEF Busy, Current
    <3> QED
      BY <1>2, <2>3, <3>1, <3>2
  <2> QED
    BY <2>1, <2>2, <2>3
<1>6. row' = [c \in Column |-> IF c \in Assigned(f.kind) THEN f.ask[c] ELSE row[c]]
  BY <1>2, <1>5
<1>7. asked' = row'
  BY <1>1, <1>3, <1>6
<1> QED
  BY <1>4, <1>5, <1>7

\* A saved form keeps together what belongs together.
LEMMA SaveTogether ==
    ASSUME IInv, NEW s \in Session, Save(s)
    PROVE  Together(row)'
<1> DEFINE f == form[s]
<1>1. f.kind \in Kind /\ Consistent(f) /\ Current(s) /\ Together(row) /\ row \in Row
  BY DEF IInv, TypeOK, FormState, Save, Busy
<1>2. \A c \in Column : row'[c] = IF c \in Assigned(f.kind) THEN f.ask[c] ELSE row[c]
  BY SaveAssigns
<1>3. /\ row'.token = IF "token" \in Assigned(f.kind) THEN f.ask.token ELSE row.token
      /\ row'.proxy = IF "proxy" \in Assigned(f.kind) THEN f.ask.proxy ELSE row.proxy
      /\ row'.user = IF "user" \in Assigned(f.kind) THEN f.ask.user ELSE row.user
      /\ row'.chat = IF "chat" \in Assigned(f.kind) THEN f.ask.chat ELSE row.chat
      /\ row'.global = IF "global" \in Assigned(f.kind) THEN f.ask.global ELSE row.global
      /\ row'.ssl = IF "ssl" \in Assigned(f.kind) THEN f.ask.ssl ELSE row.ssl
  BY <1>2 DEF Column, Telegram
<1>4. CASE f.kind \in {"page", "preferences"}
  BY <1>1, <1>3, <1>4 DEF Assigned, Together
<1>5. CASE f.kind = "proxy"
  BY <1>1, <1>3, <1>5 DEF Assigned, Together, Consistent
<1>6. CASE f.kind = "telegram"
  BY <1>1, <1>3, <1>6 DEF Assigned, Together, Consistent, Telegram
<1>7. CASE f.kind = "remove"
  BY <1>1, <1>3, <1>7 DEF Assigned, Together, Consistent, Telegram
<1>8. CASE f.kind = "detect"
  <2>1. f.ask.token = row.token /\ row.token # None
    BY <1>1, <1>8 DEF Consistent, Current, About, Telegram
  <2> QED
    BY <1>1, <1>3, <1>8, <2>1 DEF Assigned, Together
<1> QED
  BY <1>1, <1>4, <1>5, <1>6, <1>7, <1>8 DEF Kind

LEMMA SaveIInv ==
    ASSUME SubjectsApart, IInv, TypeOK', NEW s \in Session, Save(s)
    PROVE  IInv'
<1>1. row' = asked' /\ Together(row)'
  BY SaveAssigns, SaveTogether
<1>2. form' = [form EXCEPT ![s] = Idle] /\ Idle.at = "idle"
  BY DEF Save, Idle
<1>3. form'[s] = Idle /\ \A t \in Session : t # s => form'[t] = form[t]
  BY <1>2 DEF IInv, TypeOK
<1>4. Busy(s)'
  BY <1>2, <1>3 DEF Busy
<1>5. ASSUME NEW t \in Session, t # s, form[t].at # "idle" PROVE Current(t)'
  <2> SUFFICES ASSUME NEW c \in About(form[t].kind) PROVE form[t].old[c] = row'[c]
    BY <1>3, <1>5 DEF Current
  <2>1. /\ form[t].kind \in Kind /\ form[t].kind \in Forms[t] /\ Current(t)
        /\ form[s].kind \in Kind /\ form[s].kind \in Forms[s]
    BY <1>5 DEF IInv, TypeOK, FormState, Busy, Save
  <2>2. About(form[s].kind) \cap About(form[t].kind) = {}
    BY <1>5, <2>1 DEF SubjectsApart
  <2>3. c \in Column /\ c \notin Assigned(form[s].kind)
    BY <2>1, <2>2, AssignedAbout
  <2>4. row'[c] = row[c]
    BY <2>3, SaveAssigns
  <2> QED
    BY <2>1, <2>4 DEF Current
<1>6. ASSUME NEW t \in Session, t # s PROVE Busy(t)'
  BY <1>3, <1>5, <1>6 DEF IInv, Busy
<1> QED
  BY <1>1, <1>4, <1>6 DEF IInv

LEMMA GiveUpIInv ==
    ASSUME IInv, TypeOK', NEW s \in Session, GiveUp(s)
    PROVE  IInv'
<1>1. /\ form' = [form EXCEPT ![s] = Idle] /\ Idle.at = "idle"
      /\ row' = row /\ asked' = asked
  BY DEF GiveUp, Idle
<1>2. form'[s] = Idle /\ \A t \in Session : t # s => form'[t] = form[t]
  BY <1>1 DEF IInv, TypeOK
<1>3. ASSUME NEW t \in Session PROVE Busy(t)'
  BY <1>1, <1>2 DEF IInv, Busy, Current
<1> QED
  BY <1>1, <1>3 DEF IInv

LEMMA NextIInv == SubjectsApart => (IInv /\ [Next]_vars => IInv')
<1> SUFFICES ASSUME SubjectsApart, IInv, [Next]_vars PROVE IInv'
  OBVIOUS
<1>1. TypeOK /\ TypeOK'
  BY TypesNext DEF IInv
<1>2. CASE UNCHANGED vars
  BY <1>1, <1>2 DEF IInv, Busy, Current, vars
<1>3. CASE Next
  <2>1. PICK s \in Session : Step(s)
    BY <1>1, <1>3, NextSteps
  <2>2. ASSUME NEW c \in Chat, Answered(s, c) PROVE IInv'
    BY <1>1, <2>2, AnsweredIInv
  <2>3. CASE Posting(s)
    BY <1>1, <2>3, PostingIInv
  <2>4. CASE Save(s)
    BY <1>1, <2>4, SaveIInv
  <2>5. CASE GiveUp(s)
    BY <1>1, <2>5, GiveUpIInv
  <2> QED
    BY <2>1, <2>2, <2>3, <2>4, <2>5, Zenon DEF Step
<1> QED
  BY <1>2, <1>3

LEMMA Inductive == SubjectsApart => (Spec => []IInv)
<1> SUFFICES ASSUME SubjectsApart PROVE Spec => []IInv
  OBVIOUS
<1>1. IInv /\ [Next]_vars => IInv'
  BY NextIInv
<1> QED
  BY InitIInv, <1>1, PTL DEF Spec

\* If forms of one subject do not overlap, every column holds what the last form saved
\* about it asked for: writing only changed columns loses no other form's.
THEOREM FormsApartLoseNothing == SubjectsApart => (Spec => []LastSavedStands)
<1>1. IInv => LastSavedStands
  BY DEF IInv, LastSavedStands
<1> QED
  BY Inductive, <1>1, PTL

\* If forms of one subject do not overlap, the proxy of the SSL checks, the bot's name, its
\* chat and its proxy are stored only with what they belong to.
THEOREM FormsApartStoreTogether == SubjectsApart => (Spec => []BelongsTogether)
<1>1. IInv => BelongsTogether
  BY DEF IInv, Together, BelongsTogether
<1> QED
  BY Inductive, <1>1, PTL

=============================================================================
