------------------------------- MODULE Settings -------------------------------
(***************************************************************************)
(* The one row of application settings and the forms of the settings page  *)
(* (app/routes.py): each loads the row, which the first one inserts, some  *)
(* ask Telegram, and then write the columns they have changed, in sessions *)
(* of their own that may overlap.                                          *)
(***************************************************************************)
EXTENDS Integers

CONSTANTS
    Session,   \* requests that can be under way
    Forms,     \* the forms each of them may post
    Token, Chat, Proxy,
    None,      \* an empty column or field
    MaxPosts   \* bound on posted forms

Kind == {"page", "preferences", "proxy", "telegram", "remove", "detect"}

ASSUME ConstantsAssumption ==
    /\ Forms \in [Session -> SUBSET Kind]
    /\ MaxPosts \in Nat

VARIABLES
    stored, \* the row exists
    row,
    form,   \* the form each session works on
    posts,
    asked   \* history: of each column, what the last form to be saved asked for

vars == <<stored, row, form, posts, asked>>

-----------------------------------------------------------------------------
Telegram == {"token", "proxy", "user", "chat"}
Column == Telegram \cup {"global", "ssl", "hide"}

\* proxy is Telegram's own, global everybody's, ssl whether SSL checks use that one; user
\* is the name of a bot, known by the bot's token.
Row == [token : Token \cup {None}, proxy : Proxy \cup {None}, user : Token \cup {None},
        chat : Chat \cup {None}, global : Proxy \cup {None}, ssl : BOOLEAN, hide : BOOLEAN]
Defaults == [token |-> None, proxy |-> None, user |-> None, chat |-> None,
             global |-> None, ssl |-> FALSE, hide |-> FALSE]

\* The columns a form assigns, and those it depends on.
Assigned(kind) ==
    CASE kind = "page" -> {} [] kind = "preferences" -> {"hide"}
      [] kind = "proxy" -> {"global", "ssl"} [] kind = "detect" -> {"chat"}
      [] kind \in {"telegram", "remove"} -> Telegram

About(kind) == IF kind = "detect" THEN Telegram ELSE Assigned(kind)

\* Encryption never gives the same text twice, so that these columns always differ.
Encrypted == {"token", "proxy", "global"}

\* Variant: the whole object is written back.
WrittenWhole(kind, old, ask) == IF kind = "page" THEN {} ELSE Column

\* The columns of the UPDATE: those assigned a value other than the loaded one.
Written(kind, old, ask) ==
    {c \in Assigned(kind) : ask[c] # old[c] \/ (c \in Encrypted /\ ask[c] # None)}

Idle == [at |-> "idle", kind |-> "page", adds |-> FALSE, old |-> Defaults, ask |-> Defaults]
FormState == [at : {"idle", "telegram", "save"}, kind : Kind, adds : BOOLEAN, old : Row, ask : Row]

Init ==
    /\ stored = FALSE /\ row = Defaults
    /\ form = [s \in Session |-> Idle]
    /\ posts = 0
    /\ asked = Defaults

-----------------------------------------------------------------------------
(* Posting a form: the row is loaded, or inserted but not yet committed.   *)

Post(s, kind, at, ask) ==
    /\ form[s].at = "idle" /\ kind \in Forms[s]
    /\ posts < MaxPosts /\ posts' = posts + 1
    /\ form' = [form EXCEPT ![s] = [at |-> at, kind |-> kind, adds |-> ~stored,
                                    old |-> row, ask |-> ask]]
    /\ UNCHANGED <<stored, row, asked>>

Page(s) == Post(s, "page", "save", row)

Preferences(s, hide) == Post(s, "preferences", "save", [row EXCEPT !.hide = hide])

\* Variant: the SSL checks are told to use a proxy that is not there.
GlobalProxyUnchecked(s, proxy, ssl) ==
    Post(s, "proxy", "save", [row EXCEPT !.global = proxy, !.ssl = ssl])

GlobalProxy(s, proxy, ssl) ==
    Post(s, "proxy", "save", [row EXCEPT !.global = proxy, !.ssl = ssl /\ proxy # None])

\* Variant: a bot is saved without a token.
BotUnchecked(s, token, chat, proxy, clear) ==
    LET effective == IF token # None THEN token ELSE row.token
        specific == IF clear THEN None ELSE IF proxy # None THEN proxy ELSE row.proxy
    IN  Post(s, "telegram", "telegram", [row EXCEPT !.token = effective, !.proxy = specific,
                                                    !.user = effective, !.chat = chat])

\* An empty field keeps the stored token or proxy; without a token there is nothing to do.
Bot(s, token, chat, proxy, clear) ==
    LET effective == IF token # None THEN token ELSE row.token
        specific == IF clear THEN None ELSE IF proxy # None THEN proxy ELSE row.proxy
    IN  /\ effective # None
        /\ Post(s, "telegram", "telegram", [row EXCEPT !.token = effective, !.proxy = specific,
                                                       !.user = effective, !.chat = chat])

RemoveBot(s) ==
    Post(s, "remove", "save", [row EXCEPT !.token = None, !.proxy = None,
                                          !.user = None, !.chat = None])

DetectAdmin(s) == row.token # None /\ Post(s, "detect", "telegram", row)

-----------------------------------------------------------------------------
\* getMe has the name of the bot; getUpdates has the chat that sent /start.
Answered(s, chat) ==
    /\ form[s].at = "telegram"
    /\ form' = [form EXCEPT ![s].at = "save",
                            ![s].ask.chat = IF form[s].kind = "detect" THEN chat ELSE @]
    /\ UNCHANGED <<stored, row, posts, asked>>

\* Only one session can insert the row; the others' inserts are refused.
Save(s) ==
    /\ form[s].at = "save" /\ (form[s].adds => ~stored)
    /\ LET f == form[s]
           columns == Written(f.kind, f.old, f.ask)
       IN  /\ row' = [c \in Column |-> IF c \in columns THEN f.ask[c] ELSE row[c]]
           /\ asked' = [c \in Column |-> IF c \in Assigned(f.kind) THEN f.ask[c] ELSE asked[c]]
    /\ stored' = TRUE
    /\ form' = [form EXCEPT ![s] = Idle]
    /\ UNCHANGED posts

\* A proxy that is none, Telegram's refusal or silence, nobody who sent /start, an insert
\* that is refused, or a locked database: nothing is written.
GiveUp(s) ==
    /\ form[s].at # "idle"
    /\ form' = [form EXCEPT ![s] = Idle]
    /\ UNCHANGED <<stored, row, posts, asked>>

-----------------------------------------------------------------------------
Next == \E s \in Session :
    \/ Page(s) \/ RemoveBot(s) \/ DetectAdmin(s) \/ Save(s) \/ GiveUp(s)
    \/ \E b \in BOOLEAN : Preferences(s, b)
    \/ \E p \in Proxy \cup {None}, b \in BOOLEAN : GlobalProxy(s, p, b)
    \/ \E t \in Token \cup {None}, c \in Chat \cup {None}, p \in Proxy \cup {None},
          b \in BOOLEAN : Bot(s, t, c, p, b)
    \/ \E c \in Chat : Answered(s, c)

Spec == Init /\ [][Next]_vars

-----------------------------------------------------------------------------
(* Properties.                                                             *)

\* Every variable keeps its type; whatever asks Telegram has a bot to ask about.
TypeOK ==
    /\ stored \in BOOLEAN /\ row \in Row /\ asked \in Row
    /\ form \in [Session -> FormState] /\ posts \in 0..MaxPosts
    /\ \A s \in Session : form[s].at = "telegram" => form[s].ask.token # None

\* Forms of one subject do not overlap; forms of different subjects may.
SubjectsApart ==
    \A s, t \in Session : s # t =>
      \A k \in Forms[s], l \in Forms[t] : About(k) \cap About(l) = {}

\* No form is lost: every column holds what the last form saved about it asked for, although
\* others that had loaded the row before were saved in between.  Needs SubjectsApart.
LastSavedStands == row = asked

\* What belongs together is stored together: SSL checks are sent through the global proxy
\* only if there is one, the name is that of the stored token, and without a bot there is
\* neither a chat nor a proxy for it.  Needs SubjectsApart.
BelongsTogether ==
    /\ row.ssl => row.global # None
    /\ row.user = row.token
    /\ row.token = None => row.chat = None /\ row.proxy = None

=============================================================================
