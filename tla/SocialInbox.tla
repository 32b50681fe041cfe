----------------------------- MODULE SocialInbox ----------------------------
(***************************************************************************)
(* Connected social accounts, the comments delivered from them and the     *)
(* actions moderators take on the platform (app/services/social_service.py,*)
(* social_actions.py, app/repositories/social.py).  Handlers of accounts   *)
(* await nothing between their first query and their commit: one process   *)
(* runs each in one step.  Deliveries await moderation, and actions the    *)
(* platform: these are modelled up to the wait and after it.               *)
(***************************************************************************)
EXTENDS SequencesExt, FiniteSetsExt

CONSTANTS
    Comments,   \* external_event_id of a comment
    Supported,  \* those on a platform with an API: instagram, facebook
    NoComment,  \* external_event_id is NULL
    Accounts,   \* ids of rows of connected_accounts, generated by the service
    NoAccount,  \* connected_account_id is NULL
    Profiles,   \* provider_account_id of an account on its platform
    Deliveries, \* webhook calls, each with the id its event would get
    Calls,      \* action calls of moderators, each handled once
    NoCall,     \* local values of a call that is not in progress
    NoEvent     \* a delivery with no event in hand

ASSUME SocialAssumption ==
    /\ Supported \subseteq Comments
    /\ NoComment \notin Comments /\ NoAccount \notin Accounts
    /\ Profiles \cap Accounts = {}

Tokens == {"none", "access_token", "oauth_token"}

\* _has_auth_credentials
Authenticated(token) == IF token # "none" THEN "connected" ELSE "pending_auth"

ACTION_STATUS_MAP ==
    [hide |-> "hidden", delete |-> "deleted", allow |-> "allowed",
     block_user |-> "blocked_user", mark_reviewed |-> "reviewed"]

ActionTypes == DOMAIN ACTION_STATUS_MAP

EventStatuses == {"open"} \cup {ACTION_STATUS_MAP[type] : type \in ActionTypes}
Results == {"completed", "recorded", "failed"}

VARIABLES
    accounts,  \* id -> row of connected_accounts
    removed,   \* history: rows that were removed and not connected themselves since
    events,    \* id -> row of social_events
    actions,   \* id of an event -> its rows of social_actions, oldest first
    platform,  \* the comments as the platform shows them
    delivery,  \* how far each delivery is
    draft,     \* the event it is going to store
    stage,     \* how far each action call is
    call,      \* its local values
    wire,      \* its request to the platform
    contested, \* history: comments with actions that overlapped or lost an answer
    alone      \* history: calls that none has overlapped

inbox == <<delivery, draft>>
calls == <<stage, call, wire, contested, alone>>
vars  == <<accounts, removed, events, actions, platform, inbox, calls>>

\* "deleted:<id>", the provider_account_id of a removed row: another one for each
\* row and none of a platform's own, so that the id itself may stand for it.
Deleted(a) == a

Account == [profile : Profiles \cup Accounts, token : Tokens,
            status : {"connected", "pending_auth", "disconnected", "deleted"}]

Event == [comment : Comments \cup {NoComment}, account : Accounts \cup {NoAccount},
          status : EventStatuses]

Call == [event : Deliveries, type : ActionTypes, loaded : EventStatuses,
         result : Results \cup {"none"}]

ASSUME NullsAssumption == NoCall \notin Call /\ NoEvent \notin Event

TypeOK ==
    /\ DOMAIN accounts \subseteq Accounts
    /\ \A a \in DOMAIN accounts : accounts[a] \in Account
    /\ removed \subseteq DOMAIN accounts
    /\ DOMAIN events \subseteq Deliveries /\ DOMAIN actions = DOMAIN events
    /\ \A e \in DOMAIN events :
          /\ events[e] \in Event
          /\ actions[e] \in Seq([type : ActionTypes, status : Results])
    /\ platform \in [Comments -> {"visible", "hidden", "gone"}]
    /\ delivery \in [Deliveries -> {"new", "moderating", "moderated", "over"}]
    /\ draft \in [Deliveries -> Event \cup {NoEvent}]
    /\ stage \in [Calls -> {"new", "awaiting", "answered", "over"}]
    /\ call \in [Calls -> Call \cup {NoCall}]
    /\ wire \in [Calls -> {"none", "sent", "applied", "refused", "lost"}]
    /\ contested \subseteq Comments \cup {NoComment}
    /\ alone \subseteq Calls

Init ==
    /\ accounts = [a \in {} |-> a]
    /\ removed = {}
    /\ events = [e \in {} |-> e]
    /\ actions = [e \in {} |-> e]
    /\ platform = [m \in Comments |-> "visible"]
    /\ delivery = [d \in Deliveries |-> "new"]
    /\ draft = [d \in Deliveries |-> NoEvent]
    /\ stage = [c \in Calls |-> "new"]
    /\ call = [c \in Calls |-> NoCall]
    /\ wire = [c \in Calls |-> "none"]
    /\ contested = {}
    /\ alone = {}

Extend(f, x, y) == [z \in DOMAIN f \cup {x} |-> IF z = x THEN y ELSE f[z]]

-----------------------------------------------------------------------------
(* Accounts.                                                               *)

\* Rows that upsert_connected_account finds for a profile.
Of(profile) == {a \in DOMAIN accounts : accounts[a].profile = profile}

\* connect_account and, with the token of a page, _save_account of Meta OAuth.
\* With several rows, one_or_none raises and nothing changes.  Any value is
\* taken for a profile, that of a removed row too.
ConnectAccount(profile, token) ==
    /\ Cardinality(Of(profile)) <= 1
    /\ \E a \in IF Of(profile) = {} THEN Accounts \ DOMAIN accounts ELSE Of(profile) :
          /\ accounts' = Extend(accounts, a,
                [profile |-> profile, token |-> token, status |-> Authenticated(token)])
          /\ removed' = IF profile = Deleted(a) THEN removed \ {a} ELSE removed
    /\ UNCHANGED <<events, actions, platform, inbox, calls>>

\* Mutant: only the token the actions use is dropped.
DisconnectAccountKeepingOAuth(a) ==
    /\ accounts' = [accounts EXCEPT ![a].status = "disconnected",
                                    ![a].token = IF @ = "access_token" THEN "none" ELSE @]
    /\ UNCHANGED <<removed, events, actions, platform, inbox, calls>>

\* disconnect_account; it does not look at the status, and takes removed rows.
DisconnectAccount(a) ==
    /\ accounts' = [accounts EXCEPT ![a].status = "disconnected", ![a].token = "none"]
    /\ UNCHANGED <<removed, events, actions, platform, inbox, calls>>

\* Mutant: the row keeps its profile.
RemoveAccountKeepingProfile(a) ==
    /\ accounts' = [accounts EXCEPT ![a].status = "deleted", ![a].token = "none"]
    /\ removed' = removed \cup {a}
    /\ UNCHANGED <<events, actions, platform, inbox, calls>>

\* remove_account: the row stays, under a value that its old profile does not
\* find, but that can be connected as any other.
RemoveAccount(a) ==
    /\ accounts' = [accounts EXCEPT ![a] =
           [profile |-> Deleted(a), token |-> "none", status |-> "deleted"]]
    /\ removed' = removed \cup {a}
    /\ UNCHANGED <<events, actions, platform, inbox, calls>>

-----------------------------------------------------------------------------
(* Deliveries.                                                             *)

\* Whether ingest_event takes events of this account: 404 and 400 otherwise.
Takes(a) ==
    a # NoAccount => /\ a \in DOMAIN accounts
                     /\ accounts[a].status \notin {"disconnected", "deleted"}

\* POST of an event, again after an answer that was lost: nothing tells the
\* two apart.  A Meta-shaped webhook names no account.
Receive(d, comment, a) ==
    /\ delivery[d] = "new"
    /\ IF Takes(a)
       THEN /\ delivery' = [delivery EXCEPT ![d] = "moderating"]
            /\ draft' = [draft EXCEPT ![d] =
                  [comment |-> comment, account |-> a, status |-> "open"]]
       ELSE /\ delivery' = [delivery EXCEPT ![d] = "over"]
            /\ UNCHANGED draft
    /\ UNCHANGED <<accounts, removed, events, actions, platform, calls>>

\* Mutant: the decision itself becomes the status.
ModeratedVerbatim(d, status) ==
    /\ delivery[d] = "moderating"
    /\ delivery' = [delivery EXCEPT ![d] = "moderated"]
    /\ draft' = [draft EXCEPT ![d].status = IF status = "open" THEN "review" ELSE "allow"]
    /\ UNCHANGED <<accounts, removed, events, actions, platform, calls>>

\* moderate_text returns, its own rows committed: module Moderation.  Content
\* to review or block stays open.
Moderated(d, status) ==
    /\ delivery[d] = "moderating"
    /\ delivery' = [delivery EXCEPT ![d] = "moderated"]
    /\ draft' = [draft EXCEPT ![d].status = status]
    /\ UNCHANGED <<accounts, removed, events, actions, platform, calls>>

\* create_social_event and the commit, whatever became of the account.
StoreEvent(d) ==
    /\ delivery[d] = "moderated"
    /\ events' = Extend(events, d, draft[d])
    /\ actions' = Extend(actions, d, <<>>)
    /\ delivery' = [delivery EXCEPT ![d] = "over"]
    /\ draft' = [draft EXCEPT ![d] = NoEvent]
    /\ UNCHANGED <<accounts, removed, platform, calls>>

\* moderate_text fails, or the process dies before or after it committed.
DropDelivery(d) ==
    /\ delivery[d] \in {"moderating", "moderated"}
    /\ delivery' = [delivery EXCEPT ![d] = "over"]
    /\ draft' = [draft EXCEPT ![d] = NoEvent]
    /\ UNCHANGED <<accounts, removed, events, actions, platform, calls>>

-----------------------------------------------------------------------------
(* Actions.                                                                *)

CommentOf(c) == events[call[c].event].comment

\* Calls about a comment that are in progress, or whose request may still
\* reach the platform.
Working(comment) ==
    {c \in Calls : call[c] # NoCall /\ CommentOf(c) = comment}

HasToken(a) == a # NoAccount /\ accounts[a].token = "access_token"

\* The cases in which execute returns without a call to the platform.
LocalResult(e, type) ==
    IF \/ type \in {"mark_reviewed", "block_user"}
       \/ events[e].comment \notin Supported \cup {NoComment}
       \/ ~ HasToken(events[e].account)
    THEN "recorded"
    ELSE IF events[e].comment = NoComment THEN "failed" ELSE "none"

\* apply_action loads the event and its account, and execute answers or
\* sends its request.
Apply(c, e, type) ==
    /\ stage[c] = "new"
    /\ e \in DOMAIN events
    /\ LET local   == LocalResult(e, type)
           others  == Working(events[e].comment)
       IN  /\ call' = [call EXCEPT ![c] =
                  [event |-> e, type |-> type, loaded |-> events[e].status, result |-> local]]
           /\ stage' = [stage EXCEPT ![c] = IF local = "none" THEN "awaiting" ELSE "answered"]
           /\ wire' = [wire EXCEPT ![c] = IF local = "none" THEN "sent" ELSE "none"]
           /\ alone' = IF others = {} THEN alone \cup {c} ELSE alone \ others
           /\ contested' = IF others = {} THEN contested ELSE contested \cup {events[e].comment}
    /\ UNCHANGED <<accounts, removed, events, actions, platform, inbox>>

\* A call is forgotten when its handler has ended and its request has landed.
Forget(c, ended, landed) ==
    /\ call' = [call EXCEPT ![c] = IF ended /\ landed # "sent" THEN NoCall ELSE @]
    /\ wire' = [wire EXCEPT ![c] = IF ended /\ landed # "sent" THEN "none" ELSE landed]

\* The request reaches the platform, maybe after its caller gave up on it.
Reach(c) ==
    /\ wire[c] = "sent"
    /\ platform[CommentOf(c)] # "gone"
    /\ platform' = [platform EXCEPT ![CommentOf(c)] =
           CASE call[c].type = "hide"   -> "hidden"
             [] call[c].type = "allow"  -> "visible"
             [] call[c].type = "delete" -> "gone"]
    /\ Forget(c, stage[c] = "over", "applied")
    /\ UNCHANGED <<accounts, removed, events, actions, inbox, stage, contested, alone>>

\* The platform refuses it, or it is lost on its way.
Miss(c, how) ==
    /\ wire[c] = "sent"
    /\ Forget(c, stage[c] = "over", how)
    /\ UNCHANGED <<accounts, removed, events, actions, platform, inbox, stage, contested, alone>>

Answer(c) ==
    /\ stage[c] = "awaiting"
    /\ wire[c] \in {"applied", "refused"}
    /\ call' = [call EXCEPT ![c].result = IF wire[c] = "applied" THEN "completed" ELSE "failed"]
    /\ stage' = [stage EXCEPT ![c] = "answered"]
    /\ UNCHANGED <<accounts, removed, events, actions, platform, inbox, wire, contested, alone>>

\* Mutant: no answer in time counts as done.
TimeoutCompletes(c) ==
    /\ stage[c] = "awaiting"
    /\ call' = [call EXCEPT ![c].result = "completed"]
    /\ stage' = [stage EXCEPT ![c] = "answered"]
    /\ UNCHANGED <<accounts, removed, events, actions, platform, inbox, wire, contested, alone>>

\* The client raises: after meta_action_timeout_seconds, or a lost connection.
Timeout(c) ==
    /\ stage[c] = "awaiting"
    /\ call' = [call EXCEPT ![c].result = "failed"]
    /\ stage' = [stage EXCEPT ![c] = "answered"]
    /\ contested' = contested \cup {CommentOf(c)}
    /\ UNCHANGED <<accounts, removed, events, actions, platform, inbox, wire, alone>>

\* record_social_action and the commit.  The event is still the object that
\* apply_action loaded: a status equal to the one loaded is not written.
Record(c) ==
    /\ stage[c] = "answered"
    /\ LET next   == ACTION_STATUS_MAP[call[c].type]
           writes == call[c].result \in {"completed", "recorded"} /\ next # call[c].loaded
       IN  events' = [events EXCEPT ![call[c].event].status = IF writes THEN next ELSE @]
    /\ actions' = [actions EXCEPT ![call[c].event] =
           Append(@, [type |-> call[c].type, status |-> call[c].result])]
    /\ stage' = [stage EXCEPT ![c] = "over"]
    /\ Forget(c, TRUE, wire[c])
    /\ alone' = alone \ {c}
    /\ contested' = IF c \in alone /\ call[c].result = "completed"
                    THEN contested \ {CommentOf(c)} ELSE contested
    /\ UNCHANGED <<accounts, removed, platform, inbox>>

\* The process dies between the request and the commit.
Die(c) ==
    /\ stage[c] \in {"awaiting", "answered"}
    /\ stage' = [stage EXCEPT ![c] = "over"]
    /\ Forget(c, TRUE, wire[c])
    /\ alone' = alone \ {c}
    /\ contested' = contested \cup {CommentOf(c)}
    /\ UNCHANGED <<accounts, removed, events, actions, platform, inbox>>

\* Outside the service: the author deletes the comment; where no action reaches
\* it, that makes no difference.
Withdraw(comment) ==
    /\ platform[comment] # "gone"
    /\ platform' = [platform EXCEPT ![comment] = "gone"]
    /\ UNCHANGED <<accounts, removed, events, actions, inbox, calls>>

-----------------------------------------------------------------------------
Next ==
    \/ \E profile \in Profiles \cup {Deleted(a) : a \in DOMAIN accounts}, token \in Tokens :
          ConnectAccount(profile, token)
    \/ \E a \in DOMAIN accounts : DisconnectAccount(a) \/ RemoveAccount(a)
    \/ \E d \in Deliveries :
          \/ \E comment \in Comments \cup {NoComment}, a \in Accounts \cup {NoAccount} :
                Receive(d, comment, a)
          \/ \E status \in {"open", "allowed"} : Moderated(d, status)
          \/ StoreEvent(d)
          \/ DropDelivery(d)
    \/ \E c \in Calls :
          \/ \E e \in DOMAIN events, type \in ActionTypes : Apply(c, e, type)
          \/ Reach(c)
          \/ \E how \in {"refused", "lost"} : Miss(c, how)
          \/ Answer(c)
          \/ Timeout(c)
          \/ Record(c)
          \/ Die(c)
    \/ \E comment \in Supported : Withdraw(comment)

Spec == Init /\ [][Next]_vars

-----------------------------------------------------------------------------
(* Properties.                                                             *)

\* What a comment may look like after an action that the platform confirmed.
Shows(type) ==
    CASE type = "hide"   -> {"hidden", "gone"}
      [] type = "allow"  -> {"visible", "gone"}
      [] type = "delete" -> {"gone"}

\* The last action of an event that did not fail.
Standing(e, i) ==
    /\ actions[e][i].status # "failed"
    /\ \A j \in DOMAIN actions[e] : j > i => actions[e][j].status = "failed"

\* The inbox tells the truth: an event has the status of its last action that
\* did not fail, and if the platform confirmed that action the comment looks
\* like it.  Excepted are comments with an action in progress, those delivered
\* twice, since each delivery is an event of its own, and those whose actions
\* overlapped or went without an answer, until an undisturbed one is confirmed.
InboxAgrees ==
    \A e \in DOMAIN events :
        LET comment == events[e].comment
            sole    == \A f \in DOMAIN events : events[f].comment = comment => f = e
        IN  sole /\ comment \notin contested /\ Working(comment) = {} =>
               \A i \in DOMAIN actions[e] : Standing(e, i) =>
                   /\ events[e].status = ACTION_STATUS_MAP[actions[e][i].type]
                   /\ actions[e][i].status = "completed" =>
                         platform[comment] \in Shows(actions[e][i].type)

\* Actions use a token as long as the row has one, whatever its status: so
\* no sequence of connecting, disconnecting, removing and connecting again
\* leaves one on a row that is not connected.
TokensOnlyWhileConnected ==
    \A a \in DOMAIN accounts : accounts[a].token # "none" => accounts[a].status = "connected"

\* A removed row is not revived by accident: whatever is connected,
\* disconnected and removed again, and although a removed row can be
\* disconnected and is listed again then, it gets no token by connecting its
\* old profile, which makes a new row, but only by connecting the value
\* "deleted:<id>" itself.  Until then no action acts on the comments that were
\* delivered for it.
RemovedHasNoToken == \A a \in removed : accounts[a].token = "none"
=============================================================================
