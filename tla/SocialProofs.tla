---------------------------- MODULE SocialProofs ----------------------------
(***************************************************************************)
(* For any number of accounts, deliveries, calls and comments: which rows  *)
(* of connected_accounts may have a token, and that the inbox and the      *)
(* platform agree.                                                         *)
(***************************************************************************)
EXTENDS SocialInbox, TLAPS

\* The rows, and what a removed row looks like until it is connected itself.
AccountRows ==
    /\ DOMAIN accounts \subseteq Accounts
    /\ \A a \in DOMAIN accounts :
          /\ accounts[a] \in Account
          /\ accounts[a].token # "none" => accounts[a].status = "connected"
    /\ accounts = [a \in DOMAIN accounts |-> accounts[a]]
    /\ removed \subseteq DOMAIN accounts
    /\ \A a \in removed : accounts[a].profile = Deleted(a) /\ accounts[a].token = "none"

LEMMA AccountRowsInit == Init => AccountRows
  BY DEF Init, AccountRows

LEMMA ConnectStep ==
    ASSUME AccountRows, NEW profile \in Profiles \cup Accounts, NEW token \in Tokens,
           ConnectAccount(profile, token)
    PROVE  AccountRows'
<1> DEFINE row == [profile |-> profile, token |-> token, status |-> Authenticated(token)]
<1>1. PICK b \in (IF Of(profile) = {} THEN Accounts \ DOMAIN accounts ELSE Of(profile)) :
          /\ accounts' = Extend(accounts, b, row)
          /\ removed' = IF profile = Deleted(b) THEN removed \ {b} ELSE removed
  BY DEF ConnectAccount
<1>2. b \in Accounts
  BY <1>1 DEF Of, AccountRows
<1>3. b \in DOMAIN accounts => accounts[b].profile = profile
  BY <1>1 DEF Of
<1>4. row \in Account /\ (row.token # "none" => row.status = "connected")
  BY DEF Account, Authenticated
<1> HIDE DEF row
<1>5. /\ DOMAIN accounts' = DOMAIN accounts \cup {b}
      /\ \A a \in DOMAIN accounts' : accounts'[a] = IF a = b THEN row ELSE accounts[a]
      /\ accounts' = [a \in DOMAIN accounts' |-> accounts'[a]]
  BY <1>1 DEF Extend
<1>6. b \notin removed'
  BY <1>1, <1>3 DEF AccountRows
<1>7. ASSUME NEW a \in removed'
      PROVE  a \in DOMAIN accounts /\ accounts'[a] = accounts[a] /\ a \in removed
  BY <1>1, <1>5, <1>6, <1>7 DEF AccountRows
<1>8. QED
  BY <1>2, <1>4, <1>5, <1>7 DEF AccountRows

LEMMA AccountRowsStep ==
    ASSUME AccountRows, [Next]_vars
    PROVE  AccountRows'
<1>1. ASSUME NEW profile \in Profiles \cup {Deleted(a) : a \in DOMAIN accounts},
             NEW token \in Tokens, ConnectAccount(profile, token)
      PROVE  AccountRows'
  <2>1. profile \in Profiles \cup Accounts
    BY DEF AccountRows, Deleted
  <2>2. QED
    BY <1>1, <2>1, ConnectStep
<1>2. ASSUME NEW b \in DOMAIN accounts, NEW row \in Account, row.token = "none",
             accounts' = [accounts EXCEPT ![b] = row],
             removed' \subseteq removed \cup {b},
             b \in removed' => row.profile = Deleted(b)
      PROVE  AccountRows'
  BY <1>2 DEF AccountRows
<1>3. ASSUME NEW b \in DOMAIN accounts, DisconnectAccount(b)
      PROVE  AccountRows'
  <2> DEFINE row == [accounts[b] EXCEPT !.status = "disconnected", !.token = "none"]
  <2>1. row \in Account /\ row.token = "none" /\ row.profile = accounts[b].profile
    BY DEF AccountRows, Account, Tokens
  <2>2. accounts' = [accounts EXCEPT ![b] = row] /\ removed' = removed
    BY <1>3 DEF DisconnectAccount
  <2>3. b \in removed => row.profile = Deleted(b)
    BY <2>1 DEF AccountRows
  <2> HIDE DEF row
  <2>4. QED
    BY <1>2, <2>1, <2>2, <2>3
<1>4. ASSUME NEW b \in DOMAIN accounts, RemoveAccount(b)
      PROVE  AccountRows'
  <2> DEFINE row == [profile |-> Deleted(b), token |-> "none", status |-> "deleted"]
  <2>1. row \in Account /\ row.token = "none" /\ row.profile = Deleted(b)
    BY DEF Account, AccountRows, Deleted, Tokens
  <2>2. accounts' = [accounts EXCEPT ![b] = row] /\ removed' = removed \cup {b}
    BY <1>4 DEF RemoveAccount
  <2> HIDE DEF row
  <2>3. QED
    BY <1>2, <2>1, <2>2
<1>5. CASE UNCHANGED <<accounts, removed>>
  BY <1>5 DEF AccountRows
<1>6. ASSUME NEW d \in Deliveries,
             \/ \E comment \in Comments \cup {NoComment}, a \in Accounts \cup {NoAccount} :
                   Receive(d, comment, a)
             \/ \E status \in {"open", "allowed"} : Moderated(d, status)
             \/ StoreEvent(d)
             \/ DropDelivery(d)
      PROVE  UNCHANGED <<accounts, removed>>
  BY <1>6 DEF Receive, Moderated, StoreEvent, DropDelivery
<1>7. ASSUME NEW c \in Calls,
             \/ \E e \in DOMAIN events, type \in ActionTypes : Apply(c, e, type)
             \/ Reach(c)
             \/ \E how \in {"refused", "lost"} : Miss(c, how)
             \/ Answer(c)
             \/ Timeout(c)
             \/ Record(c)
             \/ Die(c)
      PROVE  UNCHANGED <<accounts, removed>>
  BY <1>7 DEF Apply, Reach, Miss, Answer, Timeout, Record, Die
<1>8. ASSUME NEW comment \in Supported, Withdraw(comment)
      PROVE  UNCHANGED <<accounts, removed>>
  BY <1>8 DEF Withdraw
<1>9. CASE UNCHANGED vars
  BY <1>5, <1>9 DEF vars
<1>10. QED
  BY <1>1, <1>3, <1>4, <1>5, <1>6, <1>7, <1>8, <1>9 DEF Next

LEMMA AlwaysAccountRows == Spec => []AccountRows
  BY AccountRowsInit, AccountRowsStep, PTL DEF Spec

\* Whatever is connected, disconnected, removed and connected again, in
\* whatever order: a row has a token only while it is connected.
THEOREM TokensBelongToConnected == Spec => []TokensOnlyWhileConnected
<1>1. AccountRows => TokensOnlyWhileConnected
  BY DEF AccountRows, TokensOnlyWhileConnected
<1>2. QED
  BY <1>1, AlwaysAccountRows, PTL

\* A removed row has no token until its own "deleted:<id>" value is connected:
\* connecting its old profile again makes another row.
THEOREM RemovedStaysWithoutToken == Spec => []RemovedHasNoToken
<1>1. AccountRows => RemovedHasNoToken
  BY DEF AccountRows, RemovedHasNoToken
<1>2. QED
  BY <1>1, AlwaysAccountRows, PTL

-----------------------------------------------------------------------------
(* The inbox and the platform.                                             *)

\* Actions that execute sends to the platform.
Sendable == {"hide", "allow", "delete"}

\* What an event's rows say, whoever else is at work.
Agrees(e) ==
    \A i \in DOMAIN actions[e] : Standing(e, i) =>
        /\ events[e].status = ACTION_STATUS_MAP[actions[e][i].type]
        /\ actions[e][i].status = "completed" =>
              /\ actions[e][i].type \in Sendable /\ events[e].comment \in Comments
              /\ platform[events[e].comment] \in Shows(actions[e][i].type)

Sole(e) == \A f \in DOMAIN events : events[f].comment = events[e].comment => f = e

\* A delivery has its event in hand until it stores or drops it, once.
Drafted ==
    \A d \in Deliveries :
        /\ delivery[d] \in {"moderating", "moderated"} => draft[d] \in Event
        /\ d \in DOMAIN events => delivery[d] = "over"

\* How far a call and its request are.
Consistent(c) ==
    IF call[c] = NoCall
    THEN stage[c] \in {"new", "over"} /\ wire[c] = "none" /\ c \notin alone
    ELSE /\ call[c].event \in DOMAIN events
         /\ \/ stage[c] = "awaiting" /\ wire[c] # "none" /\ call[c].result = "none"
            \/ stage[c] = "answered" /\ call[c].result # "none"
            \/ stage[c] = "over" /\ wire[c] = "sent"
         /\ call[c].result = "completed" => wire[c] = "applied"
         /\ call[c].result = "recorded" => wire[c] = "none"
         /\ wire[c] # "none" => call[c].type \in Sendable /\ CommentOf(c) \in Comments

\* A call that none has overlapped finds the event as it loaded it, and the
\* comment as its request left it.
Undisturbed(c) ==
    c \in alone =>
        /\ stage[c] # "over"
        /\ \A q \in Working(CommentOf(c)) : q = c
        /\ call[c].loaded = events[call[c].event].status
        /\ wire[c] = "applied" => platform[CommentOf(c)] \in Shows(call[c].type)

\* Every other call leaves its comment contested, and so does an answer lost.
Contested(c) ==
    call[c] # NoCall /\ CommentOf(c) \notin contested =>
        /\ c \in alone
        /\ stage[c] = "answered" /\ call[c].result = "failed" => wire[c] \in {"none", "refused"}

\* An action that is under way changes nothing until its request is applied.
InStep(e) ==
    /\ Sole(e)
    /\ events[e].comment \notin contested
    /\ \A c \in Working(events[e].comment) : wire[c] # "applied"
    => Agrees(e)

InboxInv ==
    /\ TypeOK
    /\ Drafted
    /\ \A c \in Calls : Consistent(c) /\ Undisturbed(c) /\ Contested(c)
    /\ \A e \in DOMAIN events : InStep(e)

-----------------------------------------------------------------------------
(* InboxInv is inductive: the operators, then a lemma for each action.     *)

LEMMA Statuses ==
    /\ ActionTypes = {"hide", "delete", "allow", "block_user", "mark_reviewed"}
    /\ EventStatuses = {"open", "hidden", "deleted", "allowed", "blocked_user", "reviewed"}
    /\ \A type \in ActionTypes : ACTION_STATUS_MAP[type] \in EventStatuses
<1>1. ActionTypes = {"hide", "delete", "allow", "block_user", "mark_reviewed"}
  BY DEF ActionTypes, ACTION_STATUS_MAP
<1>2. EventStatuses = {"open", "hidden", "deleted", "allowed", "blocked_user", "reviewed"}
  BY <1>1 DEF EventStatuses, ACTION_STATUS_MAP
<1>3. \A type \in ActionTypes : ACTION_STATUS_MAP[type] \in EventStatuses
  BY DEF EventStatuses
<1>4. QED
  BY <1>1, <1>2, <1>3

LEMMA InboxInit == Init => InboxInv
<1> SUFFICES ASSUME Init PROVE InboxInv
  OBVIOUS
<1>1. TypeOK
  BY DEF Init, TypeOK
<1>2. Drafted
  BY DEF Init, Drafted
<1>3. \A c \in Calls : Consistent(c) /\ Undisturbed(c) /\ Contested(c)
  BY DEF Init, Consistent, Undisturbed, Contested
<1>4. \A e \in DOMAIN events : InStep(e)
  BY DEF Init
<1>5. QED
  BY <1>1, <1>2, <1>3, <1>4 DEF InboxInv

\* Accounts: nothing the rest of the invariant reads changes.
LEMMA AccountsStep ==
    ASSUME InboxInv, AccountRows', UNCHANGED <<events, actions, platform, inbox, calls>>
    PROVE  InboxInv'
<1> USE DEF inbox, calls
<1>1. TypeOK'
  BY DEF InboxInv, TypeOK, AccountRows
<1>2. Drafted'
  BY DEF InboxInv, Drafted
<1>3. ASSUME NEW c \in Calls PROVE Consistent(c)' /\ Undisturbed(c)' /\ Contested(c)'
  BY DEF InboxInv, Consistent, Undisturbed, Contested, CommentOf, Working
<1>4. ASSUME NEW e \in DOMAIN events' PROVE InStep(e)'
  BY DEF InboxInv, InStep, Sole, Agrees, Standing, Working, CommentOf
<1>5. QED
  BY <1>1, <1>2, <1>3, <1>4 DEF InboxInv

\* Deliveries, up to the one that is stored.
LEMMA DraftStep ==
    ASSUME InboxInv, UNCHANGED <<accounts, removed, events, actions, platform, calls>>,
           NEW d \in Deliveries, d \notin DOMAIN events,
           NEW s \in {"moderating", "moderated", "over"}, NEW row \in Event \cup {NoEvent},
           s # "over" => row \in Event,
           delivery' = [delivery EXCEPT ![d] = s],
           draft' = [draft EXCEPT ![d] = row]
    PROVE  InboxInv'
<1> USE DEF calls
<1>1. TypeOK'
  BY DEF InboxInv, TypeOK
<1>2. Drafted'
  BY DEF InboxInv, Drafted, TypeOK
<1>3. ASSUME NEW c \in Calls PROVE Consistent(c)' /\ Undisturbed(c)' /\ Contested(c)'
  BY DEF InboxInv, Consistent, Undisturbed, Contested, CommentOf, Working
<1>4. ASSUME NEW e \in DOMAIN events' PROVE InStep(e)'
  BY DEF InboxInv, InStep, Sole, Agrees, Standing, Working, CommentOf
<1>5. QED
  BY <1>1, <1>2, <1>3, <1>4 DEF InboxInv

LEMMA ReceiveStep ==
    ASSUME InboxInv, NEW d \in Deliveries, NEW comment \in Comments \cup {NoComment},
           NEW a \in Accounts \cup {NoAccount}, Receive(d, comment, a)
    PROVE  InboxInv'
<1> DEFINE row == [comment |-> comment, account |-> a, status |-> "open"]
<1>0. /\ delivery[d] = "new" /\ d \notin DOMAIN events
      /\ draft[d] \in Event \cup {NoEvent} /\ draft = [draft EXCEPT ![d] = draft[d]]
      /\ UNCHANGED <<accounts, removed, events, actions, platform, calls>>
  BY DEF Receive, InboxInv, Drafted, TypeOK
<1>1. row \in Event
  BY Statuses DEF Event
<1> HIDE DEF row
<1>2. CASE Takes(a)
  <2>1. /\ delivery' = [delivery EXCEPT ![d] = "moderating"]
        /\ draft' = [draft EXCEPT ![d] = row]
    BY <1>2 DEF Receive, row
  <2>2. QED
    BY <1>0, <1>1, <2>1, DraftStep
<1>3. CASE ~ Takes(a)
  <2>1. delivery' = [delivery EXCEPT ![d] = "over"] /\ draft' = [draft EXCEPT ![d] = draft[d]]
    BY <1>0, <1>3 DEF Receive
  <2>2. QED
    BY <1>0, <2>1, DraftStep
<1>4. QED
  BY <1>2, <1>3

LEMMA ModeratedStep ==
    ASSUME InboxInv, NEW d \in Deliveries, NEW status \in {"open", "allowed"},
           Moderated(d, status)
    PROVE  InboxInv'
<1>1. /\ draft[d] \in Event /\ d \notin DOMAIN events
      /\ UNCHANGED <<accounts, removed, events, actions, platform, calls>>
  BY DEF Moderated, InboxInv, Drafted
<1> DEFINE row == [draft[d] EXCEPT !.status = status]
<1>2. row \in Event
  BY <1>1, Statuses DEF Event
<1>3. /\ delivery' = [delivery EXCEPT ![d] = "moderated"]
      /\ draft' = [draft EXCEPT ![d] = row]
  BY DEF Moderated
<1> HIDE DEF row
<1>4. QED
  BY <1>1, <1>2, <1>3, DraftStep

LEMMA DropStep ==
    ASSUME InboxInv, NEW d \in Deliveries, DropDelivery(d)
    PROVE  InboxInv'
<1>1. d \notin DOMAIN events
  BY DEF DropDelivery, InboxInv, Drafted
<1>2. QED
  BY <1>1, DraftStep DEF DropDelivery

LEMMA StoreStep ==
    ASSUME InboxInv, NEW d \in Deliveries, StoreEvent(d)
    PROVE  InboxInv'
<1>1. draft[d] \in Event /\ d \notin DOMAIN events
  BY DEF StoreEvent, InboxInv, Drafted
<1>2. /\ DOMAIN events' = DOMAIN events \cup {d} /\ DOMAIN actions' = DOMAIN events'
      /\ events'[d] = draft[d] /\ actions'[d] = <<>>
      /\ \A e \in DOMAIN events : events'[e] = events[e] /\ actions'[e] = actions[e]
  BY <1>1 DEF StoreEvent, Extend, InboxInv, TypeOK
<1>3. /\ delivery' = [delivery EXCEPT ![d] = "over"] /\ draft' = [draft EXCEPT ![d] = NoEvent]
      /\ UNCHANGED <<accounts, removed, platform, stage, call, wire, contested, alone>>
  BY DEF StoreEvent, calls
<1>4. TypeOK'
  <2>1. \A e \in DOMAIN events' :
           events'[e] \in Event /\ actions'[e] \in Seq([type : ActionTypes, status : Results])
    <3>1. <<>> \in Seq([type : ActionTypes, status : Results])
      OBVIOUS
    <3>2. QED
      BY <1>1, <1>2, <3>1 DEF InboxInv, TypeOK
  <2>2. delivery' \in [Deliveries -> {"new", "moderating", "moderated", "over"}]
    BY <1>3 DEF InboxInv, TypeOK
  <2>3. draft' \in [Deliveries -> Event \cup {NoEvent}]
    BY <1>3 DEF InboxInv, TypeOK
  <2>4. QED
    BY <1>2, <1>3, <2>1, <2>2, <2>3 DEF InboxInv, TypeOK
<1>5. Drafted'
  BY <1>1, <1>2, <1>3 DEF InboxInv, Drafted, TypeOK
<1>6. \A q \in Calls : call[q] # NoCall => call[q].event \in DOMAIN events
  BY DEF InboxInv, Consistent
<1>7. \A q \in Calls : call[q] # NoCall => CommentOf(q)' = CommentOf(q)
  BY <1>2, <1>3, <1>6 DEF CommentOf
<1>8. \A comment : Working(comment)' = Working(comment)
  BY <1>3, <1>7 DEF Working
<1>9. ASSUME NEW c \in Calls PROVE Consistent(c)' /\ Undisturbed(c)' /\ Contested(c)'
  <2>1. Consistent(c)'
    BY <1>2, <1>3, <1>6, <1>7 DEF InboxInv, Consistent
  <2>2. Undisturbed(c)'
    BY <1>2, <1>3, <1>6, <1>7, <1>8 DEF InboxInv, Consistent, Undisturbed
  <2>3. Contested(c)'
    BY <1>3, <1>7 DEF InboxInv, Contested
  <2>4. QED
    BY <2>1, <2>2, <2>3
<1>10. ASSUME NEW e \in DOMAIN events' PROVE InStep(e)'
  <2>1. CASE e = d
    BY <1>2, <2>1 DEF InStep, Agrees
  <2>2. CASE e # d
    BY <1>2, <1>3, <1>8, <2>2 DEF InboxInv, InStep, Sole, Agrees, Standing
  <2>3. QED
    BY <2>1, <2>2
<1>11. QED
  BY <1>4, <1>5, <1>9, <1>10 DEF InboxInv
LEMMA CallTypes ==
    ASSUME TypeOK
    PROVE  /\ \A c \in Calls : call[c] # NoCall =>
                 /\ call[c] \in Call /\ call[c].type \in ActionTypes
                 /\ call[c].result \in Results \cup {"none"}
           /\ \A e \in DOMAIN events :
                 /\ events[e].comment \in Comments \cup {NoComment}
                 /\ events[e].status \in EventStatuses
  BY DEF TypeOK, Call, Event

\* What a step that only forgets calls leaves alone.
LEMMA Kept ==
    ASSUME InboxInv, DOMAIN call' = Calls,
           \A q \in Calls : call'[q] # NoCall => call'[q] = call[q],
           DOMAIN events' = DOMAIN events,
           \A e \in DOMAIN events : events'[e].comment = events[e].comment
    PROVE  /\ \A q \in Calls : call'[q] # NoCall => CommentOf(q)' = CommentOf(q)
           /\ \A comment : \A q \in Calls : q \in Working(comment)' <=>
                 q \in Working(comment) /\ call'[q] # NoCall
<1>1. \A q \in Calls : call[q] # NoCall => call[q].event \in DOMAIN events
  BY DEF InboxInv, Consistent
<1>2. \A q \in Calls : call'[q] # NoCall => CommentOf(q)' = CommentOf(q)
  BY <1>1 DEF CommentOf
<1>3. QED
  BY <1>2 DEF Working

LEMMA ReachStep ==
    ASSUME InboxInv, NEW c \in Calls, Reach(c)
    PROVE  InboxInv'
<1>1. /\ wire[c] = "sent" /\ call[c] # NoCall
      /\ CommentOf(c) \in Comments /\ call[c].type \in Sendable
      /\ call[c].result \notin {"completed", "recorded"}
      /\ stage[c] = "answered" => call[c].result # "none"
      /\ stage[c] # "new" /\ (stage[c] = "awaiting" => call[c].result = "none")
  BY DEF Reach, InboxInv, Consistent
<1>2. /\ UNCHANGED <<accounts, removed, events, actions, inbox, stage, contested, alone>>
      /\ DOMAIN events' = DOMAIN events
      /\ \A e \in DOMAIN events : events'[e].comment = events[e].comment
  BY DEF Reach
<1> DEFINE ended == stage[c] = "over"
<1>3. /\ \A q \in Calls : call'[q] = IF q = c /\ ended THEN NoCall ELSE call[q]
      /\ \A q \in Calls : q # c => wire'[q] = wire[q]
      /\ wire'[c] = IF ended THEN "none" ELSE "applied"
      /\ call' \in [Calls -> Call \cup {NoCall}]
      /\ wire' \in [Calls -> {"none", "sent", "applied", "refused", "lost"}]
      /\ \A q \in Calls : call'[q] # NoCall => CommentOf(q)' = CommentOf(q)
      /\ \A comment : \A q \in Calls : q \in Working(comment)' <=>
            q \in Working(comment) /\ ~ (q = c /\ ended)
  <2>1. /\ \A q \in Calls : call'[q] = IF q = c /\ ended THEN NoCall ELSE call[q]
        /\ \A q \in Calls : q # c => wire'[q] = wire[q]
        /\ wire'[c] = IF ended THEN "none" ELSE "applied"
        /\ call' \in [Calls -> Call \cup {NoCall}]
    BY DEF Reach, Forget, InboxInv, TypeOK
  <2>2. wire' \in [Calls -> {"none", "sent", "applied", "refused", "lost"}]
    BY DEF Reach, Forget, InboxInv, TypeOK
  <2>3. /\ \A q \in Calls : call'[q] # NoCall => CommentOf(q)' = CommentOf(q)
        /\ \A comment : \A q \in Calls : q \in Working(comment)' <=>
              q \in Working(comment) /\ call'[q] # NoCall
    BY <1>2, <2>1, Kept
  <2>4. \A comment : \A q \in Calls : q \in Working(comment)' <=>
            q \in Working(comment) /\ ~ (q = c /\ ended)
    BY <2>1, <2>3 DEF Working
  <2>5. QED
    BY <2>1, <2>2, <2>3, <2>4
<1>4. /\ platform' \in [Comments -> {"visible", "hidden", "gone"}]
      /\ platform'[CommentOf(c)] \in Shows(call[c].type)
      /\ \A m \in Comments : m # CommentOf(c) => platform'[m] = platform[m]
  BY <1>1 DEF Reach, InboxInv, TypeOK, Shows, Sendable
<1>5. TypeOK'
  BY <1>2, <1>3, <1>4 DEF InboxInv, TypeOK, inbox
<1>6. Drafted'
  BY <1>2 DEF InboxInv, Drafted, inbox
<1>7. ASSUME NEW q \in Calls PROVE Consistent(q)' /\ Undisturbed(q)' /\ Contested(q)'
  <2>1. Consistent(q)'
    BY <1>1, <1>2, <1>3 DEF InboxInv, Consistent, Undisturbed
  <2>2. Undisturbed(q)'
    <3>1. CASE q = c
      BY <1>2, <1>3, <1>4, <3>1 DEF InboxInv, Consistent, Undisturbed, Working
    <3>2. CASE q # c
      <4>1. SUFFICES ASSUME q \in alone PROVE Undisturbed(q)'
        BY <1>2 DEF Undisturbed
      <4>2. call[q] # NoCall /\ c \notin Working(CommentOf(q))
        BY <3>2, <4>1 DEF InboxInv, Consistent, Undisturbed
      <4>3. CommentOf(c) # CommentOf(q)
        BY <1>1, <4>2 DEF Working
      <4>4. wire[q] # "none" => CommentOf(q) \in Comments
        BY <4>2 DEF InboxInv, Consistent
      <4>5. QED
        BY <1>2, <1>3, <1>4, <3>2, <4>1, <4>2, <4>3, <4>4 DEF InboxInv, Undisturbed, Working
    <3>3. QED
      BY <3>1, <3>2
  <2>3. Contested(q)'
    BY <1>1, <1>2, <1>3 DEF InboxInv, Contested
  <2>4. QED
    BY <2>1, <2>2, <2>3
<1>8. ASSUME NEW e \in DOMAIN events' PROVE InStep(e)'
  <2>1. c \in Working(CommentOf(c)) /\ (ended => CommentOf(c) \in contested)
    BY <1>1 DEF Working, InboxInv, Contested, Undisturbed
  <2>2. CASE events[e].comment = CommentOf(c)
    BY <1>2, <1>3, <2>1, <2>2 DEF InStep
  <2>3. CASE events[e].comment # CommentOf(c)
    <3>1. SUFFICES ASSUME Sole(e)', events[e].comment \notin contested,
                          \A q \in Working(events[e].comment)' : wire'[q] # "applied"
                   PROVE  Agrees(e)'
      BY <1>2 DEF InStep
    <3>2. Sole(e) /\ \A q \in Working(events[e].comment) : wire[q] # "applied"
      BY <1>2, <1>3, <1>1, <3>1 DEF Sole, Working
    <3>3. Agrees(e)
      BY <1>2, <3>1, <3>2 DEF InboxInv, InStep
    <3>4. QED
      BY <1>2, <1>4, <2>3, <3>3 DEF Agrees, Standing
  <2>4. QED
    BY <2>2, <2>3
<1>9. QED
  BY <1>5, <1>6, <1>7, <1>8 DEF InboxInv

LEMMA MissStep ==
    ASSUME InboxInv, NEW c \in Calls, NEW how \in {"refused", "lost"}, Miss(c, how)
    PROVE  InboxInv'
<1>1. /\ wire[c] = "sent" /\ call[c] # NoCall
      /\ CommentOf(c) \in Comments /\ call[c].type \in Sendable
      /\ call[c].result \notin {"completed", "recorded"}
      /\ stage[c] = "answered" => call[c].result # "none"
      /\ stage[c] # "new" /\ (stage[c] = "awaiting" => call[c].result = "none")
  BY DEF Miss, InboxInv, Consistent
<1>2. /\ UNCHANGED <<accounts, removed, events, actions, platform, inbox, stage, contested, alone>>
      /\ DOMAIN events' = DOMAIN events
      /\ \A e \in DOMAIN events : events'[e].comment = events[e].comment
  BY DEF Miss
<1> DEFINE ended == stage[c] = "over"
<1>3. /\ \A q \in Calls : call'[q] = IF q = c /\ ended THEN NoCall ELSE call[q]
      /\ \A q \in Calls : q # c => wire'[q] = wire[q]
      /\ wire'[c] = IF ended THEN "none" ELSE how
      /\ call' \in [Calls -> Call \cup {NoCall}]
      /\ wire' \in [Calls -> {"none", "sent", "applied", "refused", "lost"}]
      /\ \A q \in Calls : call'[q] # NoCall => CommentOf(q)' = CommentOf(q)
      /\ \A comment : \A q \in Calls : q \in Working(comment)' <=>
            q \in Working(comment) /\ ~ (q = c /\ ended)
  <2>1. /\ \A q \in Calls : call'[q] = IF q = c /\ ended THEN NoCall ELSE call[q]
        /\ \A q \in Calls : q # c => wire'[q] = wire[q]
        /\ wire'[c] = IF ended THEN "none" ELSE how
        /\ call' \in [Calls -> Call \cup {NoCall}]
    BY DEF Miss, Forget, InboxInv, TypeOK
  <2>2. wire' \in [Calls -> {"none", "sent", "applied", "refused", "lost"}]
    BY DEF Miss, Forget, InboxInv, TypeOK
  <2>3. /\ \A q \in Calls : call'[q] # NoCall => CommentOf(q)' = CommentOf(q)
        /\ \A comment : \A q \in Calls : q \in Working(comment)' <=>
              q \in Working(comment) /\ call'[q] # NoCall
    BY <1>2, <2>1, Kept
  <2>4. \A comment : \A q \in Calls : q \in Working(comment)' <=>
            q \in Working(comment) /\ ~ (q = c /\ ended)
    BY <2>1, <2>3 DEF Working
  <2>5. QED
    BY <2>1, <2>2, <2>3, <2>4
<1>5. TypeOK'
  BY <1>2, <1>3 DEF InboxInv, TypeOK, inbox
<1>6. Drafted'
  BY <1>2 DEF InboxInv, Drafted, inbox
<1>7. ASSUME NEW q \in Calls PROVE Consistent(q)' /\ Undisturbed(q)' /\ Contested(q)'
  <2>1. Consistent(q)'
    BY <1>1, <1>2, <1>3 DEF InboxInv, Consistent, Undisturbed
  <2>2. Undisturbed(q)'
    BY <1>2, <1>3 DEF InboxInv, Consistent, Undisturbed, Working
  <2>3. Contested(q)'
    BY <1>1, <1>2, <1>3 DEF InboxInv, Contested
  <2>4. QED
    BY <2>1, <2>2, <2>3
<1>8. ASSUME NEW e \in DOMAIN events' PROVE InStep(e)'
  <2>1. SUFFICES ASSUME Sole(e)', events[e].comment \notin contested,
                        \A q \in Working(events[e].comment)' : wire'[q] # "applied"
                 PROVE  Agrees(e)'
    BY <1>2 DEF InStep
  <2>2. Sole(e) /\ \A q \in Working(events[e].comment) : wire[q] # "applied"
    BY <1>1, <1>2, <1>3, <2>1 DEF Sole, Working
  <2>3. Agrees(e)
    BY <1>2, <2>1, <2>2 DEF InboxInv, InStep
  <2>4. QED
    BY <1>2, <2>3 DEF Agrees, Standing
<1>9. QED
  BY <1>5, <1>6, <1>7, <1>8 DEF InboxInv
\* The handler has its answer, from the platform or from the client's timeout.
LEMMA AnsweredStep ==
    ASSUME InboxInv, NEW c \in Calls, stage[c] = "awaiting", NEW result \in {"completed", "failed"},
           result = "completed" => wire[c] = "applied",
           UNCHANGED <<accounts, removed, events, actions, platform, inbox, wire, alone>>,
           call' = [call EXCEPT ![c].result = result],
           stage' = [stage EXCEPT ![c] = "answered"],
           contested \subseteq contested', contested' \subseteq Comments \cup {NoComment},
           \A comment : comment \in contested' => comment \in contested \/ comment = CommentOf(c),
           result = "failed" /\ CommentOf(c) \notin contested' => wire[c] = "refused"
    PROVE  InboxInv'
<1>1. call[c] # NoCall /\ call[c] \in Call
  BY DEF InboxInv, TypeOK, Consistent
<1>2. call' = [call EXCEPT ![c] = [call[c] EXCEPT !.result = result]]
  OBVIOUS
<1>3. /\ [call[c] EXCEPT !.result = result] \in Call
      /\ [call[c] EXCEPT !.result = result].event = call[c].event
      /\ [call[c] EXCEPT !.result = result].type = call[c].type
      /\ [call[c] EXCEPT !.result = result].loaded = call[c].loaded
      /\ [call[c] EXCEPT !.result = result].result = result
  BY <1>1 DEF Call, Results
<1>4. /\ \A q \in Calls : q # c => call'[q] = call[q] /\ stage'[q] = stage[q]
      /\ stage'[c] = "answered" /\ call'[c] # NoCall
      /\ call'[c].event = call[c].event /\ call'[c].type = call[c].type
      /\ call'[c].loaded = call[c].loaded /\ call'[c].result = result
      /\ call' \in [Calls -> Call \cup {NoCall}]
  <2>1. call'[c] = [call[c] EXCEPT !.result = result]
    BY <1>2 DEF InboxInv, TypeOK
  <2>2. call' \in [Calls -> Call \cup {NoCall}]
    BY <1>2, <1>3 DEF InboxInv, TypeOK
  <2>3. call'[c] # NoCall
    BY <1>3, <2>1, NullsAssumption
  <2>4. QED
    BY <1>2, <1>3, <2>1, <2>2, <2>3 DEF InboxInv, TypeOK
<1>5. \A q \in Calls : CommentOf(q)' = CommentOf(q)
  BY <1>4 DEF CommentOf
<1>6. \A comment : Working(comment)' = Working(comment)
  BY <1>1, <1>4, <1>5 DEF Working
<1>7. TypeOK'
  BY <1>4 DEF InboxInv, TypeOK, inbox
<1>8. Drafted'
  BY DEF InboxInv, Drafted, inbox
<1>9. ASSUME NEW q \in Calls PROVE Consistent(q)' /\ Undisturbed(q)' /\ Contested(q)'
  <2>1. Consistent(q)'
    <3>1. CASE q = c
      BY <1>1, <1>4, <1>5, <3>1 DEF InboxInv, Consistent
    <3>2. CASE q # c
      BY <1>4, <1>5, <3>2 DEF InboxInv, Consistent
    <3>3. QED
      BY <3>1, <3>2
  <2>2. Undisturbed(q)'
    BY <1>1, <1>4, <1>5, <1>6 DEF InboxInv, Undisturbed
  <2>3. Contested(q)'
    BY <1>1, <1>4, <1>5 DEF InboxInv, Contested
  <2>4. QED
    BY <2>1, <2>2, <2>3
<1>10. ASSUME NEW e \in DOMAIN events' PROVE InStep(e)'
  BY <1>6 DEF InboxInv, InStep, Sole, Agrees, Standing
<1>11. QED
  BY <1>7, <1>8, <1>9, <1>10 DEF InboxInv

LEMMA AnswerStep ==
    ASSUME InboxInv, NEW c \in Calls, Answer(c)
    PROVE  InboxInv'
<1> DEFINE result == IF wire[c] = "applied" THEN "completed" ELSE "failed"
<1>1. /\ result \in {"completed", "failed"}
      /\ result = "completed" => wire[c] = "applied"
      /\ result = "failed" => wire[c] = "refused"
  BY DEF Answer
<1>2. call' = [call EXCEPT ![c].result = result]
  BY DEF Answer
<1>3. /\ stage[c] = "awaiting" /\ stage' = [stage EXCEPT ![c] = "answered"]
      /\ UNCHANGED <<accounts, removed, events, actions, platform, inbox, wire, contested, alone>>
  BY DEF Answer
<1>4. contested \subseteq Comments \cup {NoComment}
  BY DEF InboxInv, TypeOK
<1> HIDE DEF result
<1>5. QED
  BY <1>1, <1>2, <1>3, <1>4, AnsweredStep

LEMMA TimeoutStep ==
    ASSUME InboxInv, NEW c \in Calls, Timeout(c)
    PROVE  InboxInv'
<1>1. CommentOf(c) \in Comments
  BY DEF Timeout, InboxInv, Consistent
<1>2. contested \cup {CommentOf(c)} \subseteq Comments \cup {NoComment}
  BY <1>1 DEF InboxInv, TypeOK
<1>3. QED
  BY <1>2, AnsweredStep DEF Timeout

LEMMA DieStep ==
    ASSUME InboxInv, NEW c \in Calls, Die(c)
    PROVE  InboxInv'
<1>1. /\ call[c] # NoCall /\ call[c].event \in DOMAIN events
      /\ wire[c] \in {"none", "sent", "applied", "refused", "lost"}
      /\ CommentOf(c) \in Comments \cup {NoComment}
  BY CallTypes DEF Die, InboxInv, TypeOK, Consistent, CommentOf
<1>2. /\ UNCHANGED <<accounts, removed, events, actions, platform, inbox>>
      /\ DOMAIN events' = DOMAIN events
      /\ \A e \in DOMAIN events : events'[e].comment = events[e].comment
      /\ stage' = [stage EXCEPT ![c] = "over"] /\ alone' = alone \ {c}
      /\ contested' = contested \cup {CommentOf(c)}
  BY DEF Die
<1>3. /\ \A q \in Calls : call'[q] = IF q = c /\ wire[c] # "sent" THEN NoCall ELSE call[q]
      /\ \A q \in Calls : q # c => wire'[q] = wire[q]
      /\ wire'[c] = IF wire[c] # "sent" THEN "none" ELSE "sent"
      /\ call' \in [Calls -> Call \cup {NoCall}]
      /\ wire' \in [Calls -> {"none", "sent", "applied", "refused", "lost"}]
      /\ \A q \in Calls : call'[q] # NoCall => CommentOf(q)' = CommentOf(q)
      /\ \A comment : \A q \in Calls : q \in Working(comment)' <=>
            q \in Working(comment) /\ ~ (q = c /\ wire[c] # "sent")
  <2>1. /\ \A q \in Calls : call'[q] = IF q = c /\ wire[c] # "sent" THEN NoCall ELSE call[q]
        /\ \A q \in Calls : q # c => wire'[q] = wire[q]
        /\ wire'[c] = IF wire[c] # "sent" THEN "none" ELSE "sent"
        /\ call' \in [Calls -> Call \cup {NoCall}]
    BY DEF Die, Forget, InboxInv, TypeOK
  <2>2. wire' \in [Calls -> {"none", "sent", "applied", "refused", "lost"}]
    BY DEF Die, Forget, InboxInv, TypeOK
  <2>3. /\ \A q \in Calls : call'[q] # NoCall => CommentOf(q)' = CommentOf(q)
        /\ \A comment : \A q \in Calls : q \in Working(comment)' <=>
              q \in Working(comment) /\ call'[q] # NoCall
    BY <1>2, <2>1, Kept
  <2>4. \A comment : \A q \in Calls : q \in Working(comment)' <=>
            q \in Working(comment) /\ ~ (q = c /\ wire[c] # "sent")
    BY <2>1, <2>3 DEF Working
  <2>5. QED
    BY <2>1, <2>2, <2>3, <2>4
<1>4. stage'[c] = "over" /\ \A q \in Calls : q # c => stage'[q] = stage[q]
  BY <1>2 DEF InboxInv, TypeOK
<1>5. TypeOK'
  BY <1>1, <1>2, <1>3 DEF InboxInv, TypeOK, inbox
<1>6. Drafted'
  BY <1>2 DEF InboxInv, Drafted, inbox
<1>7. ASSUME NEW q \in Calls PROVE Consistent(q)' /\ Undisturbed(q)' /\ Contested(q)'
  <2>1. Consistent(q)'
    BY <1>1, <1>2, <1>3, <1>4 DEF InboxInv, Consistent
  <2>2. Undisturbed(q)'
    BY <1>2, <1>3, <1>4 DEF InboxInv, Consistent, Undisturbed, Working
  <2>3. Contested(q)'
    BY <1>1, <1>2, <1>3, <1>4 DEF InboxInv, Contested
  <2>4. QED
    BY <2>1, <2>2, <2>3
<1>8. ASSUME NEW e \in DOMAIN events' PROVE InStep(e)'
  <2>1. SUFFICES ASSUME Sole(e)', events[e].comment \notin contested',
                        \A q \in Working(events[e].comment)' : wire'[q] # "applied"
                 PROVE  Agrees(e)'
    BY <1>2 DEF InStep
  <2>2. events[e].comment # CommentOf(c) /\ events[e].comment \notin contested
    BY <1>2, <2>1
  <2>3. Sole(e) /\ \A q \in Working(events[e].comment) : wire[q] # "applied"
    BY <1>2, <1>3, <2>1, <2>2 DEF Sole, Working
  <2>4. Agrees(e)
    BY <1>2, <2>2, <2>3 DEF InboxInv, InStep
  <2>5. QED
    BY <1>2, <2>4 DEF Agrees, Standing
<1>9. QED
  BY <1>5, <1>6, <1>7, <1>8 DEF InboxInv

LEMMA WithdrawStep ==
    ASSUME InboxInv, NEW comment \in Comments, Withdraw(comment)
    PROVE  InboxInv'
<1>1. /\ UNCHANGED <<accounts, removed, events, actions, inbox>>
      /\ UNCHANGED <<stage, call, wire, contested, alone>>
      /\ platform' = [platform EXCEPT ![comment] = "gone"]
  BY DEF Withdraw, calls
<1>2. TypeOK'
  BY <1>1 DEF InboxInv, TypeOK, inbox
<1>3. \A m \in Comments : platform'[m] = platform[m] \/ platform'[m] = "gone"
  BY <1>1 DEF InboxInv, TypeOK
<1>4. \A type \in Sendable : "gone" \in Shows(type)
  BY DEF Sendable, Shows
<1>5. Drafted'
  BY <1>1 DEF InboxInv, Drafted, inbox
<1>6. ASSUME NEW c \in Calls PROVE Consistent(c)' /\ Undisturbed(c)' /\ Contested(c)'
  <2>1. Consistent(c)' /\ Contested(c)'
    BY <1>1 DEF InboxInv, Consistent, Contested, CommentOf
  <2>2. Undisturbed(c)'
    BY <1>1, <1>3, <1>4 DEF InboxInv, Consistent, Undisturbed, CommentOf, Working
  <2>3. QED
    BY <2>1, <2>2
<1>7. ASSUME NEW e \in DOMAIN events' PROVE InStep(e)'
  BY <1>1, <1>3, <1>4 DEF InboxInv, InStep, Sole, Agrees, Standing, Working, CommentOf
<1>8. QED
  BY <1>2, <1>5, <1>6, <1>7 DEF InboxInv
LEMMA RecordStep ==
    ASSUME InboxInv, NEW c \in Calls, Record(c)
    PROVE  InboxInv'
<1> DEFINE home   == call[c].event
           type   == call[c].type
           result == call[c].result
           next   == ACTION_STATUS_MAP[type]
           writes == result \in {"completed", "recorded"} /\ next # call[c].loaded
           row    == [type |-> type, status |-> result]
<1>1. /\ call[c] # NoCall /\ home \in DOMAIN events /\ stage[c] = "answered"
      /\ type \in ActionTypes /\ result \in Results
      /\ wire[c] \in {"none", "sent", "applied", "refused", "lost"}
      /\ next \in EventStatuses /\ row \in [type : ActionTypes, status : Results]
  <2>1. call[c] # NoCall /\ home \in DOMAIN events /\ stage[c] = "answered" /\ result # "none"
    BY DEF Record, InboxInv, Consistent
  <2>2. type \in ActionTypes /\ result \in Results
    BY <2>1, CallTypes DEF InboxInv
  <2>3. QED
    BY <2>1, <2>2, Statuses DEF InboxInv, TypeOK
<1>2. /\ events' = [events EXCEPT ![home].status = IF writes THEN next ELSE @]
      /\ actions' = [actions EXCEPT ![home] = Append(@, row)]
      /\ stage' = [stage EXCEPT ![c] = "over"]
      /\ alone' = alone \ {c}
      /\ contested' = IF c \in alone /\ result = "completed"
                      THEN contested \ {CommentOf(c)} ELSE contested
      /\ UNCHANGED <<accounts, removed, platform, inbox>>
  BY DEF Record
<1>3. /\ DOMAIN events' = DOMAIN events /\ DOMAIN actions' = DOMAIN events
      /\ \A e \in DOMAIN events :
            /\ events'[e].comment = events[e].comment
            /\ events'[e] \in Event
            /\ e # home => events'[e] = events[e] /\ actions'[e] = actions[e]
      /\ events'[home].status = IF writes THEN next ELSE events[home].status
      /\ actions[home] \in Seq([type : ActionTypes, status : Results])
      /\ actions'[home] = Append(actions[home], row)
  <2> DEFINE new == [events[home] EXCEPT !.status = IF writes THEN next ELSE @]
  <2> HIDE DEF home, next, writes, row
  <2>1. events[home] \in Event
    BY <1>1 DEF InboxInv, TypeOK
  <2>2. /\ new \in Event /\ new.comment = events[home].comment
        /\ new.status = IF writes THEN next ELSE events[home].status
    BY <1>1, <2>1 DEF Event
  <2>3. events' = [events EXCEPT ![home] = new]
    BY <1>2
  <2> HIDE DEF new
  <2>4. /\ DOMAIN events' = DOMAIN events /\ DOMAIN actions' = DOMAIN events
        /\ \A e \in DOMAIN events : events'[e] = IF e = home THEN new ELSE events[e]
        /\ \A e \in DOMAIN events :
              actions'[e] = IF e = home THEN Append(actions[home], row) ELSE actions[e]
    BY <1>1, <1>2, <2>3 DEF InboxInv, TypeOK
  <2>5. QED
    BY <1>1, <2>1, <2>2, <2>4 DEF InboxInv, TypeOK
<1> HIDE DEF home, type, result, next, writes, row
<1>4. /\ \A q \in Calls : call'[q] = IF q = c /\ wire[c] # "sent" THEN NoCall ELSE call[q]
      /\ \A q \in Calls : q # c => wire'[q] = wire[q]
      /\ wire'[c] = IF wire[c] # "sent" THEN "none" ELSE "sent"
      /\ call' \in [Calls -> Call \cup {NoCall}]
      /\ wire' \in [Calls -> {"none", "sent", "applied", "refused", "lost"}]
      /\ \A q \in Calls : call'[q] # NoCall => CommentOf(q)' = CommentOf(q)
      /\ \A comment : \A q \in Calls : q \in Working(comment)' <=>
            q \in Working(comment) /\ ~ (q = c /\ wire[c] # "sent")
  <2>1. /\ \A q \in Calls : call'[q] = IF q = c /\ wire[c] # "sent" THEN NoCall ELSE call[q]
        /\ \A q \in Calls : q # c => wire'[q] = wire[q]
        /\ wire'[c] = IF wire[c] # "sent" THEN "none" ELSE "sent"
        /\ call' \in [Calls -> Call \cup {NoCall}]
    BY DEF Record, Forget, InboxInv, TypeOK
  <2>2. wire' \in [Calls -> {"none", "sent", "applied", "refused", "lost"}]
    BY DEF Record, Forget, InboxInv, TypeOK
  <2>3. /\ \A q \in Calls : call'[q] # NoCall => CommentOf(q)' = CommentOf(q)
        /\ \A comment : \A q \in Calls : q \in Working(comment)' <=>
              q \in Working(comment) /\ call'[q] # NoCall
    BY <1>3, <2>1, Kept
  <2>4. \A comment : \A q \in Calls : q \in Working(comment)' <=>
            q \in Working(comment) /\ ~ (q = c /\ wire[c] # "sent")
    BY <2>1, <2>3 DEF Working
  <2>5. QED
    BY <2>1, <2>2, <2>3, <2>4
<1>5. stage'[c] = "over" /\ \A q \in Calls : q # c => stage'[q] = stage[q]
  BY <1>2 DEF InboxInv, TypeOK
<1>6. TypeOK'
  <2>1. \A e \in DOMAIN events : actions'[e] \in Seq([type : ActionTypes, status : Results])
    <3> DEFINE Rows == [type : ActionTypes, status : Results]
    <3>1. row \in Rows /\ actions[home] \in Seq(Rows)
      BY <1>1, <1>3
    <3>2. \A e \in DOMAIN events : actions[e] \in Seq(Rows)
      BY DEF InboxInv, TypeOK
    <3> HIDE DEF Rows
    <3>3. Append(actions[home], row) \in Seq(Rows)
      BY <3>1
    <3>4. \A e \in DOMAIN events : actions'[e] \in Seq(Rows)
      BY <1>3, <3>2, <3>3
    <3>5. QED
      BY <3>4 DEF Rows
  <2>2. stage' \in [Calls -> {"new", "awaiting", "answered", "over"}]
    BY <1>2 DEF InboxInv, TypeOK
  <2>3. QED
    BY <1>2, <1>3, <1>4, <2>1, <2>2 DEF InboxInv, TypeOK, inbox
<1>7. Drafted'
  BY <1>2, <1>3 DEF InboxInv, Drafted, inbox
<1>8. /\ result = "completed" => wire[c] = "applied" /\ type \in Sendable /\ CommentOf(c) \in Comments
      /\ result = "recorded" => wire[c] = "none"
      /\ CommentOf(c) \notin contested =>
            c \in alone /\ (result = "failed" => wire[c] \in {"none", "refused"})
      /\ c \in Working(CommentOf(c)) /\ CommentOf(c) = events[home].comment
      /\ c \in alone =>
            /\ \A q \in Working(CommentOf(c)) : q = c
            /\ call[c].loaded = events[home].status
            /\ wire[c] = "applied" => platform[CommentOf(c)] \in Shows(type)
  BY <1>1 DEF InboxInv, Consistent, Contested, Undisturbed, CommentOf, Working, home, type, result
<1>9. wire[c] = "sent" => CommentOf(c) \in contested /\ contested' = contested
  BY <1>1, <1>2, <1>8 DEF Results
<1>10. ASSUME NEW q \in Calls, q # c PROVE Consistent(q)' /\ Undisturbed(q)' /\ Contested(q)'
  <2>1. /\ call'[q] = call[q] /\ wire'[q] = wire[q] /\ stage'[q] = stage[q]
        /\ q \in alone' <=> q \in alone
    BY <1>2, <1>4, <1>5, <1>10
  <2>2. Consistent(q)'
    BY <1>3, <1>4, <2>1 DEF InboxInv, Consistent
  <2>3. Undisturbed(q)'
    <3>1. SUFFICES ASSUME q \in alone PROVE Undisturbed(q)'
      BY <2>1 DEF Undisturbed
    <3>2. call[q] # NoCall /\ call[q].event \in DOMAIN events /\ c \notin Working(CommentOf(q))
      BY <1>10, <3>1 DEF InboxInv, Consistent, Undisturbed
    <3>3. call[q].event # home
      BY <1>8, <3>2 DEF CommentOf
    <3>4. events'[call[q].event] = events[call[q].event]
      BY <1>3, <3>2, <3>3
    <3>5. CommentOf(q)' = CommentOf(q) /\ stage'[q] # "over"
      BY <1>4, <2>1, <3>1, <3>2 DEF InboxInv, Undisturbed
    <3>6. \A r \in Working(CommentOf(q))' : r = q
      BY <1>4, <3>1, <3>5 DEF InboxInv, Undisturbed, Working
    <3>7. /\ call'[q].loaded = events'[call'[q].event].status
          /\ wire'[q] = "applied" => platform'[CommentOf(q)'] \in Shows(call'[q].type)
      BY <1>2, <2>1, <3>1, <3>4, <3>5 DEF InboxInv, Undisturbed
    <3>8. QED
      BY <3>5, <3>6, <3>7 DEF Undisturbed
  <2>4. Contested(q)'
    <3>1. SUFFICES ASSUME call[q] # NoCall, CommentOf(q) \notin contested' PROVE Contested(q)'
      BY <1>4, <2>1 DEF Contested
    <3>2. CommentOf(q) \notin contested
      BY <1>2, <1>8, <1>10, <3>1 DEF Working
    <3>3. QED
      BY <2>1, <3>1, <3>2 DEF InboxInv, Contested
  <2>5. QED
    BY <2>2, <2>3, <2>4
<1>11. Consistent(c)' /\ Undisturbed(c)' /\ Contested(c)'
  <2>1. wire[c] = "sent" => result = "failed" /\ type \in Sendable /\ CommentOf(c) \in Comments
    BY <1>1, <1>8 DEF InboxInv, Consistent, Results, type
  <2>2. Consistent(c)'
    BY <1>1, <1>2, <1>3, <1>4, <1>5, <2>1 DEF Consistent, home, type, result
  <2>3. Undisturbed(c)' /\ Contested(c)'
    BY <1>2, <1>4, <1>9 DEF Undisturbed, Contested
  <2>4. QED
    BY <2>2, <2>3
<1>12. ASSUME NEW e \in DOMAIN events' PROVE InStep(e)'
  <2>1. SUFFICES ASSUME Sole(e)', events[e].comment \notin contested',
                        \A q \in Working(events[e].comment)' : wire'[q] # "applied"
                 PROVE  Agrees(e)'
    BY <1>3 DEF InStep
  <2>2. Sole(e)
    BY <1>3, <2>1 DEF Sole
  <2>3. CASE e # home
    <3>1. events[e].comment # CommentOf(c)
      BY <1>1, <1>3, <1>8, <2>2, <2>3 DEF Sole
    <3>2. events[e].comment \notin contested
      BY <1>2, <2>1, <3>1
    <3>3. ASSUME NEW q \in Working(events[e].comment) PROVE wire[q] # "applied"
      <4>1. q \in Calls /\ q # c
        BY <3>1 DEF Working
      <4>2. q \in Working(events[e].comment)' /\ wire'[q] = wire[q]
        BY <1>3, <1>4, <4>1
      <4>3. QED
        BY <2>1, <4>2
    <3>4. Agrees(e)
      BY <1>3, <2>2, <3>2, <3>3 DEF InboxInv, InStep
    <3>5. QED
      BY <1>2, <1>3, <2>3, <3>4 DEF Agrees, Standing
  <2>4. CASE e = home
    <3> DEFINE rows == actions[home]
    <3>1. /\ rows \in Seq([type : ActionTypes, status : Results]) /\ Len(rows) \in Nat
          /\ DOMAIN rows = 1 .. Len(rows)
          /\ DOMAIN Append(rows, row) = 1 .. Len(rows) + 1
          /\ Append(rows, row)[Len(rows) + 1] = row
          /\ \A i \in DOMAIN rows : Append(rows, row)[i] = rows[i]
      BY <1>1, <1>3
    <3> HIDE DEF rows
    <3>2. actions'[e] = Append(rows, row)
      BY <1>3, <2>4 DEF rows
    <3>3. CASE result = "failed"
      <4>1. CommentOf(c) \notin contested /\ events' [e].status = events[e].status
        BY <1>2, <1>3, <1>8, <2>1, <2>4, <3>3 DEF writes
      <4>2. \A q \in Working(events[e].comment) : wire[q] # "applied"
        BY <1>8, <2>4, <4>1, <3>3
      <4>3. Agrees(e)
        BY <1>1, <1>8, <2>2, <2>4, <4>1, <4>2 DEF InboxInv, InStep
      <4>4. \A i \in DOMAIN actions'[e] :
               Standing(e, i)' => i \in DOMAIN rows /\ Standing(e, i)
        BY <2>4, <3>1, <3>2, <3>3 DEF Standing, rows, row
      <4>5. ASSUME NEW i \in DOMAIN actions'[e], Standing(e, i)'
            PROVE  i \in DOMAIN actions[e] /\ Standing(e, i) /\ actions'[e][i] = actions[e][i]
        BY <2>4, <3>1, <3>2, <4>4, <4>5 DEF rows
      <4>6. events'[e].comment = events[e].comment /\ platform' = platform
        BY <1>2, <1>3
      <4>7. QED
        BY <4>1, <4>3, <4>5, <4>6 DEF Agrees
    <3>4. CASE result # "failed"
      <4>1. ASSUME NEW i \in DOMAIN actions'[e], Standing(e, i)'
            PROVE  actions'[e][i] = row
        BY <3>1, <3>2, <3>4, <4>1 DEF Standing, row
      <4>2. c \in alone
        BY <1>2, <1>8, <2>1, <2>4
      <4>3. events'[e].status = next
        BY <1>1, <1>3, <1>8, <2>4, <3>4, <4>2 DEF writes, Results
      <4>4. result = "completed" =>
               type \in Sendable /\ events'[e].comment \in Comments
               /\ platform'[events'[e].comment] \in Shows(type)
        BY <1>2, <1>3, <1>8, <2>4, <4>2
      <4>5. QED
        BY <4>1, <4>3, <4>4 DEF Agrees, next, row
    <3>5. QED
      BY <3>3, <3>4
  <2>5. QED
    BY <2>3, <2>4
<1>13. QED
  BY <1>6, <1>7, <1>10, <1>11, <1>12 DEF InboxInv
LEMMA ApplyStep ==
    ASSUME InboxInv, NEW c \in Calls, NEW e \in DOMAIN events, NEW type \in ActionTypes,
           Apply(c, e, type)
    PROVE  InboxInv'
<1> DEFINE local   == LocalResult(e, type)
           comment == events[e].comment
           others  == Working(comment)
           row     == [event |-> e, type |-> type, loaded |-> events[e].status, result |-> local]
<1>1. /\ stage[c] = "new" /\ call[c] = NoCall /\ wire[c] = "none" /\ c \notin alone
      /\ c \notin others
  BY DEF Apply, InboxInv, Consistent, Working
<1>2. /\ local \in Results \cup {"none"} /\ local # "completed"
      /\ local = "none" => type \in Sendable /\ comment \in Comments
  BY Statuses, SocialAssumption DEF LocalResult, Results, Sendable
<1>3. /\ comment \in Comments \cup {NoComment} /\ row # NoCall /\ row \in Call
      /\ row.event = e /\ row.type = type /\ row.loaded = events[e].status /\ row.result = local
  <2>1. e \in Deliveries /\ events[e].status \in EventStatuses /\ comment \in Comments \cup {NoComment}
    BY CallTypes DEF InboxInv, TypeOK
  <2>2. row \in Call
    BY <1>2, <2>1 DEF Call
  <2>3. QED
    BY <2>1, <2>2, NullsAssumption
<1>4. /\ call' = [call EXCEPT ![c] = row]
      /\ stage' = [stage EXCEPT ![c] = IF local = "none" THEN "awaiting" ELSE "answered"]
      /\ wire' = [wire EXCEPT ![c] = IF local = "none" THEN "sent" ELSE "none"]
      /\ alone' = IF others = {} THEN alone \cup {c} ELSE alone \ others
      /\ contested' = IF others = {} THEN contested ELSE contested \cup {comment}
      /\ UNCHANGED <<accounts, removed, events, actions, platform, inbox>>
  BY DEF Apply
<1> HIDE DEF local, row
<1>5. /\ call'[c] = row /\ stage'[c] = (IF local = "none" THEN "awaiting" ELSE "answered")
      /\ wire'[c] = IF local = "none" THEN "sent" ELSE "none"
      /\ \A q \in Calls : q # c =>
            call'[q] = call[q] /\ stage'[q] = stage[q] /\ wire'[q] = wire[q]
      /\ call' \in [Calls -> Call \cup {NoCall}]
  BY <1>3, <1>4 DEF InboxInv, TypeOK
<1>6. CommentOf(c)' = comment /\ \A q \in Calls : q # c => CommentOf(q)' = CommentOf(q)
  BY <1>3, <1>4, <1>5 DEF CommentOf
<1>7. \A m : \A q \in Calls : q \in Working(m)' <=> q \in Working(m) \/ (q = c /\ m = comment)
  BY <1>1, <1>3, <1>5, <1>6 DEF Working
<1>8. TypeOK'
  <2>1. stage' \in [Calls -> {"new", "awaiting", "answered", "over"}]
    BY <1>4 DEF InboxInv, TypeOK
  <2>2. wire' \in [Calls -> {"none", "sent", "applied", "refused", "lost"}]
    BY <1>4 DEF InboxInv, TypeOK
  <2>3. alone' \subseteq Calls /\ contested' \subseteq Comments \cup {NoComment}
    BY <1>3, <1>4 DEF InboxInv, TypeOK
  <2>4. QED
    BY <1>4, <1>5, <2>1, <2>2, <2>3 DEF InboxInv, TypeOK, inbox
<1>9. Drafted'
  BY <1>4 DEF InboxInv, Drafted, inbox
<1>10. Consistent(c)' /\ Undisturbed(c)' /\ Contested(c)'
  <2>1. Consistent(c)'
    BY <1>1, <1>2, <1>3, <1>4, <1>5, <1>6 DEF Consistent
  <2>2. Undisturbed(c)'
    BY <1>1, <1>3, <1>4, <1>5, <1>6, <1>7 DEF Undisturbed, Working
  <2>3. Contested(c)'
    BY <1>4, <1>5, <1>6 DEF Contested
  <2>4. QED
    BY <2>1, <2>2, <2>3
<1>11. ASSUME NEW q \in Calls, q # c PROVE Consistent(q)' /\ Undisturbed(q)' /\ Contested(q)'
  <2>1. /\ call'[q] = call[q] /\ stage'[q] = stage[q] /\ wire'[q] = wire[q]
        /\ CommentOf(q)' = CommentOf(q)
        /\ q \in alone' => q \in alone
    BY <1>4, <1>5, <1>6, <1>11
  <2>2. Consistent(q)'
    BY <1>4, <2>1 DEF InboxInv, Consistent
  <2>3. Undisturbed(q)'
    <3>1. SUFFICES ASSUME q \in alone' PROVE Undisturbed(q)'
      BY DEF Undisturbed
    <3>2. q \in alone /\ call[q] # NoCall
      BY <2>1, <3>1 DEF InboxInv, Consistent
    <3>3. q \in Working(CommentOf(q))
      BY <3>2 DEF Working
    <3>4. CommentOf(q) # comment
      BY <1>4, <1>11, <3>1, <3>3
    <3>5. \A r \in Working(CommentOf(q))' : r = q
      BY <1>7, <2>1, <3>2, <3>4 DEF InboxInv, Undisturbed, Working
    <3>6. QED
      BY <1>4, <2>1, <3>2, <3>5 DEF InboxInv, Undisturbed
  <2>4. Contested(q)'
    <3>1. SUFFICES ASSUME call[q] # NoCall, CommentOf(q) \notin contested' PROVE Contested(q)'
      BY <2>1 DEF Contested
    <3>2. q \in Working(CommentOf(q)) /\ CommentOf(q) \notin contested
      BY <1>4, <3>1 DEF Working
    <3>3. CommentOf(q) # comment
      BY <1>4, <3>1, <3>2
    <3>4. q \notin others
      BY <3>3 DEF Working
    <3>5. QED
      BY <1>4, <2>1, <3>1, <3>2, <3>4 DEF InboxInv, Contested
  <2>5. QED
    BY <2>2, <2>3, <2>4
<1>12. ASSUME NEW f \in DOMAIN events' PROVE InStep(f)'
  <2>1. SUFFICES ASSUME Sole(f)', events[f].comment \notin contested',
                        \A q \in Working(events[f].comment)' : wire'[q] # "applied"
                 PROVE  Agrees(f)'
    BY <1>4 DEF InStep
  <2>2. events[f].comment \notin contested /\ Sole(f)
    BY <1>4, <2>1 DEF Sole
  <2>3. ASSUME NEW q \in Working(events[f].comment) PROVE wire[q] # "applied"
    <3>1. q \in Calls /\ q # c
      BY <1>1 DEF Working
    <3>2. QED
      BY <1>4, <1>5, <1>7, <2>1, <3>1
  <2>4. Agrees(f)
    BY <1>4, <2>2, <2>3 DEF InboxInv, InStep
  <2>5. QED
    BY <1>4, <2>4 DEF Agrees, Standing
<1>13. QED
  BY <1>8, <1>9, <1>10, <1>11, <1>12 DEF InboxInv

LEMMA InboxStep ==
    ASSUME InboxInv, AccountRows, [Next]_vars
    PROVE  InboxInv'
<1>0. AccountRows'
  BY AccountRowsStep
<1>1. ASSUME NEW profile \in Profiles \cup {Deleted(a) : a \in DOMAIN accounts},
             NEW token \in Tokens, ConnectAccount(profile, token)
      PROVE  InboxInv'
  BY <1>0, <1>1, AccountsStep DEF ConnectAccount
<1>2. ASSUME NEW a \in DOMAIN accounts, DisconnectAccount(a) \/ RemoveAccount(a)
      PROVE  InboxInv'
  BY <1>0, <1>2, AccountsStep DEF DisconnectAccount, RemoveAccount
<1>3. ASSUME NEW d \in Deliveries,
             \/ \E comment \in Comments \cup {NoComment}, a \in Accounts \cup {NoAccount} :
                   Receive(d, comment, a)
             \/ \E status \in {"open", "allowed"} : Moderated(d, status)
             \/ StoreEvent(d)
             \/ DropDelivery(d)
      PROVE  InboxInv'
  BY <1>3, ReceiveStep, ModeratedStep, StoreStep, DropStep
<1>4. ASSUME NEW c \in Calls,
             \/ \E e \in DOMAIN events, type \in ActionTypes : Apply(c, e, type)
             \/ Reach(c)
             \/ \E how \in {"refused", "lost"} : Miss(c, how)
             \/ Answer(c)
             \/ Timeout(c)
             \/ Record(c)
             \/ Die(c)
      PROVE  InboxInv'
  BY <1>4, ApplyStep, ReachStep, MissStep, AnswerStep, TimeoutStep, RecordStep, DieStep
<1>5. ASSUME NEW comment \in Supported, Withdraw(comment)
      PROVE  InboxInv'
  BY <1>5, WithdrawStep, SocialAssumption
<1>6. CASE UNCHANGED vars
  BY <1>0, <1>6, AccountsStep DEF vars
<1>7. QED
  BY <1>1, <1>2, <1>3, <1>4, <1>5, <1>6 DEF Next

LEMMA AlwaysInboxInv == Spec => []InboxInv
<1>1. InboxInv /\ AccountRows /\ [Next]_vars => InboxInv'
  BY InboxStep
<1>2. QED
  BY <1>1, InboxInit, AlwaysAccountRows, PTL DEF Spec

\* Rows, deliveries, calls and their requests are always of their types: in
\* particular every action names an event that is stored, with a status of
\* ACTION_STATUS_MAP.
THEOREM TypeCorrect == Spec => []TypeOK
<1>1. InboxInv => TypeOK
  BY DEF InboxInv
<1>2. QED
  BY <1>1, AlwaysInboxInv, PTL

\* For any number of moderators, deliveries and comments: of a comment that was
\* delivered once, that nobody is at work on and whose actions neither
\* overlapped nor lost an answer since one was confirmed undisturbed, the event
\* has the status of its last action that did not fail, and if the platform
\* confirmed that action the comment looks like it.
THEOREM InboxTellsTheTruth == Spec => []InboxAgrees
<1>1. ASSUME InboxInv, NEW e \in DOMAIN events, Sole(e), events[e].comment \notin contested,
             Working(events[e].comment) = {}, NEW i \in DOMAIN actions[e], Standing(e, i)
      PROVE  /\ events[e].status = ACTION_STATUS_MAP[actions[e][i].type]
             /\ actions[e][i].status = "completed" =>
                   platform[events[e].comment] \in Shows(actions[e][i].type)
  BY <1>1 DEF InboxInv, InStep, Agrees
<1>2. InboxInv => InboxAgrees
  BY <1>1 DEF InboxAgrees, Sole
<1>3. QED
  BY <1>2, AlwaysInboxInv, PTL
=============================================================================
