--------------------------- MODULE ApiKeysProofs ----------------------------
(***************************************************************************)
(* For any keys, calls and limit: types, that nothing switches a key on    *)
(* again, and how many active keys a workspace can come to.                *)
(***************************************************************************)
EXTENDS ApiKeys, FiniteSetTheorems, TLAPS

\* What calls in progress carry with them: who they are, and the row they are
\* going to write, as they read it.
Carried ==
    /\ \A c \in Calls :
          /\ stage[c] = "authenticating" => caller[c] \in DOMAIN keys /\ loaded[c] \in KeyRow
          /\ stage[c] = "authenticated" => caller[c] \in Keys \cup {Clerk}
          /\ stage[c] \in {"deactivating", "rotating"} =>
                target[c] \in DOMAIN keys /\ loaded[c] \in KeyRow
    /\ keys = [k \in DOMAIN keys |-> keys[k]]

KeysInv == TypeOK /\ Carried

LEMMA GrantableScopes ==
    /\ AdminScopes \in Grantable /\ {"moderation"} \in Grantable
    /\ {"moderation"} # AdminScopes
  BY DEF Grantable, AdminScopes, Scopes

\* An UPDATE of a row that was read as another one: only the columns the
\* session changed.
LEMMA UpdateRow ==
    ASSUME KeysInv, NEW k \in DOMAIN keys, NEW before \in KeyRow, NEW after \in KeyRow,
           Update(k, before, after)
    PROVE  /\ DOMAIN keys' = DOMAIN keys
           /\ \A x \in DOMAIN keys : keys'[x] \in KeyRow
           /\ \A x \in DOMAIN keys : x # k => keys'[x] = keys[x]
           /\ keys'[k].is_active = IF after.is_active # before.is_active
                                   THEN after.is_active ELSE keys[k].is_active
           /\ keys' = [x \in DOMAIN keys' |-> keys'[x]]
<1> DEFINE row == [column \in DOMAIN keys[k] |->
                      IF after[column] # before[column] THEN after[column] ELSE keys[k][column]]
<1>1. keys' = [keys EXCEPT ![k] = row]
  BY DEF Update
<1>2. keys[k] \in KeyRow
  BY DEF KeysInv, TypeOK
<1>3. row = [scopes |-> IF after.scopes # before.scopes THEN after.scopes ELSE keys[k].scopes,
             is_active |-> IF after.is_active # before.is_active
                           THEN after.is_active ELSE keys[k].is_active,
             used |-> IF after.used # before.used THEN after.used ELSE keys[k].used]
  BY <1>2 DEF KeyRow
<1> HIDE DEF row
<1>4. row \in KeyRow
  BY <1>2, <1>3 DEF KeyRow
<1>5. QED
  BY <1>1, <1>3, <1>4 DEF KeysInv, TypeOK, Carried

\* What each step does to the rows: none disappears, none is switched on.
RowsStep ==
    /\ DOMAIN keys \subseteq DOMAIN keys'
    /\ DOMAIN keys' \subseteq Keys
    /\ \A k \in DOMAIN keys' : keys'[k] \in KeyRow
    /\ \A k \in DOMAIN keys : ~ keys[k].is_active => ~ keys'[k].is_active
    /\ keys' = [k \in DOMAIN keys' |-> keys'[k]]

LEMMA TouchRows ==
    ASSUME KeysInv, NEW c \in Calls, TouchKey(c) PROVE RowsStep
<1>1. caller[c] \in DOMAIN keys /\ loaded[c] \in KeyRow
  BY DEF TouchKey, KeysInv, Carried
<1> DEFINE after == [loaded[c] EXCEPT !.used = TRUE]
<1>2. after \in KeyRow /\ after.is_active = loaded[c].is_active
  BY <1>1 DEF KeyRow
<1>3. Update(caller[c], loaded[c], after)
  BY DEF TouchKey
<1> HIDE DEF after
<1>4. QED
  BY <1>1, <1>2, <1>3, UpdateRow DEF RowsStep, KeysInv, TypeOK

LEMMA DeactivateRows ==
    ASSUME KeysInv, NEW c \in Calls, DeactivateKey(c) PROVE RowsStep
<1>1. target[c] \in DOMAIN keys /\ loaded[c] \in KeyRow
  BY DEF DeactivateKey, KeysInv, Carried
<1> DEFINE after == [loaded[c] EXCEPT !.is_active = FALSE]
<1>2. after \in KeyRow /\ after.is_active = FALSE
  BY <1>1 DEF KeyRow
<1>3. Update(target[c], loaded[c], after)
  BY DEF DeactivateKey
<1> HIDE DEF after
<1>4. QED
  BY <1>1, <1>2, <1>3, UpdateRow DEF RowsStep, KeysInv, TypeOK

LEMMA CreateRows ==
    ASSUME KeysInv, NEW c \in Calls, NEW k \in Keys,
           NEW scopes \in {AdminScopes, {"moderation"}}, CreateKey(c, k, scopes)
    PROVE  RowsStep
<1>1. keys' = With(keys, k, scopes) /\ k \notin DOMAIN keys
  BY DEF CreateKey
<1>2. scopes \in Grantable
  BY GrantableScopes
<1>3. [scopes |-> scopes, is_active |-> TRUE, used |-> FALSE] \in KeyRow
  BY <1>2 DEF KeyRow
<1>4. /\ DOMAIN keys' = DOMAIN keys \cup {k}
      /\ keys'[k] \in KeyRow
      /\ \A x \in DOMAIN keys : keys'[x] = keys[x]
      /\ keys' = [x \in DOMAIN keys' |-> keys'[x]]
  BY <1>1, <1>3 DEF With
<1>5. QED
  BY <1>1, <1>4 DEF RowsStep, KeysInv, TypeOK

LEMMA RotateRows ==
    ASSUME KeysInv, NEW c \in Calls, NEW k \in Keys, RotateKey(c, k)
    PROVE  RowsStep
<1>1. target[c] \in DOMAIN keys /\ loaded[c] \in KeyRow /\ k \notin DOMAIN keys
  BY DEF RotateKey, KeysInv, Carried
<1> DEFINE off == [keys[target[c]] EXCEPT !.is_active = FALSE]
           table == [keys EXCEPT ![target[c]].is_active = FALSE]
<1>2. off \in KeyRow /\ off.is_active = FALSE
  BY <1>1 DEF KeysInv, TypeOK, KeyRow
<1>3. table = [keys EXCEPT ![target[c]] = off]
  OBVIOUS
<1> HIDE DEF off
<1>4. /\ DOMAIN table = DOMAIN keys
      /\ \A x \in DOMAIN keys : table[x] = IF x = target[c] THEN off ELSE keys[x]
  BY <1>1, <1>3 DEF KeysInv, Carried
<1>5. keys' = With(table, k, loaded[c].scopes)
  BY DEF RotateKey
<1> HIDE DEF table
<1>6. [scopes |-> loaded[c].scopes, is_active |-> TRUE, used |-> FALSE] \in KeyRow
  BY <1>1 DEF KeyRow
<1>7. /\ DOMAIN keys' = DOMAIN keys \cup {k}
      /\ keys'[k] \in KeyRow
      /\ \A x \in DOMAIN keys : keys'[x] = IF x = target[c] THEN off ELSE keys[x]
      /\ keys' = [x \in DOMAIN keys' |-> keys'[x]]
  BY <1>1, <1>4, <1>5, <1>6 DEF With
<1>8. QED
  BY <1>1, <1>2, <1>7 DEF RowsStep, KeysInv, TypeOK

\* A restart finds the configured keys active or does not come up.
LEMMA StartRows ==
    ASSUME KeysInv, Start PROVE RowsStep
<1>1. BootKeys \subseteq Keys /\ \A k \in BootKeys : BootScopes[k] \in Grantable
  BY ApiKeysAssumption DEF BootKeys
<1>2. \A k \in BootKeys \cap DOMAIN keys : keys[k].is_active
  BY DEF Start, BootBlocked
<1>3. /\ DOMAIN keys' = DOMAIN keys \cup BootKeys
      /\ \A k \in DOMAIN keys' : keys'[k] =
            IF k \notin BootKeys THEN keys[k]
            ELSE [scopes |-> BootScopes[k], is_active |-> TRUE,
                  used |-> k \in DOMAIN keys /\ keys[k].used]
      /\ keys' = [k \in DOMAIN keys' |-> keys'[k]]
  BY DEF Start
<1>4. ASSUME NEW k \in BootKeys PROVE keys'[k] \in KeyRow
  <2>1. (k \in DOMAIN keys /\ keys[k].used) \in BOOLEAN
    BY DEF KeysInv, TypeOK, KeyRow
  <2>2. [scopes |-> BootScopes[k], is_active |-> TRUE,
         used |-> (k \in DOMAIN keys /\ keys[k].used)] \in KeyRow
    BY <1>1, <2>1 DEF KeyRow
  <2>3. QED
    BY <1>3, <2>2
<1>5. QED
  BY <1>1, <1>2, <1>3, <1>4 DEF RowsStep, KeysInv, TypeOK

LEMMA DeleteRows ==
    ASSUME KeysInv, DeleteWorkspace PROVE RowsStep
<1>1. /\ DOMAIN keys' = DOMAIN keys
      /\ \A k \in DOMAIN keys : keys'[k] = [keys[k] EXCEPT !.is_active = FALSE]
      /\ keys' = [k \in DOMAIN keys' |-> keys'[k]]
  BY DEF DeleteWorkspace
<1>2. \A row \in KeyRow : [row EXCEPT !.is_active = FALSE] \in KeyRow
                          /\ [row EXCEPT !.is_active = FALSE].is_active = FALSE
  BY DEF KeyRow
<1>3. QED
  BY <1>1, <1>2 DEF RowsStep, KeysInv, TypeOK

LEMMA KeepRows ==
    ASSUME KeysInv, UNCHANGED keys PROVE RowsStep
  BY DEF RowsStep, KeysInv, TypeOK, Carried

LEMMA AnyRows ==
    ASSUME KeysInv, [Next]_vars PROVE RowsStep
<1>1. ASSUME NEW c \in Calls, Handle(c) PROVE RowsStep
  <2>1. CASE OpenSession(c) \/ CountKeys(c) \/ RefuseOwnKey(c)
             \/ \E k \in Keys, next \in {"deactivating", "rotating"} : FindKey(c, k, next)
    BY <2>1, KeepRows DEF OpenSession, CountKeys, RefuseOwnKey, FindKey
  <2>2. QED
    BY <1>1, <2>1, TouchRows, CreateRows, DeactivateRows, RotateRows DEF Handle
<1>2. CASE \/ \E c \in Calls :
                 (\E k \in Keys : ReadKey(c, k)) \/ (\E s \in sessions : ReadSession(c, s))
           \/ OpenClerkSession
           \/ \E s \in sessions : Expire(s)
           \/ Crash
           \/ UNCHANGED vars
  BY <1>2, KeepRows DEF ReadKey, ReadSession, OpenClerkSession, Expire, Crash, vars
<1>3. QED
  BY <1>1, <1>2, DeleteRows, StartRows DEF Next

-----------------------------------------------------------------------------
(* The invariant.                                                          *)

LEMMA KeysInit == Init => KeysInv
<1> SUFFICES ASSUME Init PROVE KeysInv
  OBVIOUS
<1>1. /\ DOMAIN keys \subseteq Keys
      /\ \A k \in DOMAIN keys : keys[k] \in KeyRow
      /\ sessions \subseteq Keys \cup {Clerk}
      /\ keys = [k \in DOMAIN keys |-> keys[k]]
  <2>1. CASE boot
    BY <2>1 DEF Init
  <2>2. CASE ~ boot
    <3>1. PICK admin \in Keys, server \in Keys :
              /\ keys = With(With([k \in {} |-> k], admin, AdminScopes), server, {"moderation"})
              /\ sessions = {admin}
      BY <2>2 DEF Init
    <3> DEFINE first == With([k \in {} |-> k], admin, AdminScopes)
    <3>2. /\ DOMAIN first = {admin}
          /\ first[admin] = [scopes |-> AdminScopes, is_active |-> TRUE, used |-> FALSE]
      BY DEF With
    <3>3. [scopes |-> AdminScopes, is_active |-> TRUE, used |-> FALSE] \in KeyRow
      BY GrantableScopes DEF KeyRow
    <3>4. [scopes |-> {"moderation"}, is_active |-> TRUE, used |-> FALSE] \in KeyRow
      BY GrantableScopes DEF KeyRow
    <3> HIDE DEF first
    <3>5. keys = With(first, server, {"moderation"})
      BY <3>1 DEF first
    <3>6. QED
      BY <3>1, <3>2, <3>3, <3>4, <3>5 DEF With
  <2>3. QED
    BY <2>1, <2>2 DEF Init
<1>2. TypeOK
  BY <1>1 DEF Init, TypeOK, Stages
<1>3. Carried
  BY <1>1 DEF Init, Carried
<1>4. QED
  BY <1>2, <1>3 DEF KeysInv

LEMMA KeysStep ==
    ASSUME KeysInv, [Next]_vars
    PROVE  KeysInv'
<1> USE DEF KeysInv, Stages
<1>1. RowsStep
  BY AnyRows
<1>2. boot' \in BOOLEAN
  BY DEF TypeOK, Next, vars
<1>3. ASSUME NEW c \in Calls, NEW k \in Keys, ReadKey(c, k) PROVE KeysInv'
  BY <1>1, <1>2, <1>3 DEF ReadKey, Begin, ActiveKeys, RowsStep, TypeOK, Carried
<1>4. ASSUME NEW c \in Calls, NEW s \in sessions, ReadSession(c, s) PROVE KeysInv'
  BY <1>1, <1>2, <1>4 DEF ReadSession, Begin, RowsStep, TypeOK, Carried
<1>5. ASSUME NEW c \in Calls, TouchKey(c) PROVE KeysInv'
  BY <1>1, <1>2, <1>5 DEF TouchKey, RowsStep, TypeOK, Carried
<1>6. ASSUME NEW c \in Calls, OpenSession(c) PROVE KeysInv'
  BY <1>1, <1>2, <1>6 DEF OpenSession, RowsStep, TypeOK, Carried
<1>7. ASSUME NEW c \in Calls, CountKeys(c) \/ RefuseOwnKey(c) \/ DeactivateKey(c)
      PROVE  KeysInv'
  BY <1>1, <1>2, <1>7 DEF CountKeys, RefuseOwnKey, DeactivateKey, RowsStep, TypeOK, Carried
<1>8. ASSUME NEW c \in Calls, NEW k \in Keys, NEW scopes \in {AdminScopes, {"moderation"}},
             CreateKey(c, k, scopes)
      PROVE  KeysInv'
  BY <1>1, <1>2, <1>8 DEF CreateKey, RowsStep, TypeOK, Carried
<1>9. ASSUME NEW c \in Calls, NEW k \in Keys, NEW next \in {"deactivating", "rotating"},
             FindKey(c, k, next)
      PROVE  KeysInv'
  BY <1>1, <1>2, <1>9 DEF FindKey, RowsStep, TypeOK, Carried
<1>10. ASSUME NEW c \in Calls, NEW k \in Keys, RotateKey(c, k) PROVE KeysInv'
  <2>1. surplus' \in Nat
    BY <1>10 DEF RotateKey, TypeOK
  <2>2. /\ stage' = [stage EXCEPT ![c] = "done"]
        /\ UNCHANGED <<workspace, sessions, up, caller, target, loaded>>
    BY <1>10 DEF RotateKey
  <2>3. TypeOK'
    BY <1>1, <1>2, <2>1, <2>2 DEF RowsStep, TypeOK
  <2>4. Carried'
    BY <1>1, <2>2 DEF RowsStep, TypeOK, Carried
  <2>5. QED
    BY <2>3, <2>4
<1>11. CASE OpenClerkSession \/ \E s \in sessions : Expire(s)
  BY <1>1, <1>2, <1>11 DEF OpenClerkSession, Expire, RowsStep, TypeOK, Carried
<1>12. CASE DeleteWorkspace
  BY <1>1, <1>2, <1>12 DEF DeleteWorkspace, RowsStep, TypeOK, Carried
<1>13. CASE Crash
  BY <1>1, <1>2, <1>13 DEF Crash, InFlight, RowsStep, TypeOK, Carried
<1>14. CASE Start
  BY <1>1, <1>2, <1>14 DEF Start, RowsStep, TypeOK, Carried
<1>15. CASE UNCHANGED vars
  BY <1>15 DEF vars, TypeOK, Carried
<1>16. QED
  BY <1>3, <1>4, <1>5, <1>6, <1>7, <1>8, <1>9, <1>10, <1>11, <1>12, <1>13, <1>14, <1>15
     DEF Next, Handle

LEMMA AlwaysKeysInv == Spec => []KeysInv
  BY KeysInit, KeysStep, PTL DEF Spec

\* Rows, sessions and calls keep their types, for any keys and limit.
THEOREM TypeCorrect == Spec => []TypeOK
<1>1. KeysInv => TypeOK
  BY DEF KeysInv
<1>2. QED
  BY <1>1, AlwaysKeysInv, PTL

\* No step of any number of calls, on whatever they had read before, and no
\* crash or restart switches a key on that was switched off.
THEOREM DeactivatedKeysStayOff == Spec => DeactivatedStaysOff
<1>1. KeysInv /\ [Next]_vars =>
          [\A k \in DOMAIN keys : ~ keys[k].is_active => ~ keys'[k].is_active]_vars
  BY AnyRows DEF RowsStep
<1>2. QED
  BY <1>1, AlwaysKeysInv, PTL DEF Spec, DeactivatedStaysOff

-----------------------------------------------------------------------------
(* The limit on active keys.                                               *)

\* Calls that found room for a key and have not created it yet.
Creating == {c \in Calls : stage[c] = "creating"}

Base == IF Limit > 2 THEN Limit ELSE 2

\* Calls that found room count as if their key was there: creating it then
\* changes nothing, and only finding room needs the check of the limit.
RoomInv ==
    /\ KeysInv
    /\ Cardinality(InFlight) <= MaxInFlight
    /\ \/ DOMAIN keys = {} /\ ~ up /\ InFlight = {}
       \/ BootKeys \subseteq DOMAIN keys
    /\ Limit > 0 =>
          Cardinality(ActiveKeys) + Cardinality(Creating) <= Base + (MaxInFlight - 1) + surplus

LEMMA RoomTypes ==
    ASSUME KeysInv
    PROVE  /\ IsFiniteSet(ActiveKeys) /\ Cardinality(ActiveKeys) \in Nat
           /\ IsFiniteSet(InFlight) /\ Cardinality(InFlight) \in Nat
           /\ IsFiniteSet(Creating) /\ Cardinality(Creating) \in Nat
           /\ Creating \subseteq InFlight /\ Cardinality(Creating) <= Cardinality(InFlight)
           /\ Limit \in Nat /\ MaxInFlight \in Nat /\ MaxInFlight >= 1
           /\ Base \in Nat /\ Base >= Limit /\ Base >= 2 /\ surplus \in Nat
<1>1. ActiveKeys \subseteq Keys /\ InFlight \subseteq Calls /\ Creating \subseteq InFlight
  BY DEF ActiveKeys, InFlight, Creating, KeysInv, TypeOK
<1>2. IsFiniteSet(ActiveKeys) /\ IsFiniteSet(InFlight)
  BY <1>1, FS_Subset, ApiKeysAssumption
<1>3. IsFiniteSet(Creating) /\ Cardinality(Creating) <= Cardinality(InFlight)
  BY <1>1, <1>2, FS_Subset
<1>4. /\ Cardinality(ActiveKeys) \in Nat /\ Cardinality(InFlight) \in Nat
      /\ Cardinality(Creating) \in Nat
  BY <1>2, <1>3, FS_CardinalityType
<1>5. Limit \in Nat /\ MaxInFlight \in Nat /\ MaxInFlight >= 1
  BY ApiKeysAssumption
<1>6. Base \in Nat /\ Base >= Limit /\ Base >= 2
  BY <1>5 DEF Base
<1>7. surplus \in Nat
  BY DEF KeysInv, TypeOK
<1>8. QED
  BY <1>1, <1>2, <1>3, <1>4, <1>5, <1>6, <1>7

\* One element more.
LEMMA AddOne ==
    ASSUME NEW S, IsFiniteSet(S), NEW x
    PROVE  /\ IsFiniteSet(S \cup {x})
           /\ Cardinality(S) \in Nat /\ Cardinality(S \cup {x}) \in Nat
           /\ Cardinality(S \cup {x}) <= Cardinality(S) + 1
<1> DEFINE n == Cardinality(S)
           m == Cardinality(S \cup {x})
<1>1. IsFiniteSet(S \cup {x}) /\ m = IF x \in S THEN n ELSE n + 1
  BY FS_AddElement
<1>2. n \in Nat /\ m \in Nat
  BY <1>1, FS_CardinalityType
<1> HIDE DEF n, m
<1>3. m <= n + 1
  BY <1>1, <1>2
<1>4. QED
  BY <1>1, <1>2, <1>3 DEF n, m

\* Keys that become active are new ones.
LEMMA NewlyActive ==
    ASSUME KeysInv, RowsStep
    PROVE  ActiveKeys' \subseteq ActiveKeys \cup (DOMAIN keys' \ DOMAIN keys)
  BY DEF RowsStep, ActiveKeys, KeysInv, TypeOK, KeyRow

\* A step that adds neither a key nor a call that found room.
LEMMA Fewer ==
    ASSUME RoomInv, KeysInv', DOMAIN keys' = DOMAIN keys, RowsStep,
           Creating' \subseteq Creating, surplus' = surplus
    PROVE  Limit > 0 =>
              Cardinality(ActiveKeys') + Cardinality(Creating') <= Base + (MaxInFlight - 1) + surplus'
<1>1. ActiveKeys' \subseteq ActiveKeys
  BY NewlyActive DEF RoomInv
<1>2. /\ Cardinality(ActiveKeys') <= Cardinality(ActiveKeys)
      /\ Cardinality(Creating') <= Cardinality(Creating)
      /\ Cardinality(ActiveKeys') \in Nat /\ Cardinality(Creating') \in Nat
  BY <1>1, RoomTypes, FS_Subset, FS_CardinalityType DEF RoomInv
<1>3. QED
  BY <1>2, RoomTypes DEF RoomInv

\* Finding room: fewer keys than the limit, and no more calls than in flight.
LEMMA CountFits ==
    ASSUME RoomInv, KeysInv', NEW c \in Calls, CountKeys(c),
           Cardinality(InFlight') <= MaxInFlight
    PROVE  Limit > 0 =>
              Cardinality(ActiveKeys') + Cardinality(Creating') <= Base + (MaxInFlight - 1) + surplus'
<1>1. ActiveKeys' = ActiveKeys /\ surplus' = surplus
  BY DEF CountKeys, ActiveKeys
<1>2. CASE HasRoom
  <2>1. Limit > 0 => Cardinality(ActiveKeys) < Limit
    BY <1>2 DEF HasRoom
  <2>2. Creating' \subseteq InFlight' /\ IsFiniteSet(InFlight')
    <3>1. InFlight' \subseteq Calls
      BY DEF InFlight
    <3>2. QED
      BY <3>1, FS_Subset, ApiKeysAssumption DEF Creating, InFlight
  <2>3. Cardinality(Creating') <= Cardinality(InFlight') /\ Cardinality(Creating') \in Nat
        /\ Cardinality(InFlight') \in Nat
    BY <2>2, FS_Subset, FS_CardinalityType
  <2>4. QED
    BY <1>1, <2>1, <2>3, RoomTypes DEF RoomInv
<1>3. CASE ~ HasRoom
  <2>1. Creating' \subseteq Creating
    BY <1>3 DEF CountKeys, Creating, RoomInv, KeysInv, TypeOK
  <2>2. Cardinality(Creating') <= Cardinality(Creating) /\ Cardinality(Creating') \in Nat
    BY <2>1, RoomTypes, FS_Subset, FS_CardinalityType DEF RoomInv
  <2>3. QED
    BY <1>1, <2>2, RoomTypes DEF RoomInv
<1>4. QED
  BY <1>2, <1>3

\* A key takes the place of the call that found room for it.
LEMMA CreateFits ==
    ASSUME RoomInv, KeysInv', NEW c \in Calls, NEW k \in Keys,
           NEW scopes \in {AdminScopes, {"moderation"}}, CreateKey(c, k, scopes)
    PROVE  Limit > 0 =>
              Cardinality(ActiveKeys') + Cardinality(Creating') <= Base + (MaxInFlight - 1) + surplus'
<1>1. DOMAIN keys' = DOMAIN keys \cup {k} /\ RowsStep
  BY CreateRows DEF CreateKey, With, RoomInv
<1>2. ActiveKeys' \subseteq ActiveKeys \cup {k}
  BY <1>1, NewlyActive DEF RoomInv
<1>3. /\ IsFiniteSet(ActiveKeys \cup {k})
      /\ Cardinality(ActiveKeys \cup {k}) <= Cardinality(ActiveKeys) + 1
      /\ Cardinality(ActiveKeys \cup {k}) \in Nat
  <2>1. IsFiniteSet(ActiveKeys)
    BY RoomTypes DEF RoomInv
  <2>2. QED
    BY <2>1, AddOne
<1>4. Cardinality(ActiveKeys') <= Cardinality(ActiveKeys) + 1 /\ Cardinality(ActiveKeys') \in Nat
  BY <1>2, <1>3, RoomTypes, FS_Subset, FS_CardinalityType DEF RoomInv
<1>5. c \in Creating /\ Creating' = Creating \ {c}
  BY DEF CreateKey, Creating, RoomInv, KeysInv, TypeOK
<1>6. Cardinality(Creating') = Cardinality(Creating) - 1
  BY <1>5, RoomTypes, FS_RemoveElement DEF RoomInv
<1>7. surplus' = surplus
  BY DEF CreateKey
<1>8. QED
  BY <1>4, <1>6, <1>7, RoomTypes DEF RoomInv

\* A rotated key takes the place of an active one, or counts as surplus.
LEMMA RotateFits ==
    ASSUME RoomInv, KeysInv', NEW c \in Calls, NEW k \in Keys, RotateKey(c, k)
    PROVE  Limit > 0 =>
              Cardinality(ActiveKeys') + Cardinality(Creating') <= Base + (MaxInFlight - 1) + surplus'
<1> DEFINE t == target[c]
           rest == ActiveKeys \ {t}
<1>1. t \in DOMAIN keys /\ k \notin DOMAIN keys /\ DOMAIN keys' = DOMAIN keys \cup {k}
  BY DEF RotateKey, With, RoomInv, KeysInv, Carried
<1>2. ~ keys'[t].is_active
  BY <1>1 DEF RotateKey, With, RoomInv, KeysInv, TypeOK, KeyRow
<1>3. ActiveKeys' \subseteq rest \cup {k}
  BY <1>1, <1>2, RotateRows, NewlyActive DEF RoomInv, ActiveKeys
<1>4. Creating' \subseteq Creating
  BY DEF RotateKey, Creating, RoomInv, KeysInv, TypeOK
<1>5. Cardinality(Creating') <= Cardinality(Creating) /\ Cardinality(Creating') \in Nat
  BY <1>4, RoomTypes, FS_Subset, FS_CardinalityType DEF RoomInv
<1>6. IsFiniteSet(rest) /\ Cardinality(rest) \in Nat
      /\ Cardinality(rest) = IF t \in ActiveKeys THEN Cardinality(ActiveKeys) - 1
                             ELSE Cardinality(ActiveKeys)
  BY RoomTypes, FS_RemoveElement, FS_CardinalityType DEF RoomInv
<1> HIDE DEF rest
<1>7. /\ IsFiniteSet(rest \cup {k})
      /\ Cardinality(rest \cup {k}) <= Cardinality(rest) + 1
      /\ Cardinality(rest \cup {k}) \in Nat
  BY <1>6, AddOne
<1>8. Cardinality(ActiveKeys') <= Cardinality(rest) + 1 /\ Cardinality(ActiveKeys') \in Nat
  BY <1>3, <1>6, <1>7, FS_Subset, FS_CardinalityType
<1>9. surplus' = IF t \in ActiveKeys THEN surplus ELSE surplus + 1
  BY DEF RotateKey
<1>10. Cardinality(ActiveKeys') - surplus' <= Cardinality(ActiveKeys) - surplus
  <2> DEFINE n == Cardinality(ActiveKeys)
             m == Cardinality(ActiveKeys')
             r == Cardinality(rest)
  <2>1. n \in Nat /\ surplus \in Nat
    BY RoomTypes DEF RoomInv
  <2>2. m \in Nat /\ r \in Nat /\ m <= r + 1
    BY <1>6, <1>8
  <2>3. r = IF t \in ActiveKeys THEN n - 1 ELSE n
    BY <1>6
  <2> HIDE DEF n, m, r, t
  <2>4. CASE t \in ActiveKeys
    BY <2>1, <2>2, <2>3, <2>4, <1>9 DEF n, m
  <2>5. CASE t \notin ActiveKeys
    BY <2>1, <2>2, <2>3, <2>5, <1>9 DEF n, m
  <2>6. QED
    BY <2>4, <2>5
<1>11. surplus' \in Nat
  BY DEF KeysInv, TypeOK
<1>12. /\ Cardinality(ActiveKeys) \in Nat /\ Cardinality(Creating) \in Nat
       /\ Base \in Nat /\ MaxInFlight \in Nat /\ surplus \in Nat
  BY RoomTypes DEF RoomInv
<1>13. Limit > 0 => Cardinality(ActiveKeys) + Cardinality(Creating) <= Base + (MaxInFlight - 1) + surplus
  BY DEF RoomInv
<1>14. QED
  BY <1>5, <1>8, <1>10, <1>11, <1>12, <1>13

\* The first start of a default workspace creates its keys, a later one finds
\* them.
LEMMA StartFits ==
    ASSUME RoomInv, KeysInv', Start
    PROVE  /\ BootKeys \subseteq DOMAIN keys'
           /\ Limit > 0 =>
                 Cardinality(ActiveKeys') + Cardinality(Creating') <= Base + (MaxInFlight - 1) + surplus'
<1>1. /\ DOMAIN keys' = DOMAIN keys \cup BootKeys
      /\ Creating' = Creating /\ surplus' = surplus
  BY DEF Start, Creating
<1>2. CASE BootKeys \subseteq DOMAIN keys
  <2>1. DOMAIN keys' = DOMAIN keys
    BY <1>1, <1>2
  <2>2. QED
    BY <1>1, <2>1, <1>2, Fewer, StartRows DEF RoomInv
<1>3. CASE DOMAIN keys = {} /\ InFlight = {}
  <2>1. Creating' = {} /\ Cardinality(Creating') = 0
    BY <1>1, <1>3, RoomTypes, FS_EmptySet DEF RoomInv
  <2>2. ActiveKeys' \subseteq DOMAIN BootScopes
    BY <1>1, <1>3 DEF ActiveKeys, BootKeys
  <2>3. IsFiniteSet(DOMAIN BootScopes)
    BY FS_Subset, ApiKeysAssumption
  <2>4. /\ Cardinality(DOMAIN BootScopes) <= 2 /\ Cardinality(DOMAIN BootScopes) \in Nat
        /\ Cardinality(ActiveKeys') <= Cardinality(DOMAIN BootScopes)
        /\ Cardinality(ActiveKeys') \in Nat
    BY <2>2, <2>3, FS_Subset, FS_CardinalityType, ApiKeysAssumption
  <2>5. QED
    BY <1>1, <2>1, <2>4, RoomTypes DEF RoomInv
<1>4. QED
  BY <1>2, <1>3 DEF RoomInv

\* Calls enter one by one, while there is room for one more.
LEMMA FlightStep ==
    ASSUME RoomInv, [Next]_vars
    PROVE  Cardinality(InFlight') <= MaxInFlight
<1>1. ASSUME NEW c \in Calls,
             (\E k \in Keys : ReadKey(c, k)) \/ (\E s \in sessions : ReadSession(c, s))
      PROVE  Cardinality(InFlight') <= MaxInFlight
  <2>1. Cardinality(InFlight) < MaxInFlight /\ InFlight' = InFlight \cup {c}
    BY <1>1 DEF ReadKey, ReadSession, Begin, InFlight, RoomInv, KeysInv, TypeOK
  <2>2. Cardinality(InFlight \cup {c}) <= Cardinality(InFlight) + 1
        /\ Cardinality(InFlight \cup {c}) \in Nat
    <3>1. IsFiniteSet(InFlight)
      BY RoomTypes DEF RoomInv
    <3>2. QED
      BY <3>1, AddOne
  <2>3. QED
    BY <2>1, <2>2, RoomTypes DEF RoomInv
<1>2. ASSUME InFlight' \subseteq InFlight PROVE Cardinality(InFlight') <= MaxInFlight
  BY <1>2, RoomTypes, FS_Subset, FS_CardinalityType DEF RoomInv
<1>3. ASSUME NEW c \in Calls, Handle(c) PROVE InFlight' \subseteq InFlight
  BY <1>3 DEF Handle, TouchKey, OpenSession, CountKeys, CreateKey, FindKey, RefuseOwnKey,
              DeactivateKey, RotateKey, InFlight, RoomInv, KeysInv, TypeOK
<1>4. CASE OpenClerkSession \/ (\E s \in sessions : Expire(s)) \/ DeleteWorkspace \/ Start
           \/ UNCHANGED vars
  BY <1>2, <1>4 DEF OpenClerkSession, Expire, DeleteWorkspace, Start, vars, InFlight
<1>5. CASE Crash
  <2>1. InFlight' = {}
    BY <1>5 DEF Crash, InFlight
  <2>2. QED
    BY <1>2, <2>1
<1>6. QED
  BY <1>1, <1>2, <1>3, <1>4, <1>5 DEF Next

LEMMA RoomStep ==
    ASSUME RoomInv, [Next]_vars
    PROVE  RoomInv'
<1>1. KeysInv' /\ RowsStep /\ Cardinality(InFlight') <= MaxInFlight
  BY KeysStep, AnyRows, FlightStep DEF RoomInv
<1>2. BootKeys' = BootKeys
  BY DEF Next, vars, BootKeys
<1>3. ASSUME DOMAIN keys' = DOMAIN keys, Creating' \subseteq Creating, surplus' = surplus,
             BootKeys \subseteq DOMAIN keys \/ (~ up' /\ InFlight' = {})
      PROVE  RoomInv'
  BY <1>1, <1>2, <1>3, Fewer DEF RoomInv
<1>4. ASSUME NEW c \in Calls, Handle(c) PROVE RoomInv'
  <2>1. BootKeys \subseteq DOMAIN keys /\ BootKeys \subseteq DOMAIN keys'
    <3>1. InFlight # {}
      BY <1>4 DEF Handle, TouchKey, OpenSession, CountKeys, CreateKey, FindKey, RefuseOwnKey,
                  DeactivateKey, RotateKey, InFlight
    <3>2. QED
      BY <1>1, <3>1 DEF RoomInv, RowsStep
  <2>2. CASE CountKeys(c)
    BY <1>1, <1>2, <2>1, <2>2, CountFits DEF RoomInv
  <2>3. CASE \E k \in Keys, scopes \in {AdminScopes, {"moderation"}} : CreateKey(c, k, scopes)
    BY <1>1, <1>2, <2>1, <2>3, CreateFits DEF RoomInv
  <2>4. CASE \E k \in Keys : RotateKey(c, k)
    BY <1>1, <1>2, <2>1, <2>4, RotateFits DEF RoomInv
  <2>5. CASE TouchKey(c) \/ DeactivateKey(c)
    <3>1. DOMAIN keys' = DOMAIN keys /\ surplus' = surplus
      BY <2>5 DEF TouchKey, DeactivateKey, Update
    <3>2. Creating' \subseteq Creating
      BY <2>5 DEF TouchKey, DeactivateKey, Creating, RoomInv, KeysInv, TypeOK
    <3>3. QED
      BY <1>3, <2>1, <3>1, <3>2
  <2>6. CASE OpenSession(c) \/ RefuseOwnKey(c)
             \/ \E k \in Keys, next \in {"deactivating", "rotating"} : FindKey(c, k, next)
    <3>1. DOMAIN keys' = DOMAIN keys /\ surplus' = surplus
      BY <2>6 DEF OpenSession, RefuseOwnKey, FindKey
    <3>2. Creating' \subseteq Creating
      BY <2>6 DEF OpenSession, RefuseOwnKey, FindKey, Creating, RoomInv, KeysInv, TypeOK
    <3>3. QED
      BY <1>3, <2>1, <3>1, <3>2
  <2>7. QED
    BY <1>4, <2>2, <2>3, <2>4, <2>5, <2>6 DEF Handle
<1>5. ASSUME NEW c \in Calls,
             (\E k \in Keys : ReadKey(c, k)) \/ (\E s \in sessions : ReadSession(c, s))
      PROVE  RoomInv'
  <2>1. DOMAIN keys' = DOMAIN keys /\ surplus' = surplus /\ up
    BY <1>5 DEF ReadKey, ReadSession, Begin
  <2>2. Creating' \subseteq Creating
    BY <1>5 DEF ReadKey, ReadSession, Creating, RoomInv, KeysInv, TypeOK
  <2>3. QED
    BY <1>3, <2>1, <2>2 DEF RoomInv
<1>6. CASE OpenClerkSession \/ (\E s \in sessions : Expire(s)) \/ DeleteWorkspace
           \/ UNCHANGED vars
  <2>1. DOMAIN keys' = DOMAIN keys /\ surplus' = surplus /\ up' = up
    BY <1>6 DEF OpenClerkSession, Expire, DeleteWorkspace, vars
  <2>2. Creating' = Creating /\ InFlight' = InFlight
    BY <1>6 DEF OpenClerkSession, Expire, DeleteWorkspace, vars, Creating, InFlight
  <2>3. QED
    BY <1>3, <2>1, <2>2 DEF RoomInv
<1>7. CASE Crash
  <2>1. DOMAIN keys' = DOMAIN keys /\ surplus' = surplus /\ ~ up'
    BY <1>7 DEF Crash
  <2>2. InFlight' = {} /\ Creating' \subseteq Creating
    BY <1>7 DEF Crash, Creating, InFlight
  <2>3. QED
    BY <1>3, <2>1, <2>2
<1>8. CASE Start
  BY <1>1, <1>2, <1>8, StartFits DEF RoomInv
<1>9. QED
  BY <1>4, <1>5, <1>6, <1>7, <1>8 DEF Next

LEMMA RoomInit == Init => RoomInv
<1> SUFFICES ASSUME Init PROVE RoomInv
  OBVIOUS
<1>1. KeysInv
  BY KeysInit
<1>2. InFlight = {} /\ Creating = {} /\ ~ up /\ surplus = 0
  BY DEF Init, InFlight, Creating
<1>3. Cardinality(InFlight) = 0 /\ Cardinality(Creating) = 0
  BY <1>2, FS_EmptySet
<1>4. CASE boot
  <2>1. DOMAIN keys = {} /\ ActiveKeys = {}
    BY <1>4 DEF Init, ActiveKeys
  <2>2. Cardinality(ActiveKeys) = 0
    BY <2>1, FS_EmptySet
  <2>3. QED
    BY <1>1, <1>2, <1>3, <2>1, <2>2, RoomTypes DEF RoomInv
<1>5. CASE ~ boot
  <2>1. BootKeys = {}
    BY <1>5 DEF BootKeys
  <2>2. PICK admin \in Keys, server \in Keys :
            keys = With(With([k \in {} |-> k], admin, AdminScopes), server, {"moderation"})
    BY <1>5 DEF Init
  <2>3. ActiveKeys \subseteq {admin} \cup {server}
    BY <2>2 DEF ActiveKeys, With
  <2>4. IsFiniteSet({admin}) /\ Cardinality({admin}) = 1
    BY FS_Singleton
  <2>5. /\ IsFiniteSet({admin} \cup {server}) /\ Cardinality({admin} \cup {server}) <= 2
        /\ Cardinality({admin} \cup {server}) \in Nat
    BY <2>4, FS_AddElement, FS_CardinalityType
  <2>6. Cardinality(ActiveKeys) <= 2 /\ Cardinality(ActiveKeys) \in Nat
    BY <2>3, <2>5, FS_Subset, FS_CardinalityType
  <2>7. QED
    BY <1>1, <1>2, <1>3, <2>1, <2>6, RoomTypes DEF RoomInv
<1>6. QED
  BY <1>4, <1>5

\* Active keys pass the limit by the other calls in flight and by rotations of
\* inactive keys, and by nothing else: for every limit, any keys and calls,
\* across crashes and restarts.
THEOREM ActiveKeysBounded == Spec => []KeysBounded
<1>1. RoomInv => KeysBounded
  <2> SUFFICES ASSUME RoomInv, Limit > 0
               PROVE  Cardinality(ActiveKeys) <= Base + (MaxInFlight - 1) + surplus
    BY DEF KeysBounded, Base
  <2>1. QED
    BY RoomTypes DEF RoomInv
<1>2. QED
  BY <1>1, RoomInit, RoomStep, PTL DEF Spec
=============================================================================
