--------------------------- MODULE SessionProofs ---------------------------
(***************************************************************************)
(* Rotation, for every number of requests and tokens and whatever overlaps *)
(* on the server, and what a browser tab can count on when its calls do.   *)
(***************************************************************************)
EXTENDS WebSession, TLAPS

Always == TokenTypeOK /\ RotatedIsSpent

\* How one step moves the rows: it appends a row for a login or for a
\* rotation, or it changes flags of the rows there are.
LEMMA RowAppended ==
    ASSUME NEW rows \in Seq(TokenRow), NEW row \in TokenRow
    PROVE  LET next == Append(rows, row) IN
           /\ next \in Seq(TokenRow)
           /\ Len(next) = Len(rows) + 1
           /\ DOMAIN next = 1..(Len(rows) + 1)
           /\ DOMAIN rows = 1..Len(rows)
           /\ \A t \in 1..Len(rows) : next[t] = rows[t]
           /\ next[Len(rows) + 1] = row
  OBVIOUS

LEMMA RowChanged ==
    ASSUME NEW rows \in Seq(TokenRow), NEW next,
           next = [t \in DOMAIN rows |-> next[t]],
           \A t \in DOMAIN rows : next[t] \in TokenRow
    PROVE  /\ next \in Seq(TokenRow)
           /\ Len(next) = Len(rows)
           /\ DOMAIN next = 1..Len(rows) /\ DOMAIN rows = 1..Len(rows)
  <1>1. DOMAIN rows = 1..Len(rows) /\ Len(rows) \in Nat  OBVIOUS
  <1>2. DOMAIN next = 1..Len(rows)  BY <1>1
  <1>3. next \in [1..Len(rows) -> TokenRow]  BY <1>1, <1>2
  <1> QED  BY <1>1, <1>2, <1>3

\* Rotation as a whole: the presented row revoked, a fresh one appended.
LEMMA RotateRows ==
    ASSUME TokenTypeOK, NEW r \in Requests, Rotate(r)
    PROVE  LET t == req[r].token
               n == Len(tokens) + 1 IN
           /\ Len(tokens) \in Nat
           /\ DOMAIN tokens = 1..Len(tokens) /\ DOMAIN tokens' = 1..n
           /\ t \in DOMAIN tokens
           /\ tokens' \in Seq(TokenRow) /\ Len(tokens') = n
           /\ tokens'[n] = NewRow(tokens[t].family, t)
           /\ tokens'[t] = [tokens[t] EXCEPT !.revoked = TRUE]
           /\ \A s \in DOMAIN tokens : s # t => tokens'[s] = tokens[s]
  <1> DEFINE t == req[r].token
             rows == [tokens EXCEPT ![t].revoked = TRUE]
             row == NewRow(tokens[t].family, t)
  <1>1. t \in DOMAIN tokens /\ t \in Nat
        BY DEF TokenTypeOK, Rotate, Idle, Request
  <1>2. DOMAIN tokens = 1..Len(tokens) /\ Len(tokens) \in Nat
        /\ \A s \in DOMAIN tokens : tokens[s] \in TokenRow
        BY DEF TokenTypeOK
  <1>3. \A s \in DOMAIN tokens : rows[s] \in TokenRow
        BY <1>1, <1>2 DEF TokenRow
  <1>4. rows \in Seq(TokenRow) /\ Len(rows) = Len(tokens)
    <2>1. rows = [s \in DOMAIN tokens |-> rows[s]]  OBVIOUS
    <2>2. tokens \in Seq(TokenRow)  BY DEF TokenTypeOK
    <2> HIDE DEF rows
    <2> QED  BY <1>3, <2>1, <2>2, RowChanged
  <1>5. row \in TokenRow  BY <1>1, <1>2 DEF NewRow, TokenRow
  <1>6. tokens' = Append(rows, row)  BY DEF Rotate
  <1>7. /\ rows[t] = [tokens[t] EXCEPT !.revoked = TRUE]
        /\ \A s \in DOMAIN tokens : s # t => rows[s] = tokens[s]
        BY <1>1
  <1> HIDE DEF rows, row
  <1> QED  BY <1>1, <1>2, <1>4, <1>5, <1>6, <1>7, RowAppended DEF row

\* Revoking a family changes no row but for its flag.
LEMMA RevokeRows ==
    ASSUME TokenTypeOK, NEW r \in Requests, RevokeFamily(r)
    PROVE  LET f == tokens[req[r].token].family IN
           /\ Len(tokens) \in Nat
           /\ DOMAIN tokens = 1..Len(tokens) /\ DOMAIN tokens' = 1..Len(tokens)
           /\ req[r].token \in DOMAIN tokens
           /\ tokens' \in Seq(TokenRow) /\ Len(tokens') = Len(tokens)
           /\ \A s \in DOMAIN tokens :
                /\ tokens'[s].family = tokens[s].family
                /\ tokens'[s].parent = tokens[s].parent
                /\ tokens'[s].revoked = (tokens[s].revoked \/ tokens[s].family = f)
  <1>1. req[r].token \in DOMAIN tokens
        BY DEF TokenTypeOK, RevokeFamily, Idle
  <1>2. DOMAIN tokens = 1..Len(tokens) /\ Len(tokens) \in Nat
        /\ \A s \in DOMAIN tokens : tokens[s] \in TokenRow
        BY DEF TokenTypeOK
  <1>3. \A s \in DOMAIN tokens :
                /\ tokens'[s] \in TokenRow
                /\ tokens'[s].family = tokens[s].family
                /\ tokens'[s].parent = tokens[s].parent
                /\ tokens'[s].revoked = (tokens[s].revoked \/
                      tokens[s].family = tokens[req[r].token].family)
        BY <1>2 DEF RevokeFamily, TokenRow
  <1>4. tokens' = [s \in DOMAIN tokens |-> tokens'[s]]
        BY DEF RevokeFamily
  <1>5. /\ tokens' \in Seq(TokenRow) /\ Len(tokens') = Len(tokens)
        /\ DOMAIN tokens' = 1..Len(tokens)
        BY <1>3, <1>4, RowChanged DEF TokenTypeOK
  <1> QED  BY <1>1, <1>2, <1>3, <1>5

LEMMA ExpireRows ==
    ASSUME TokenTypeOK, NEW t \in DOMAIN tokens, Expire(t)
    PROVE  /\ Len(tokens) \in Nat
           /\ DOMAIN tokens = 1..Len(tokens) /\ DOMAIN tokens' = 1..Len(tokens)
           /\ tokens' \in Seq(TokenRow) /\ Len(tokens') = Len(tokens)
           /\ \A s \in DOMAIN tokens :
                /\ tokens'[s].family = tokens[s].family
                /\ tokens'[s].parent = tokens[s].parent
                /\ tokens'[s].revoked = tokens[s].revoked
  <1>1. DOMAIN tokens = 1..Len(tokens) /\ Len(tokens) \in Nat
        /\ \A s \in DOMAIN tokens : tokens[s] \in TokenRow
        BY DEF TokenTypeOK
  <1>2. \A s \in DOMAIN tokens :
                /\ tokens'[s] \in TokenRow
                /\ tokens'[s].family = tokens[s].family
                /\ tokens'[s].parent = tokens[s].parent
                /\ tokens'[s].revoked = tokens[s].revoked
        BY <1>1 DEF Expire, TokenRow
  <1>3. tokens' = [s \in DOMAIN tokens |-> tokens'[s]]
        BY DEF Expire
  <1>4. /\ tokens' \in Seq(TokenRow) /\ Len(tokens') = Len(tokens)
        /\ DOMAIN tokens' = 1..Len(tokens)
        BY <1>2, <1>3, RowChanged DEF TokenTypeOK
  <1> QED  BY <1>1, <1>2, <1>4

LEMMA LoginRows ==
    ASSUME TokenTypeOK, Login
    PROVE  LET n == Len(tokens) + 1 IN
           /\ Len(tokens) \in Nat
           /\ DOMAIN tokens = 1..Len(tokens) /\ DOMAIN tokens' = 1..n
           /\ tokens' \in Seq(TokenRow) /\ Len(tokens') = n
           /\ tokens'[n] = NewRow(n, 0)
           /\ \A s \in DOMAIN tokens : tokens'[s] = tokens[s]
  <1>1. Len(tokens) \in Nat  BY DEF TokenTypeOK
  <1>2. NewRow(Len(tokens) + 1, 0) \in TokenRow
        BY <1>1 DEF NewRow, TokenRow
  <1> QED  BY <1>1, <1>2, RowAppended DEF TokenTypeOK, Login

-----------------------------------------------------------------------------
(***************************************************************************)
(* What holds whatever overlaps.                                           *)
(***************************************************************************)
LEMMA AlwaysInit == TokenInit => Always
  BY DEF TokenInit, Always, TokenTypeOK, RotatedIsSpent, Request, Idle

\* Every row's family and parent are rows themselves.
LEMMA RowsRefer ==
    ASSUME Always
    PROVE  /\ Len(tokens) \in Nat /\ DOMAIN tokens = 1..Len(tokens)
           /\ \A s \in DOMAIN tokens :
                /\ tokens[s].parent \in Nat /\ tokens[s].family \in Nat
                /\ tokens[s].parent # 0 => tokens[s].parent \in DOMAIN tokens
  <1>1. /\ Len(tokens) \in Nat /\ DOMAIN tokens = 1..Len(tokens)
        /\ \A s \in DOMAIN tokens : tokens[s] \in TokenRow
        BY DEF Always, TokenTypeOK
  <1>2. \A s \in DOMAIN tokens :
           tokens[s].parent \in Nat /\ tokens[s].family \in Nat
        BY <1>1 DEF TokenRow
  <1> QED  BY <1>1, <1>2 DEF Always, RotatedIsSpent

\* A step that keeps every row's place in its family and revives none, and
\* that inserts at most one row, properly placed, keeps RotatedIsSpent.
LEMMA SpentKept ==
    ASSUME Always,
           DOMAIN tokens \subseteq DOMAIN tokens',
           \A s \in DOMAIN tokens :
              /\ tokens'[s].family = tokens[s].family
              /\ tokens'[s].parent = tokens[s].parent
              /\ ~tokens'[s].revoked => ~tokens[s].revoked,
           \A s \in DOMAIN tokens' \ DOMAIN tokens :
              LET p == tokens'[s].parent IN
              IF p = 0 THEN tokens'[s].family = s
              ELSE /\ p \in DOMAIN tokens /\ p < s /\ tokens'[p].revoked
                   /\ tokens'[s].family = tokens[p].family
    PROVE  RotatedIsSpent'
  <1> SUFFICES ASSUME NEW s \in DOMAIN tokens'
               PROVE  LET p == tokens'[s].parent IN
                      IF p = 0 THEN tokens'[s].family = s
                      ELSE p < s /\ tokens'[p].revoked /\ tokens'[p].family = tokens'[s].family
      BY DEF RotatedIsSpent, Live
  <1>1. CASE s \in DOMAIN tokens
        BY <1>1, RowsRefer DEF Always, RotatedIsSpent, Live
  <1>2. CASE s \notin DOMAIN tokens
        BY <1>2
  <1> QED  BY <1>1, <1>2

LEMMA AlwaysNext == Always /\ [TokenNext]_tokenVars => Always'
  <1> SUFFICES ASSUME Always, [TokenNext]_tokenVars PROVE Always'
      OBVIOUS
  <1>0. TokenTypeOK  BY DEF Always
  <1>1. CASE Login
    <2>1. /\ Len(tokens) \in Nat /\ DOMAIN tokens = 1..Len(tokens)
          /\ DOMAIN tokens' = 1..(Len(tokens) + 1)
          /\ tokens' \in Seq(TokenRow) /\ Len(tokens') = Len(tokens) + 1
          /\ tokens'[Len(tokens) + 1] = NewRow(Len(tokens) + 1, 0)
          /\ \A s \in DOMAIN tokens : tokens'[s] = tokens[s]
          BY <1>0, <1>1, LoginRows
    <2>2. TokenTypeOK'
          BY <1>0, <1>1, <2>1 DEF TokenTypeOK, Login, NewRow
    <2>3. RotatedIsSpent'
          BY <2>1, SpentKept DEF NewRow, Live
    <2> QED  BY <2>2, <2>3 DEF Always
  <1>2. ASSUME NEW r \in Requests, NEW t \in DOMAIN tokens,
               ReadRefresh(r, t) \/ ReadLogout(r, t)
        PROVE  Always'
    <2>1. /\ UNCHANGED <<tokens, ended>>
          /\ contested' \subseteq contested \cup {t}
          BY <1>2 DEF ReadRefresh, ReadLogout
    <2>2. t \in Nat /\ t \in DOMAIN tokens  BY <1>0 DEF TokenTypeOK
    <2>3. \E ph \in {"rotate", "revoke"} :
             req' = [req EXCEPT ![r] = [phase |-> ph, token |-> t]]
          BY <1>2 DEF ReadRefresh, ReadLogout
    <2>4. PICK ph \in {"rotate", "revoke"} :
             req' = [req EXCEPT ![r] = [phase |-> ph, token |-> t]]
          BY <2>3
    <2>5. /\ req \in [Requests -> Request]
          /\ [phase |-> ph, token |-> t] \in Request
          BY <1>0, <2>2 DEF TokenTypeOK, Request
    <2>6. req' \in [Requests -> Request]
          BY <2>4, <2>5
    <2>7. \A s \in Requests : IF req'[s].phase = "idle" THEN req'[s] = Idle
                               ELSE req'[s].token \in DOMAIN tokens
          BY <1>0, <2>2, <2>4, <2>5 DEF TokenTypeOK
    <2>8. TokenTypeOK'
      <3>1. contested' \subseteq 1..Len(tokens')
        <4>1. contested \subseteq 1..Len(tokens)  BY <1>0 DEF TokenTypeOK
        <4>2. t \in 1..Len(tokens)  BY <1>0, <2>2 DEF TokenTypeOK
        <4> QED  BY <2>1, <4>1, <4>2
      <3> QED  BY <1>0, <2>1, <2>6, <2>7, <3>1 DEF TokenTypeOK, Idle
    <2> QED  BY <2>1, <2>8 DEF Always, RotatedIsSpent, Live
  <1>3. ASSUME NEW r \in Requests, Rotate(r) PROVE Always'
    <2> DEFINE t == req[r].token
               n == Len(tokens) + 1
    <2>1. /\ Len(tokens) \in Nat /\ DOMAIN tokens = 1..Len(tokens)
          /\ DOMAIN tokens' = 1..n /\ t \in DOMAIN tokens
          /\ tokens' \in Seq(TokenRow) /\ Len(tokens') = n
          /\ tokens'[n] = NewRow(tokens[t].family, t)
          /\ tokens'[t] = [tokens[t] EXCEPT !.revoked = TRUE]
          /\ \A s \in DOMAIN tokens : s # t => tokens'[s] = tokens[s]
          BY <1>0, <1>3, RotateRows
    <2>2. /\ req' = [req EXCEPT ![r] = Idle]
          /\ ended' = ended /\ contested' = contested
          BY <1>3 DEF Rotate
    <2> HIDE DEF t
    <2>3. \A s \in DOMAIN tokens : tokens[s].family \in DOMAIN tokens
          BY <1>0 DEF TokenTypeOK
    <2>4. tokens[t] \in TokenRow  BY <1>0, <2>1 DEF TokenTypeOK
    <2>5. /\ tokens'[t].family = tokens[t].family
          /\ tokens'[t].parent = tokens[t].parent
          /\ tokens'[t].revoked
          BY <2>1, <2>4 DEF TokenRow, Live
    <2>6. tokens'[n].parent = t /\ tokens'[n].family = tokens[t].family
          BY <2>1 DEF NewRow
    <2>7. \A s \in DOMAIN tokens :
              /\ tokens'[s].family = tokens[s].family
              /\ tokens'[s].parent = tokens[s].parent
              /\ ~tokens'[s].revoked => ~tokens[s].revoked
          BY <2>1, <2>5 DEF Live
    <2>8. \A s \in DOMAIN tokens' \ DOMAIN tokens : s = n
          BY <2>1
    <2>9. DOMAIN tokens \subseteq DOMAIN tokens' /\ t < n
          BY <2>1
    <2> HIDE DEF n
    <2>10. RotatedIsSpent'
      <3>1. t # 0 /\ t \in DOMAIN tokens  BY <2>1
      <3>2. \A s \in DOMAIN tokens' \ DOMAIN tokens :
              LET p == tokens'[s].parent IN
              IF p = 0 THEN tokens'[s].family = s
              ELSE /\ p \in DOMAIN tokens /\ p < s /\ tokens'[p].revoked
                   /\ tokens'[s].family = tokens[p].family
            BY <2>5, <2>6, <2>8, <2>9, <3>1
      <3> QED  BY <2>7, <2>9, <3>2, SpentKept DEF Live
    <2>11. \A s \in DOMAIN tokens' : tokens'[s].family \in DOMAIN tokens'
           BY <2>1, <2>3, <2>6, <2>7, <2>8, <2>9
    <2>12. TokenTypeOK'
           BY <1>0, <2>1, <2>2, <2>9, <2>11 DEF TokenTypeOK, Request, Idle, n
    <2> QED  BY <2>10, <2>12 DEF Always
  <1>4. ASSUME NEW r \in Requests, RevokeFamily(r) PROVE Always'
    <2>2. /\ Len(tokens) \in Nat /\ DOMAIN tokens = 1..Len(tokens)
          /\ DOMAIN tokens' = 1..Len(tokens)
          /\ tokens' \in Seq(TokenRow) /\ Len(tokens') = Len(tokens)
          /\ req[r].token \in DOMAIN tokens
          /\ \A s \in DOMAIN tokens :
                /\ tokens'[s].family = tokens[s].family
                /\ tokens'[s].parent = tokens[s].parent
                /\ tokens'[s].revoked = (tokens[s].revoked
                      \/ tokens[s].family = tokens[req[r].token].family)
          BY <1>0, <1>4, RevokeRows
    <2>3. /\ req' = [req EXCEPT ![r] = Idle]
          /\ ended' \subseteq ended \cup {tokens[req[r].token].family}
          /\ contested' = contested
          BY <1>4 DEF RevokeFamily, Ends
    <2>4. tokens[req[r].token].family \in 1..Len(tokens)
          BY <1>0, <2>2 DEF TokenTypeOK
    <2>5. TokenTypeOK'
          BY <1>0, <2>2, <2>3, <2>4 DEF TokenTypeOK, Request, Idle
    <2>6. RotatedIsSpent'
          BY <2>2, SpentKept DEF Live
    <2> QED  BY <2>5, <2>6 DEF Always
  <1>5. ASSUME NEW r \in Requests, Abort(r) PROVE Always'
        BY <1>5 DEF Always, Abort, TokenTypeOK, RotatedIsSpent, Live, Request, Idle
  <1>6. ASSUME NEW t \in DOMAIN tokens, Expire(t) PROVE Always'
    <2>1. TokenTypeOK'
          BY <1>0, <1>6, ExpireRows DEF TokenTypeOK, Expire
    <2>2. RotatedIsSpent'
          BY <1>0, <1>6, ExpireRows, SpentKept DEF Live
    <2> QED  BY <2>1, <2>2 DEF Always
  <1>7. CASE UNCHANGED tokenVars
        BY <1>7 DEF Always, tokenVars, TokenTypeOK, RotatedIsSpent, Live
  <1> QED  BY <1>1, <1>2, <1>3, <1>4, <1>5, <1>6, <1>7 DEF TokenNext, Handle

\* Whatever requests overlap, a rotated token is spent, and its successor
\* carries on the same family.
THEOREM RotationSpends == TokenSpec => []RotatedIsSpent
  <1>1. Always => RotatedIsSpent  BY DEF Always
  <1> QED  BY AlwaysInit, AlwaysNext, <1>1, PTL DEF TokenSpec
-----------------------------------------------------------------------------
(***************************************************************************)
(* Chains and families, whatever overlaps.  The inductive step: a refresh  *)
(* that has a token for itself rotates a token that has no successor yet,  *)
(* and it carries the family as the live token did when it read it.        *)
(***************************************************************************)
\* The invariant but for its types.
Chains == RotatesFirst /\ RotationChain /\ OneCarrier /\ EndedIsQuiet /\ EndedStaysEnded

\* A contested token of family f.
Met(f) == \E u \in contested : tokens[u].family = f

\* A request names a row.
LEMMA RequestsRefer ==
    ASSUME TokenTypeOK
    PROVE  /\ req \in [Requests -> Request]
           /\ \A s \in Requests : req[s].phase # "idle" => req[s].token \in DOMAIN tokens
           /\ contested \subseteq DOMAIN tokens
           /\ DOMAIN tokens = 1..Len(tokens) /\ Len(tokens) \in Nat
           /\ \A t \in DOMAIN tokens :
                tokens[t] \in TokenRow /\ tokens[t].family \in DOMAIN tokens
  BY DEF TokenTypeOK

LEMMA ChainsInit == TokenInit => TokenInv
  <1> SUFFICES ASSUME TokenInit PROVE TokenInv
      OBVIOUS
  <1>1. TokenTypeOK /\ RotatedIsSpent  BY AlwaysInit DEF Always
  <1>2. tokens = <<>> /\ ended = {} /\ \A r \in Requests : req[r].phase = "idle"
        BY DEF TokenInit, Idle
  <1>3. DOMAIN tokens = {}  BY <1>2
  <1> QED  BY <1>1, <1>2, <1>3 DEF TokenInv, RotatesFirst, RotationChain,
           OneCarrier, EndedIsQuiet, EndedStaysEnded

\* A step that leaves families, parents and histories alone, revives nothing
\* and starts no refresh keeps the invariant.
LEMMA ChainsCalm ==
    ASSUME TokenInv, TokenTypeOK', DOMAIN tokens' = DOMAIN tokens,
           contested' = contested, ended' = ended,
           \A s \in DOMAIN tokens :
              /\ tokens'[s].family = tokens[s].family
              /\ tokens'[s].parent = tokens[s].parent
              /\ ~tokens'[s].revoked => ~tokens[s].revoked,
           \A s \in Requests : req'[s].phase = "rotate" => req'[s] = req[s]
    PROVE  Chains'
  <1>1. /\ \A s \in Requests : req[s].phase # "idle" => req[s].token \in DOMAIN tokens
        /\ contested \subseteq DOMAIN tokens
        BY RequestsRefer DEF TokenInv
  <1>2. \A s \in Requests : req'[s].phase = "rotate" =>
           req[s].phase = "rotate" /\ req'[s].token = req[s].token
           /\ req[s].token \in DOMAIN tokens
        BY <1>1
  <1>3. RotatesFirst'
        BY <1>2 DEF TokenInv, RotatesFirst
  <1>4. RotationChain'
        BY DEF TokenInv, RotationChain
  <1>5. \A s \in DOMAIN tokens : Carries(s)' => Carries(s)
        BY <1>2 DEF Carries, Live, Rotating
  <1>6. OneCarrier'
        BY <1>1, <1>5 DEF TokenInv, OneCarrier
  <1>7. EndedIsQuiet'
        BY <1>2 DEF TokenInv, EndedIsQuiet, RefreshInFlight
  <1>8. EndedStaysEnded'
        BY DEF TokenInv, EndedStaysEnded, Live
  <1> QED  BY <1>3, <1>4, <1>6, <1>7, <1>8 DEF Chains

\* A login: its token carries a family of its own.
LEMMA ChainsLogin ==
    ASSUME TokenInv, TokenTypeOK', Login
    PROVE  Chains'
  <1> DEFINE n == Len(tokens) + 1
  <1>1. /\ Len(tokens) \in Nat /\ DOMAIN tokens = 1..Len(tokens)
        /\ DOMAIN tokens' = 1..n /\ tokens'[n] = NewRow(n, 0)
        /\ \A s \in DOMAIN tokens : tokens'[s] = tokens[s]
        /\ UNCHANGED <<req, contested, ended>>
        BY LoginRows DEF TokenInv, Login
  <1>2. /\ \A s \in Requests : req[s].phase # "idle" => req[s].token \in DOMAIN tokens
        /\ contested \subseteq DOMAIN tokens
        /\ \A s \in DOMAIN tokens :
             tokens[s] \in TokenRow /\ tokens[s].family \in DOMAIN tokens
        /\ ended \subseteq DOMAIN tokens
        BY <1>1, RequestsRefer DEF TokenInv, TokenTypeOK
  <1>3. /\ tokens'[n].family = n /\ tokens'[n].parent = 0
        /\ n \notin DOMAIN tokens
        /\ \A s \in DOMAIN tokens' : s \in DOMAIN tokens \/ s = n
        BY <1>1 DEF NewRow
  <1> HIDE DEF n
  <1>4. RotatesFirst'
    <2>1. \A s \in Requests : req[s].phase = "rotate" => req[s].token # 0
          BY <1>1, <1>2
    <2> QED  BY <1>1, <1>3, <2>1 DEF TokenInv, RotatesFirst
  <1>5. RotationChain'
        BY <1>1, <1>3 DEF TokenInv, RotationChain
  <1>6. \A s \in DOMAIN tokens : Carries(s)' => Carries(s)
        BY <1>1 DEF Carries, Live, Rotating
  <1>7. OneCarrier'
    <2> SUFFICES ASSUME NEW s \in DOMAIN tokens', NEW t \in DOMAIN tokens',
                        Carries(s)', Carries(t)', s # t,
                        tokens'[s].family = tokens'[t].family
                 PROVE  \E u \in contested : tokens'[u].family = tokens'[s].family
        BY <1>1 DEF OneCarrier
    <2>1. s \in DOMAIN tokens /\ t \in DOMAIN tokens
          BY <1>1, <1>2, <1>3
    <2>2. PICK u \in contested : tokens[u].family = tokens[s].family
          BY <1>1, <1>6, <2>1 DEF TokenInv, OneCarrier
    <2> QED  BY <1>1, <1>2, <2>1, <2>2
  <1>8. EndedIsQuiet'
        BY <1>1, <1>2 DEF TokenInv, EndedIsQuiet, RefreshInFlight
  <1>9. EndedStaysEnded'
        BY <1>1, <1>2, <1>3 DEF TokenInv, EndedStaysEnded, Live
  <1> QED  BY <1>4, <1>5, <1>7, <1>8, <1>9 DEF Chains

\* refresh reads a live row: it meets whoever is at it, or has it for itself.
LEMMA ChainsRead ==
    ASSUME TokenInv, TokenTypeOK', NEW r \in Requests, NEW t \in DOMAIN tokens,
           ReadRefresh(r, t), Live(t)
    PROVE  Chains'
  <1>1. /\ tokens' = tokens /\ ended' = ended /\ req[r] = Idle
        /\ req'[r].phase = "rotate" /\ req'[r].token = t
        /\ \A s \in Requests : s # r => req'[s] = req[s]
        /\ contested' = IF Rotating(t) THEN contested \cup {t} ELSE contested
        BY RequestsRefer DEF ReadRefresh, TokenInv
  <1>2. /\ \A s \in Requests : req[s].phase # "idle" => req[s].token \in DOMAIN tokens
        BY RequestsRefer DEF TokenInv
  <1>3. contested \subseteq contested' /\ (Rotating(t) => t \in contested')
        BY <1>1
  <1>4. RotatesFirst'
    <2> SUFFICES ASSUME NEW s \in Requests, req'[s].phase = "rotate",
                        req'[s].token \notin contested'
                 PROVE  /\ \A q \in Requests \ {s} :
                             ~(req'[q].phase = "rotate" /\ req'[q].token = req'[s].token)
                        /\ \A u \in DOMAIN tokens : tokens[u].parent # req'[s].token
        BY <1>1 DEF RotatesFirst
    <2>1. CASE s = r
      <3>1. ~Rotating(t)  BY <1>1, <1>3, <2>1
      <3>2. \A q \in Requests \ {r} : ~(req'[q].phase = "rotate" /\ req'[q].token = t)
            BY <1>1, <3>1 DEF Rotating
      <3>3. \A u \in DOMAIN tokens : tokens[u].parent # t
        <4>1. t # 0  BY RequestsRefer DEF TokenInv
        <4> QED  BY <4>1 DEF TokenInv, RotatedIsSpent
      <3> QED  BY <1>1, <2>1, <3>2, <3>3
    <2>2. CASE s # r
      <3>1. req[s].phase = "rotate" /\ req'[s] = req[s] /\ req[s].token \notin contested
            BY <1>1, <1>3, <2>2
      <3>2. req[s].token # t  BY <1>3, <3>1 DEF Rotating
      <3>3. /\ \A q \in Requests \ {s} :
                 ~(req[q].phase = "rotate" /\ req[q].token = req[s].token)
            /\ \A u \in DOMAIN tokens : tokens[u].parent # req[s].token
            BY <3>1 DEF TokenInv, RotatesFirst
      <3> QED  BY <1>1, <3>1, <3>2, <3>3
    <2> QED  BY <2>1, <2>2
  <1>5. RotationChain'
        BY <1>1, <1>3 DEF TokenInv, RotationChain
  <1>6. \A s \in DOMAIN tokens : Carries(s)' => Carries(s)
        BY <1>1 DEF Carries, Live, Rotating
  <1>7. OneCarrier'
        BY <1>1, <1>3, <1>6 DEF TokenInv, OneCarrier
  <1>8. tokens[t].family \notin ended
        BY DEF TokenInv, EndedStaysEnded
  <1>9. EndedIsQuiet'
        BY <1>1, <1>8 DEF TokenInv, EndedIsQuiet, RefreshInFlight
  <1>10. EndedStaysEnded'
        BY <1>1 DEF TokenInv, EndedStaysEnded, Live
  <1> QED  BY <1>4, <1>5, <1>7, <1>9, <1>10 DEF Chains

\* refresh commits: its token was the carrier of the family, now the
\* successor is.
LEMMA ChainsRotate ==
    ASSUME TokenInv, TokenTypeOK', NEW r \in Requests, Rotate(r)
    PROVE  Chains'
  <1> DEFINE t == req[r].token
             f == tokens[t].family
             n == Len(tokens) + 1
  <1>1. /\ Len(tokens) \in Nat /\ DOMAIN tokens = 1..Len(tokens)
        /\ DOMAIN tokens' = 1..n /\ t \in DOMAIN tokens
        /\ tokens'[n] = NewRow(f, t)
        /\ tokens'[t] = [tokens[t] EXCEPT !.revoked = TRUE]
        /\ \A s \in DOMAIN tokens : s # t => tokens'[s] = tokens[s]
        BY RotateRows DEF TokenInv
  <1>2. /\ \A s \in Requests : req[s].phase # "idle" => req[s].token \in DOMAIN tokens
        /\ contested \subseteq DOMAIN tokens
        /\ \A s \in DOMAIN tokens : tokens[s] \in TokenRow
        BY RequestsRefer DEF TokenInv
  <1>3. /\ req[r].phase = "rotate" /\ req'[r].phase = "idle"
        /\ contested' = contested /\ ended' = ended
        /\ \A s \in Requests : s # r => req'[s] = req[s]
        BY RequestsRefer DEF Rotate, Idle, TokenInv
  <1>4. \A s \in DOMAIN tokens :
           /\ tokens'[s].family = tokens[s].family
           /\ tokens'[s].parent = tokens[s].parent
           /\ ~tokens'[s].revoked => ~tokens[s].revoked /\ s # t
    <2>1. tokens[t] \in TokenRow  BY <1>1, <1>2
    <2> HIDE DEF t, f, n
    <2> QED  BY <1>1, <2>1 DEF TokenRow
  <1>5. /\ tokens'[n].family = f /\ tokens'[n].parent = t
        /\ n \notin DOMAIN tokens /\ t # n
        /\ \A s \in DOMAIN tokens' : s \in DOMAIN tokens \/ s = n
    <2> HIDE DEF t, f
    <2> QED  BY <1>1 DEF NewRow
  <1>6. t = req[r].token /\ f = tokens[t].family  OBVIOUS
  <1> HIDE DEF t, f, n
  <1>7. t \notin contested =>
          /\ \A s \in Requests \ {r} : ~(req[s].phase = "rotate" /\ req[s].token = t)
          /\ \A s \in DOMAIN tokens : tokens[s].parent # t
        BY <1>3, <1>6 DEF TokenInv, RotatesFirst
  <1>8. RotatesFirst'
    <2> SUFFICES ASSUME NEW s \in Requests, req'[s].phase = "rotate",
                        req'[s].token \notin contested'
                 PROVE  /\ \A q \in Requests \ {s} :
                             ~(req'[q].phase = "rotate" /\ req'[q].token = req'[s].token)
                        /\ \A u \in DOMAIN tokens' : tokens'[u].parent # req'[s].token
        BY DEF RotatesFirst
    <2>1. s # r /\ req'[s] = req[s] /\ req[s].token \notin contested
          BY <1>3
    <2>2. /\ \A q \in Requests \ {s} :
               ~(req[q].phase = "rotate" /\ req[q].token = req[s].token)
          /\ \A u \in DOMAIN tokens : tokens[u].parent # req[s].token
          BY <2>1 DEF TokenInv, RotatesFirst
    <2>3. req[s].token # t  BY <1>3, <1>6, <2>1, <2>2
    <2>4. \A q \in Requests \ {s} :
             ~(req'[q].phase = "rotate" /\ req'[q].token = req'[s].token)
          BY <1>3, <2>1, <2>2
    <2>5. \A u \in DOMAIN tokens' : tokens'[u].parent # req'[s].token
          BY <1>4, <1>5, <2>1, <2>2, <2>3
    <2> QED  BY <2>4, <2>5
  <1>9. RotationChain'
    <2> SUFFICES ASSUME NEW s \in DOMAIN tokens', NEW u \in DOMAIN tokens', s # u,
                        tokens'[s].parent = tokens'[u].parent, tokens'[s].parent # 0
                 PROVE  tokens'[s].parent \in contested
        BY <1>3 DEF RotationChain
    <2>1. CASE s \in DOMAIN tokens /\ u \in DOMAIN tokens
          BY <1>4, <2>1 DEF TokenInv, RotationChain
    <2>2. CASE s = n \/ u = n
      <3>1. tokens'[s].parent = t  BY <1>5, <2>2
      <3>2. \E x \in DOMAIN tokens : tokens[x].parent = t
            BY <1>4, <1>5, <2>2, <3>1
      <3> QED  BY <1>7, <3>1, <3>2
    <2> QED  BY <1>5, <2>1, <2>2
  <1>10. Carries(t)  BY <1>3, <1>6 DEF Carries, Rotating
  <1>11. \A s \in DOMAIN tokens : Carries(s)' => Carries(s)
         BY <1>3, <1>4 DEF Carries, Live, Rotating
  <1>12. \A s \in DOMAIN tokens : s = t /\ t \notin contested => ~Carries(s)'
         BY <1>1, <1>3, <1>4, <1>7 DEF Carries, Live, Rotating
  <1>13. OneCarrier'
    <2> SUFFICES ASSUME NEW s \in DOMAIN tokens', NEW u \in DOMAIN tokens', s # u,
                        Carries(s)', Carries(u)',
                        tokens'[s].family = tokens'[u].family,
                        ~ \E x \in contested : tokens'[x].family = tokens'[s].family
                 PROVE  FALSE
        BY <1>3 DEF OneCarrier
    <2>1. CASE s \in DOMAIN tokens /\ u \in DOMAIN tokens
      <3>1. PICK x \in contested : tokens[x].family = tokens[s].family
            BY <1>4, <1>11, <2>1 DEF TokenInv, OneCarrier
      <3> QED  BY <1>2, <1>4, <2>1, <3>1
    <2>2. CASE s = n \/ u = n
      <3>1. PICK x \in DOMAIN tokens : Carries(x)' /\ tokens'[x].family = f
            BY <1>5, <2>2
      <3>2. \A y \in contested : tokens[y].family # f
            BY <1>2, <1>4, <1>5, <2>2
      <3>3. t \notin contested  BY <1>6, <3>2
      <3>4. x # t  BY <1>12, <3>1, <3>3
      <3>5. Carries(x) /\ tokens[x].family = tokens[t].family
            BY <1>4, <1>6, <1>11, <3>1
      <3> QED  BY <1>1, <1>6, <1>10, <3>2, <3>4, <3>5 DEF TokenInv, OneCarrier
    <2> QED  BY <1>5, <2>1, <2>2
  <1>14. f \notin ended
         BY <1>3, <1>6 DEF TokenInv, EndedIsQuiet, RefreshInFlight
  <1>15. EndedIsQuiet'
         BY <1>2, <1>3, <1>4 DEF TokenInv, EndedIsQuiet, RefreshInFlight
  <1>16. EndedStaysEnded'
         BY <1>3, <1>4, <1>5, <1>14 DEF TokenInv, EndedStaysEnded, Live
  <1> QED  BY <1>8, <1>9, <1>13, <1>15, <1>16 DEF Chains

\* A family is revoked: if no refresh is in flight it has ended for good.
LEMMA ChainsRevoke ==
    ASSUME TokenInv, TokenTypeOK', NEW r \in Requests, RevokeFamily(r)
    PROVE  Chains'
  <1> DEFINE f == tokens[req[r].token].family
  <1>1. /\ DOMAIN tokens' = DOMAIN tokens
        /\ \A s \in DOMAIN tokens :
             /\ tokens'[s].family = tokens[s].family
             /\ tokens'[s].parent = tokens[s].parent
             /\ tokens'[s].revoked = (tokens[s].revoked \/ tokens[s].family = f)
        BY RevokeRows DEF TokenInv
  <1>2. /\ req[r].phase = "revoke" /\ req'[r].phase = "idle"
        /\ \A s \in Requests : s # r => req'[s] = req[s]
        /\ contested' = contested
        /\ ended' = IF RefreshInFlight(f) THEN ended ELSE ended \cup {f}
        BY RequestsRefer DEF RevokeFamily, Idle, TokenInv, Ends
  <1>3. \A s \in Requests : req[s].phase # "idle" => req[s].token \in DOMAIN tokens
        BY RequestsRefer DEF TokenInv
  <1> HIDE DEF f
  <1>4. \A s \in Requests : req'[s].phase = "rotate" =>
           req[s].phase = "rotate" /\ req'[s] = req[s]
        BY <1>2
  <1>5. RotatesFirst'
        BY <1>1, <1>2, <1>3, <1>4 DEF TokenInv, RotatesFirst
  <1>6. RotationChain'
        BY <1>1, <1>2 DEF TokenInv, RotationChain
  <1>7. \A s \in DOMAIN tokens : Carries(s)' => Carries(s)
        BY <1>1, <1>4 DEF Carries, Live, Rotating
  <1>8. contested \subseteq DOMAIN tokens  BY RequestsRefer DEF TokenInv
  <1>9. OneCarrier'
        BY <1>1, <1>2, <1>7, <1>8 DEF TokenInv, OneCarrier
  <1>10. \A g : RefreshInFlight(g)' => RefreshInFlight(g)
         BY <1>1, <1>3, <1>4 DEF RefreshInFlight
  <1>11. EndedIsQuiet'
         BY <1>2, <1>10 DEF TokenInv, EndedIsQuiet
  <1>12. EndedStaysEnded'
         BY <1>1, <1>2 DEF TokenInv, EndedStaysEnded, Live
  <1> QED  BY <1>5, <1>6, <1>9, <1>11, <1>12 DEF Chains

LEMMA ChainsNext == TokenInv /\ [TokenNext]_tokenVars => TokenInv'
  <1> SUFFICES ASSUME TokenInv, [TokenNext]_tokenVars PROVE TokenInv'
      OBVIOUS
  <1>0. Always' /\ TokenTypeOK' /\ TokenTypeOK
        BY AlwaysNext DEF TokenInv, Always
  <1>1. CASE Login  BY <1>0, <1>1, ChainsLogin DEF Chains, TokenInv, Always
  <1>2. ASSUME NEW r \in Requests, NEW t \in DOMAIN tokens, ReadRefresh(r, t)
        PROVE  Chains'
    <2>1. CASE Live(t)  BY <1>0, <1>2, <2>1, ChainsRead
    <2>2. CASE ~Live(t)
      <3>1. /\ UNCHANGED <<tokens, contested, ended>>
            /\ req' = [req EXCEPT ![r] = [phase |-> "revoke", token |-> t]]
            BY <1>2, <2>2 DEF ReadRefresh
      <3>2. \A s \in Requests : req'[s].phase = "rotate" => req'[s] = req[s]
            BY <1>0, <3>1, RequestsRefer
      <3> QED  BY <1>0, <3>1, <3>2, ChainsCalm
    <2> QED  BY <2>1, <2>2
  <1>3. ASSUME NEW r \in Requests, NEW t \in DOMAIN tokens, ReadLogout(r, t)
        PROVE  Chains'
    <2>1. /\ UNCHANGED <<tokens, contested, ended>>
          /\ req' = [req EXCEPT ![r] = [phase |-> "revoke", token |-> t]]
          BY <1>3 DEF ReadLogout
    <2>2. \A s \in Requests : req'[s].phase = "rotate" => req'[s] = req[s]
          BY <1>0, <2>1, RequestsRefer
    <2> QED  BY <1>0, <2>1, <2>2, ChainsCalm
  <1>4. ASSUME NEW r \in Requests, Rotate(r) \/ RevokeFamily(r) PROVE Chains'
        BY <1>0, <1>4, ChainsRotate, ChainsRevoke
  <1>5. ASSUME NEW r \in Requests, Abort(r) PROVE Chains'
    <2>1. /\ UNCHANGED <<tokens, contested, ended>>
          /\ req' = [req EXCEPT ![r] = Idle]
          BY <1>5 DEF Abort
    <2>2. \A s \in Requests : req'[s].phase = "rotate" => req'[s] = req[s]
          BY <1>0, <2>1, RequestsRefer DEF Idle
    <2> QED  BY <1>0, <2>1, <2>2, ChainsCalm
  <1>6. ASSUME NEW t \in DOMAIN tokens, Expire(t) PROVE Chains'
    <2>1. /\ DOMAIN tokens' = DOMAIN tokens
          /\ \A s \in DOMAIN tokens :
               /\ tokens'[s].family = tokens[s].family
               /\ tokens'[s].parent = tokens[s].parent
               /\ tokens'[s].revoked = tokens[s].revoked
          BY <1>0, <1>6, ExpireRows
    <2>2. UNCHANGED <<req, contested, ended>>  BY <1>6 DEF Expire
    <2> QED  BY <1>0, <2>1, <2>2, ChainsCalm
  <1>7. CASE UNCHANGED tokenVars
    <2>1. UNCHANGED <<tokens, req, contested, ended>>  BY <1>7 DEF tokenVars
    <2>2. Chains'  BY <1>0, <2>1, ChainsCalm
    <2> QED  BY <1>0, <2>2 DEF Chains, TokenInv, Always
  <1>8. CASE Chains'  BY <1>0, <1>8 DEF Chains, TokenInv, Always
  <1> QED  BY <1>1, <1>2, <1>3, <1>4, <1>5, <1>6, <1>7, <1>8
           DEF TokenNext, Handle

\* The inductive invariant, for any number of overlapping requests.
THEOREM TokenInvariance == TokenSpec => []TokenInv
  BY ChainsInit, ChainsNext, PTL DEF TokenSpec

\* A family is a chain but where two refreshes met (AuthService.refresh) ...
THEOREM FamilyIsChain == TokenSpec => []RotationChain
  <1>1. TokenInv => RotationChain  BY DEF TokenInv
  <1> QED  BY <1>1, TokenInvariance, PTL

\* ... and a session is carried by one live token unless they did.
THEOREM SessionHasOneToken == TokenSpec => []OneLiveToken
  <1>1. TokenInv => OneLiveToken
        BY DEF TokenInv, OneCarrier, OneLiveToken, Carries
  <1> QED  BY <1>1, TokenInvariance, PTL

\* A family that a logout or a detected reuse ended stays ended, if no
\* refresh of it was in flight then.
THEOREM FamilyEndsForGood == TokenSpec => []EndedStaysEnded
  <1>1. TokenInv => EndedStaysEnded  BY DEF TokenInv
  <1> QED  BY <1>1, TokenInvariance, PTL

-----------------------------------------------------------------------------
(***************************************************************************)
(* The tab and the server together, whatever overlaps.                     *)
(***************************************************************************)
\* How the server's steps move the request of call c.
LEMMA ReadMoves ==
    ASSUME TokenTypeOK, NEW c \in Requests, NEW t \in DOMAIN tokens,
           ReadRefresh(c, t) \/ ReadLogout(c, t)
    PROVE  /\ tokens' = tokens /\ req[c] = Idle /\ req'[c] # Idle
           /\ req'[c].token = t
           /\ ReadRefresh(c, t) /\ Live(t) => req'[c].phase = "rotate"
           /\ \A d \in Requests : d # c => req'[d] = req[d]
  <1>1. req \in [Requests -> Request]  BY DEF TokenTypeOK
  <1>2. /\ tokens' = tokens /\ req[c] = Idle
        /\ \E ph \in {"rotate", "revoke"} :
             /\ req' = [req EXCEPT ![c] = [phase |-> ph, token |-> t]]
             /\ ReadRefresh(c, t) /\ Live(t) => ph = "rotate"
        BY DEF ReadRefresh, ReadLogout
  <1>3. PICK ph \in {"rotate", "revoke"} :
             /\ req' = [req EXCEPT ![c] = [phase |-> ph, token |-> t]]
             /\ ReadRefresh(c, t) /\ Live(t) => ph = "rotate"
        BY <1>2
  <1>4. /\ req'[c] = [phase |-> ph, token |-> t]
        /\ \A d \in Requests : d # c => req'[d] = req[d]
        BY <1>1, <1>3
  <1> QED  BY <1>2, <1>3, <1>4 DEF Idle

LEMMA CommitMoves ==
    ASSUME TokenTypeOK, NEW c \in Requests,
           Rotate(c) \/ RevokeFamily(c) \/ Abort(c)
    PROVE  /\ req[c] # Idle /\ req'[c] = Idle
           /\ \A d \in Requests : d # c => req'[d] = req[d]
           /\ Abort(c) => tokens' = tokens
  <1>1. req \in [Requests -> Request]  BY DEF TokenTypeOK
  <1>2. req' = [req EXCEPT ![c] = Idle]
        BY DEF Rotate, RevokeFamily, Abort
  <1>3. req[c] # Idle  BY DEF Rotate, RevokeFamily, Abort, Idle
  <1> QED  BY <1>1, <1>2, <1>3 DEF Abort

\* Every step of the tab is one of the server's, or none of them.
LEMMA TabStep ==
    ASSUME WebTypeOK, [WebNext]_webVars
    PROVE  [TokenNext]_tokenVars
  <1>1. CASE SignIn  BY <1>1 DEF SignIn, TokenNext
  <1>2. ASSUME NEW c \in Requests, Tab(c) PROVE [TokenNext]_tokenVars
    <2>0. sent[c] \in 0..Len(tokens) /\ DOMAIN tokens = 1..Len(tokens)
          /\ Len(tokens) \in Nat
          BY DEF WebTypeOK, TokenTypeOK
    <2>1. CASE Ask(c) \/ SignOut(c) \/ Answer(c) \/ Receive(c) \/ Lose(c)
               \/ Forget(c)
          BY <2>1 DEF Ask, SignOut, Answer, Receive, Lose, Forget
    <2>2. CASE Serve(c)
      <3>1. sent[c] \in DOMAIN tokens
            BY <2>0, <2>2 DEF Serve, WebTypeOK
      <3> QED  BY <2>2, <3>1 DEF Serve, TokenNext, Handle
    <2>3. CASE Commit(c)  BY <2>3 DEF Commit, TokenNext, Handle
    <2>4. CASE ServeSignOut(c)
      <3>1. call[c] = "logout" => sent[c] \in DOMAIN tokens
            BY <2>0 DEF WebTypeOK
      <3> QED  BY <2>4, <3>1 DEF ServeSignOut, TokenNext, Handle
    <2>5. CASE LoseSignOut(c)  BY <2>5 DEF LoseSignOut, TokenNext, Handle
    <2> QED  BY <1>2, <2>1, <2>2, <2>3, <2>4, <2>5 DEF Tab, Proceed
  <1>3. ASSUME NEW t \in DOMAIN tokens, AccessExpires(t) \/ RefreshExpires(t)
        PROVE  [TokenNext]_tokenVars
        BY <1>3 DEF AccessExpires, RefreshExpires, TokenNext
  <1>4. CASE UNCHANGED webVars  BY <1>4 DEF webVars
  <1> QED  BY <1>1, <1>2, <1>3, <1>4 DEF WebNext

\* Rows are never deleted.
LEMMA RowsRemain ==
    ASSUME Always, [TokenNext]_tokenVars
    PROVE  /\ Len(tokens) \in Nat /\ DOMAIN tokens = 1..Len(tokens)
           /\ Len(tokens') \in Nat /\ DOMAIN tokens' = 1..Len(tokens')
           /\ Len(tokens) <= Len(tokens')
           /\ TokenTypeOK'
  <1>1. TokenTypeOK /\ TokenTypeOK'  BY AlwaysNext DEF Always
  <1>2. Len(tokens) \in Nat /\ Len(tokens') \in Nat  BY <1>1 DEF TokenTypeOK
  <1>3. ASSUME Login PROVE Len(tokens) <= Len(tokens')
        BY <1>1, <1>2, <1>3, LoginRows
  <1>4. ASSUME NEW r \in Requests, Handle(r) PROVE Len(tokens) <= Len(tokens')
    <2>1. CASE Rotate(r)
      <3>1. Len(tokens') = Len(tokens) + 1  BY <1>1, <2>1, RotateRows
      <3> QED  BY <1>2, <3>1
    <2>2. CASE RevokeFamily(r)  BY <1>1, <1>2, <2>2, RevokeRows
    <2>3. CASE tokens' = tokens  BY <1>2, <2>3
    <2> QED  BY <1>4, <2>1, <2>2, <2>3 DEF Handle, ReadRefresh, ReadLogout, Abort
  <1>5. ASSUME NEW t \in DOMAIN tokens, Expire(t)
        PROVE  Len(tokens) <= Len(tokens')
        BY <1>1, <1>2, <1>5, ExpireRows
  <1>6. ASSUME UNCHANGED tokenVars PROVE Len(tokens) <= Len(tokens')
    <2>1. tokens' = tokens  BY <1>6 DEF tokenVars
    <2> QED  BY <1>2, <2>1
  <1>7. Len(tokens) <= Len(tokens')
        BY <1>3, <1>4, <1>5, <1>6 DEF TokenNext
  <1> QED  BY <1>1, <1>2, <1>7 DEF TokenTypeOK

\* How a call moves.
LEMMA CallMoves ==
    ASSUME WebTypeOK, NEW c \in Requests, NEW stage \in Stages, NEW t,
           Move(c, stage, t), t \in 0..Len(tokens'),
           Len(tokens) \in Nat, Len(tokens') \in Nat, Len(tokens) <= Len(tokens')
    PROVE  /\ call' \in [Requests -> Stages] /\ call'[c] = stage
           /\ sent' \in [Requests -> 0..Len(tokens')] /\ sent'[c] = t
           /\ \A d \in Requests : d # c => call'[d] = call[d] /\ sent'[d] = sent[d]
  <1>1. call \in [Requests -> Stages] /\ sent \in [Requests -> 0..Len(tokens)]
        BY DEF WebTypeOK
  <1>2. sent \in [Requests -> 0..Len(tokens')]
        BY <1>1
  <1> QED  BY <1>1, <1>2 DEF Move

LEMMA MovedTyped ==
    ASSUME Always, WebTypeOK, [TokenNext]_tokenVars,
           NEW c \in Requests, NEW stage \in Stages, NEW t, Move(c, stage, t),
           t \in 0..Len(tokens'), store' \in 0..Len(tokens'),
           access' \subseteq 1..Len(tokens'), unlucky' \in BOOLEAN,
           \A d \in Requests : d # c => req'[d] = req[d],
           req'[c] # Idle <=> stage \in {"waiting", "leaving"},
           stage \in {"refresh", "logout"} => t # 0
    PROVE  WebTypeOK'
  <1>1. /\ call' \in [Requests -> Stages] /\ call'[c] = stage
        /\ sent' \in [Requests -> 0..Len(tokens')] /\ sent'[c] = t
        /\ \A d \in Requests : d # c => call'[d] = call[d] /\ sent'[d] = sent[d]
        BY RowsRemain, CallMoves
  <1>2. TokenTypeOK'  BY RowsRemain
  <1>3. ASSUME NEW d \in Requests
        PROVE  /\ req'[d] # Idle <=> call'[d] \in {"waiting", "leaving"}
               /\ call'[d] \in {"refresh", "logout"} => sent'[d] # 0
        BY <1>1 DEF WebTypeOK
  <1> QED  BY <1>1, <1>2, <1>3 DEF WebTypeOK, Idle

\* A call turns to the pair, or does not touch the server.
LEMMA TabTyped ==
    ASSUME Always, WebTypeOK, [TokenNext]_tokenVars, NEW c \in Requests,
           Ask(c) \/ SignOut(c) \/ Answer(c) \/ Receive(c) \/ Lose(c) \/ Forget(c)
    PROVE  WebTypeOK'
  <1>1. /\ UNCHANGED <<tokens, req>> /\ req[c] = Idle
        BY DEF Ask, SignOut, Answer, Receive, Lose, Forget, tokenVars, WebTypeOK
  <1>2. /\ sent[c] \in 0..Len(tokens') /\ store \in 0..Len(tokens')
        /\ access \subseteq 1..Len(tokens')
        BY <1>1 DEF WebTypeOK
  <1>3. store' \in 0..Len(tokens') /\ access' = access
        BY <1>1, <1>2, RowsRemain
        DEF Ask, SignOut, Answer, Receive, Lose, Forget
  <1>4. unlucky' \in BOOLEAN
    <2>1. unlucky' \in {TRUE, unlucky} \/ unlucky' = (unlucky \/ AtPair # {})
          BY DEF Ask, SignOut, Answer, Receive, Lose, Forget, TurnsToPair
    <2> QED  BY Zenon, <2>1 DEF WebTypeOK
  <1>5. \E stage \in Stages \ {"waiting", "leaving"}, t \in {0, store, sent[c]} :
           /\ Move(c, stage, t)
           /\ stage \in {"refresh", "logout"} => t # 0
        BY DEF Ask, SignOut, Answer, Receive, Lose, Forget, Stages
  <1>6. PICK stage \in Stages \ {"waiting", "leaving"} :
           \E t \in {0, store, sent[c]} :
             /\ Move(c, stage, t)
             /\ stage \in {"refresh", "logout"} => t # 0
        BY <1>5
  <1>7. PICK t \in {0, store, sent[c]} :
             /\ Move(c, stage, t)
             /\ stage \in {"refresh", "logout"} => t # 0
        BY <1>6
  <1>8. t \in 0..Len(tokens')  BY <1>2, <1>7, RowsRemain
  <1> QED  BY <1>1, <1>2, <1>3, <1>4, <1>6, <1>7, <1>8, MovedTyped

\* A call whose refresh or logout the server works on.
LEMMA ServedTyped ==
    ASSUME Always, WebTypeOK, [TokenNext]_tokenVars, NEW c \in Requests,
           Serve(c) \/ Commit(c) \/ ServeSignOut(c) \/ LoseSignOut(c)
    PROVE  WebTypeOK'
  <1>0. /\ Len(tokens) \in Nat /\ Len(tokens') \in Nat
        /\ DOMAIN tokens = 1..Len(tokens) /\ Len(tokens) <= Len(tokens')
        BY RowsRemain
  <1>1. /\ sent[c] \in 0..Len(tokens') /\ store \in 0..Len(tokens')
        /\ access \subseteq 1..Len(tokens') /\ TokenTypeOK
        BY <1>0 DEF WebTypeOK
  <1>2. store' = store
        BY DEF Serve, Commit, ServeSignOut, LoseSignOut
  <1>3. unlucky' \in BOOLEAN
    <2>1. unlucky' \in {TRUE, unlucky}
          BY DEF Serve, Commit, ServeSignOut, LoseSignOut
    <2> QED  BY Zenon, <2>1 DEF WebTypeOK
  <1>4. call[c] \in {"refresh", "logout"} =>
          sent[c] \in DOMAIN tokens /\ req[c] = Idle
        BY <1>0 DEF WebTypeOK
  <1>5. CASE Serve(c)
    <2>1. CASE ReadRefresh(c, sent[c]) /\ Move(c, "waiting", sent[c])
      <3>1. req'[c] # Idle /\ \A d \in Requests : d # c => req'[d] = req[d]
            BY <1>1, <1>4, <1>5, <2>1, ReadMoves DEF Serve
      <3>2. access' = access /\ "waiting" \in Stages  BY <1>5 DEF Serve, Stages
      <3> QED  BY <1>1, <1>2, <1>3, <2>1, <3>1, <3>2, MovedTyped
    <2>2. CASE Move(c, "answered", 0) /\ UNCHANGED tokenVars
      <3>1. /\ req' = req /\ access' = access /\ "answered" \in Stages
            /\ req[c] = Idle /\ 0 \in 0..Len(tokens')
            BY <1>0, <1>4, <1>5, <2>2 DEF Serve, Stages, tokenVars
      <3> QED  BY <1>1, <1>2, <1>3, <2>2, <3>1, MovedTyped
    <2> QED  BY <1>5, <2>1, <2>2 DEF Serve
  <1>6. CASE Commit(c)
    <2>1. req'[c] = Idle /\ \A d \in Requests : d # c => req'[d] = req[d]
          BY <1>1, <1>6, CommitMoves DEF Commit
    <2>2. "answered" \in Stages /\ 0 \in 0..Len(tokens')
          BY <1>0 DEF Stages
    <2>3. CASE Rotate(c) /\ Move(c, "answered", Len(tokens) + 1)
               /\ access' = access \cup {Len(tokens) + 1}
      <3>1. Len(tokens') = Len(tokens) + 1  BY <1>1, <2>3, RotateRows
      <3>2. Len(tokens) + 1 \in 1..Len(tokens')  BY <1>0, <3>1
      <3>3. Len(tokens) + 1 \in 0..Len(tokens')  BY <1>0, <3>2
      <3>4. access' \subseteq 1..Len(tokens')  BY Zenon, <1>1, <2>3, <3>2
      <3> QED  BY <1>1, <1>2, <1>3, <2>1, <2>2, <2>3, <3>3, <3>4, MovedTyped
    <2>4. CASE access' = access /\ Move(c, "answered", 0)
          BY <1>1, <1>2, <1>3, <2>1, <2>2, <2>4, MovedTyped
    <2> QED  BY <1>6, <2>3, <2>4 DEF Commit
  <1>7. CASE ServeSignOut(c)
    <2>1. access' = access /\ {"leaving", "left"} \subseteq Stages
          BY <1>7 DEF ServeSignOut, Stages
    <2>2. CASE ReadLogout(c, sent[c]) /\ Move(c, "leaving", sent[c])
               /\ call[c] = "logout"
      <3>1. req'[c] # Idle /\ \A d \in Requests : d # c => req'[d] = req[d]
            BY <1>1, <1>4, <2>2, ReadMoves
      <3> QED  BY <1>1, <1>2, <1>3, <2>1, <2>2, <3>1, MovedTyped
    <2>3. CASE RevokeFamily(c) /\ Move(c, "left", 0)
      <3>1. req'[c] = Idle /\ \A d \in Requests : d # c => req'[d] = req[d]
            BY <1>1, <2>3, CommitMoves
      <3>2. 0 \in 0..Len(tokens')  BY <1>0
      <3> QED  BY <1>1, <1>2, <1>3, <2>1, <2>3, <3>1, <3>2, MovedTyped
    <2> QED  BY <1>7, <2>2, <2>3 DEF ServeSignOut
  <1>8. CASE LoseSignOut(c)
    <2>1. /\ access' = access /\ Move(c, "left", 0)
          /\ "left" \in Stages /\ 0 \in 0..Len(tokens')
          BY <1>0, <1>8 DEF LoseSignOut, Stages
    <2>2. req'[c] = Idle /\ \A d \in Requests : d # c => req'[d] = req[d]
      <3>1. CASE call[c] = "logout" /\ UNCHANGED tokenVars
            BY <1>4, <3>1 DEF tokenVars
      <3>2. CASE Abort(c)  BY <1>1, <3>2, CommitMoves
      <3> QED  BY <1>8, <3>1, <3>2 DEF LoseSignOut
    <2> QED  BY <1>1, <1>2, <1>3, <2>1, <2>2, MovedTyped
  <1> QED  BY <1>5, <1>6, <1>7, <1>8

LEMMA WebTyped ==
    ASSUME Always, WebTypeOK, [WebNext]_webVars
    PROVE  WebTypeOK' /\ RotatedIsSpent'
  <1>0. [TokenNext]_tokenVars  BY TabStep
  <1>1. RotatedIsSpent' /\ TokenTypeOK'  BY <1>0, AlwaysNext DEF Always
  <1>2. /\ Len(tokens) \in Nat /\ Len(tokens') \in Nat
        /\ Len(tokens) <= Len(tokens')
        BY <1>0, RowsRemain
  <1>3. CASE SignIn
    <2>1. UNCHANGED <<call, sent, unlucky, req>>  BY <1>3 DEF SignIn, Login
    <2>2. Len(tokens') = Len(tokens) + 1
          BY <1>3, LoginRows DEF SignIn, WebTypeOK
    <2>3. store' \in 0..Len(tokens')  BY <1>2, <1>3, <2>2 DEF SignIn
    <2>4. access' \subseteq 1..Len(tokens')
      <3>1. access \subseteq 1..Len(tokens')  BY <1>2 DEF WebTypeOK
      <3>2. Len(tokens) + 1 \in 1..Len(tokens')  BY <1>2, <2>2
      <3> QED  BY <1>3, <3>1, <3>2 DEF SignIn
    <2>5. sent' \in [Requests -> 0..Len(tokens')]
          BY <1>2, <2>1 DEF WebTypeOK
    <2> QED  BY <1>1, <2>1, <2>3, <2>4, <2>5 DEF WebTypeOK, Idle
  <1>4. ASSUME NEW c \in Requests, Tab(c) PROVE WebTypeOK'
        BY <1>0, <1>4, TabTyped, ServedTyped DEF Tab, Proceed
  <1>5. ASSUME NEW t \in DOMAIN tokens, AccessExpires(t) \/ RefreshExpires(t)
        PROVE  WebTypeOK'
    <2>1. /\ UNCHANGED <<store, call, sent, unlucky, req>>
          /\ access' \subseteq access
          BY <1>5 DEF AccessExpires, RefreshExpires, Expire, tabVars, tokenVars
    <2>2. /\ store' \in 0..Len(tokens') /\ access' \subseteq 1..Len(tokens')
          /\ sent' \in [Requests -> 0..Len(tokens')]
          BY <1>2, <2>1 DEF WebTypeOK
    <2> QED  BY <1>1, <2>1, <2>2 DEF WebTypeOK, Idle
  <1>6. CASE UNCHANGED webVars
        BY <1>1, <1>6 DEF webVars, tokenVars, tabVars, WebTypeOK, Idle
  <1> QED  BY <1>1, <1>3, <1>4, <1>5, <1>6 DEF WebNext

\* When call c is the only one at the pair, what it finds or leaves there
\* is all that matters.
PairStages == {"refresh", "waiting", "answered", "logout", "leaving", "left"}

LEMMA AloneMoves ==
    ASSUME Always, WebTypeOK, [TokenNext]_tokenVars, NEW c \in Requests,
           NEW stage \in Stages, NEW t \in 0..Len(tokens'), Move(c, stage, t),
           AtPair \subseteq {c},
           stage \in PairStages => AtStored(c)',
           stage \notin PairStages => store' = 0 \/ Live(store)'
    PROVE  OneAtPair' /\ StoredTokenLive'
  <1>1. /\ call'[c] = stage
        /\ \A d \in Requests : d # c => call'[d] = call[d]
        BY RowsRemain, CallMoves
  <1>2. \A d \in Requests : d # c => d \notin AtPair'
        BY <1>1 DEF AtPair
  <1>3. c \in AtPair' <=> stage \in PairStages
        BY <1>1 DEF AtPair, PairStages
  <1>4. AtPair' \subseteq Requests  BY DEF AtPair
  <1>5. OneAtPair'
    <2>1. \A d \in AtPair' : d = c  BY <1>2, <1>4
    <2>2. \A d \in AtPair' : AtStored(d)'  BY <1>3, <2>1
    <2> QED  BY <2>1, <2>2 DEF OneAtPair
  <1>6. StoredTokenLive'
        BY <1>3 DEF StoredTokenLive
  <1> QED  BY <1>5, <1>6

\* A step that leaves the pair and who is at it alone, and spends nothing.
LEMMA QuietAtPair ==
    ASSUME WebInv, store' = store, unlucky' = unlucky, AtPair' = AtPair,
           \A d \in AtPair : /\ call'[d] = call[d] /\ sent'[d] = sent[d]
                             /\ req'[d] = req[d],
           \A t \in DOMAIN tokens :
              /\ tokens'[t].revoked = tokens[t].revoked
              /\ tokens[t].expired => tokens'[t].expired
    PROVE  OneAtPair' /\ StoredTokenLive'
  <1>1. DOMAIN tokens = 1..Len(tokens) /\ Len(tokens) \in Nat
        BY DEF WebInv, WebTypeOK, TokenTypeOK
  <1>2. store # 0 => store \in DOMAIN tokens
        BY <1>1 DEF WebInv, WebTypeOK
  <1>3. ASSUME NEW d \in AtPair, AtStored(d) PROVE AtStored(d)'
    <2>1. sent[d] # 0 => sent[d] \in DOMAIN tokens
          BY <1>1 DEF WebInv, WebTypeOK, AtPair
    <2> QED  BY <1>2, <1>3, <2>1 DEF AtStored, Live
  <1>4. OneAtPair'
        BY <1>3 DEF WebInv, OneAtPair
  <1>5. StoredTokenLive'
        BY <1>2 DEF WebInv, StoredTokenLive, Live
  <1> QED  BY <1>4, <1>5

\* A call turns to the pair when nobody is there, or luck has run out.
LEMMA TurnsAlone ==
    ASSUME Always, WebInv, [TokenNext]_tokenVars, NEW c \in Requests,
           NEW stage \in {"refresh", "logout"}, Move(c, stage, store),
           TurnsToPair, store # 0, UNCHANGED <<tokens, req, store>>
    PROVE  OneAtPair' /\ StoredTokenLive'
  <1>1. CASE unlucky'
        BY <1>1 DEF OneAtPair, StoredTokenLive
  <1>2. CASE ~unlucky'
    <2>1. AtPair = {} /\ ~unlucky
          BY <1>2 DEF TurnsToPair
    <2>2. Live(store)  BY <2>1 DEF WebInv, StoredTokenLive
    <2>3. store \in 0..Len(tokens')  BY DEF WebInv, WebTypeOK
    <2>4. stage \in Stages /\ stage \in PairStages  BY DEF Stages, PairStages
    <2>5. call'[c] = stage /\ sent'[c] = store
          BY <2>3, <2>4, RowsRemain, CallMoves DEF WebInv
    <2>6. AtStored(c)'
          BY <2>2, <2>5 DEF AtStored, Live
    <2> QED  BY <2>1, <2>3, <2>4, <2>6, AloneMoves DEF WebInv
  <1> QED  BY <1>1, <1>2

\* The one call at the pair finds it as it was when it came.
LEMMA FindsStored ==
    ASSUME WebInv, ~unlucky, NEW c \in Requests, call[c] \in PairStages
    PROVE  AtPair \subseteq {c} /\ AtStored(c)
  <1>1. c \in AtPair  BY DEF AtPair, PairStages
  <1> QED  BY <1>1 DEF WebInv, OneAtPair

\* What the server does for the one call at the pair.
LEMMA ServeAlone ==
    ASSUME Always, WebInv, [TokenNext]_tokenVars, NEW c \in Requests, Serve(c)
    PROVE  OneAtPair' /\ StoredTokenLive'
  <1>0. UNCHANGED <<store, unlucky>> /\ call[c] = "refresh"  BY DEF Serve
  <1>1. CASE unlucky
        BY <1>0, <1>1 DEF OneAtPair, StoredTokenLive
  <1>2. CASE ~unlucky
    <2>1. AtPair \subseteq {c} /\ AtStored(c)
          BY <1>0, <1>2, FindsStored DEF PairStages
    <2>2. /\ sent[c] = store /\ Live(store) /\ store # 0
          BY <1>0, <2>1 DEF AtStored
    <2>3. /\ Len(tokens) \in Nat /\ DOMAIN tokens = 1..Len(tokens)
          /\ store \in DOMAIN tokens /\ store \in 0..Len(tokens')
          /\ 0 \in 0..Len(tokens')
          BY <2>2, RowsRemain DEF WebInv, WebTypeOK
    <2>4. CASE ReadRefresh(c, sent[c]) /\ Move(c, "waiting", sent[c])
      <3>1. /\ tokens' = tokens /\ req'[c].phase = "rotate"
            /\ req'[c].token = store
            BY <2>2, <2>3, <2>4, ReadMoves DEF WebInv, WebTypeOK
      <3>2. "waiting" \in Stages /\ "waiting" \in PairStages
            BY DEF Stages, PairStages
      <3>3. call'[c] = "waiting" /\ sent'[c] = store
            BY <2>2, <2>3, <2>4, <3>2, RowsRemain, CallMoves DEF WebInv
      <3>4. AtStored(c)'
            BY <1>0, <2>2, <3>1, <3>3 DEF AtStored, Live
      <3> QED  BY <2>1, <2>2, <2>3, <2>4, <3>2, <3>4, AloneMoves DEF WebInv
    <2>5. CASE /\ tokens[sent[c]].expired /\ Move(c, "answered", 0)
               /\ UNCHANGED tokenVars
      <3>1. "answered" \in Stages /\ "answered" \in PairStages
            BY DEF Stages, PairStages
      <3>2. call'[c] = "answered" /\ sent'[c] = 0
            BY <2>3, <2>5, <3>1, RowsRemain, CallMoves DEF WebInv
      <3>3. AtStored(c)'
            BY <1>0, <2>2, <2>5, <3>2 DEF AtStored, tokenVars
      <3> QED  BY <2>1, <2>3, <2>5, <3>1, <3>3, AloneMoves DEF WebInv
    <2> QED  BY <2>4, <2>5 DEF Serve
  <1> QED  BY <1>1, <1>2

LEMMA CommitAlone ==
    ASSUME Always, WebInv, [TokenNext]_tokenVars, NEW c \in Requests, Commit(c)
    PROVE  OneAtPair' /\ StoredTokenLive'
  <1>0. store' = store /\ call[c] = "waiting"  BY DEF Commit
  <1>1. CASE unlucky'
        BY <1>1 DEF OneAtPair, StoredTokenLive
  <1>2. CASE ~unlucky'
    <2>0. ~unlucky  BY <1>2 DEF Commit
    <2>1. AtPair \subseteq {c} /\ AtStored(c)
          BY <1>0, <2>0, FindsStored DEF PairStages
    <2>2. Rotate(c) /\ Move(c, "answered", Len(tokens) + 1)
          BY <1>0, <1>2, <2>1 DEF Commit, AtStored, RevokeFamily
    <2>3. /\ Len(tokens) \in Nat /\ Len(tokens') = Len(tokens) + 1
          /\ tokens'[Len(tokens) + 1] =
               NewRow(tokens[req[c].token].family, req[c].token)
          BY <2>2, RotateRows DEF WebInv, WebTypeOK
    <2>4. /\ Len(tokens) + 1 \in 0..Len(tokens') /\ Len(tokens) + 1 # 0
          /\ "answered" \in Stages /\ "answered" \in PairStages
          BY <2>3 DEF Stages, PairStages
    <2>5. call'[c] = "answered" /\ sent'[c] = Len(tokens) + 1
          BY <2>2, <2>4, RowsRemain, CallMoves DEF WebInv
    <2>6. AtStored(c)'
          BY <1>0, <2>1, <2>3, <2>4, <2>5 DEF AtStored, Live, NewRow
    <2> QED  BY <2>1, <2>2, <2>4, <2>6, AloneMoves DEF WebInv
  <1> QED  BY <1>1, <1>2

\* The answer is stored, if it reaches the tab.
LEMMA ReceiveAlone ==
    ASSUME Always, WebInv, [TokenNext]_tokenVars, NEW c \in Requests,
           Receive(c) \/ Lose(c)
    PROVE  OneAtPair' /\ StoredTokenLive'
  <1>1. CASE unlucky'
        BY <1>1 DEF OneAtPair, StoredTokenLive
  <1>2. CASE ~unlucky'
    <2>0. ~unlucky /\ Receive(c) /\ call[c] = "answered" /\ tokens' = tokens
          BY <1>2 DEF Receive, Lose, tokenVars
    <2>1. AtPair \subseteq {c} /\ AtStored(c)
          BY <2>0, FindsStored DEF PairStages
    <2>2. store' = 0 \/ Live(store)'
          BY <2>0, <2>1 DEF Receive, AtStored, Live
    <2>3. sent[c] \in 0..Len(tokens')  BY <2>0 DEF WebInv, WebTypeOK
    <2>4. PICK stage \in {"idle", "again"} : Move(c, stage, sent[c])
          BY <2>0 DEF Receive
    <2>5. stage \in Stages /\ stage \notin PairStages
          BY <2>4 DEF Stages, PairStages
    <2> QED  BY <2>1, <2>2, <2>3, <2>4, <2>5, AloneMoves DEF WebInv
  <1> QED  BY <1>1, <1>2

\* Signing out, alone, is the end of the pair.
LEMMA SignOutAlone ==
    ASSUME Always, WebInv, [TokenNext]_tokenVars, NEW c \in Requests,
           ServeSignOut(c) \/ LoseSignOut(c) \/ Forget(c)
    PROVE  OneAtPair' /\ StoredTokenLive'
  <1>0. unlucky' = unlucky /\ call[c] \in PairStages
        BY DEF ServeSignOut, LoseSignOut, Forget, PairStages
  <1>1. CASE unlucky
        BY <1>0, <1>1 DEF OneAtPair, StoredTokenLive
  <1>2. CASE ~unlucky
    <2>1. AtPair \subseteq {c} /\ AtStored(c)
          BY <1>0, <1>2, FindsStored
    <2>2. PICK stage \in {"leaving", "left", "idle"} :
             \E t \in {0, sent[c]} :
               /\ Move(c, stage, t)
               /\ stage # "idle" => store' = store
               /\ stage = "idle" => store' = 0
          BY DEF ServeSignOut, LoseSignOut, Forget
    <2>3. PICK t \in {0, sent[c]} : Move(c, stage, t)
          BY <2>2
    <2>4. t \in 0..Len(tokens') /\ stage \in Stages
          BY <2>2, <2>3, RowsRemain DEF WebInv, WebTypeOK, Stages
    <2>5. call'[c] = stage
          BY <2>3, <2>4, RowsRemain, CallMoves DEF WebInv
    <2>6. stage \in PairStages => AtStored(c)'
          BY <2>1, <2>2, <2>5 DEF AtStored, PairStages
    <2>7. stage \notin PairStages => store' = 0
          BY <2>2 DEF PairStages
    <2> QED  BY <2>1, <2>3, <2>4, <2>6, <2>7, AloneMoves DEF WebInv
  <1> QED  BY <1>1, <1>2

\* A call that is not at the pair leaves, or is answered, or gives up.
LEMMA ElsewhereMoves ==
    ASSUME Always, WebInv, [TokenNext]_tokenVars, NEW c \in Requests,
           NEW stage \in {"idle", "asked"}, NEW t \in {0, store},
           Move(c, stage, t), call[c] \notin PairStages,
           UNCHANGED <<tokens, req, store, unlucky>>
    PROVE  OneAtPair' /\ StoredTokenLive'
  <1>1. t \in 0..Len(tokens') /\ stage \in Stages /\ stage \notin PairStages
        BY RowsRemain DEF WebInv, WebTypeOK, Stages, PairStages
  <1>2. /\ call'[c] = stage
        /\ \A d \in Requests : d # c => call'[d] = call[d] /\ sent'[d] = sent[d]
        BY <1>1, RowsRemain, CallMoves DEF WebInv
  <1>3. AtPair' = AtPair /\ c \notin AtPair /\ AtPair \subseteq Requests
    <2>1. ASSUME NEW d \in Requests
          PROVE  call'[d] \in PairStages <=> call[d] \in PairStages
          BY <1>1, <1>2
    <2> QED  BY <2>1 DEF AtPair, PairStages
  <1>4. \A d \in AtPair : /\ call'[d] = call[d] /\ sent'[d] = sent[d]
                          /\ req'[d] = req[d]
        BY <1>2, <1>3
  <1> QED  BY <1>3, <1>4, QuietAtPair

LEMMA WebKeeps == WebInv /\ [WebNext]_webVars => WebInv'
  <1> SUFFICES ASSUME WebInv, [WebNext]_webVars PROVE WebInv'
      OBVIOUS
  <1>0. Always /\ WebTypeOK /\ [TokenNext]_tokenVars
        BY TabStep DEF WebInv, WebTypeOK, Always
  <1>1. WebTypeOK' /\ RotatedIsSpent'  BY <1>0, WebTyped
  <1>2. CASE SignIn
    <2>1. UNCHANGED <<call, unlucky>> /\ store = 0  BY <1>2 DEF SignIn
    <2>2. Live(store)'
          BY <1>0, <1>2, LoginRows DEF SignIn, WebTypeOK, Live, NewRow
    <2>3. ~unlucky => AtPair = {}
          BY <2>1 DEF WebInv, OneAtPair, AtStored
    <2>4. OneAtPair' /\ StoredTokenLive'
          BY <2>1, <2>2, <2>3 DEF OneAtPair, StoredTokenLive, AtPair
    <2> QED  BY <1>1, <2>4 DEF WebInv
  <1>3. ASSUME NEW c \in Requests, Tab(c) PROVE OneAtPair' /\ StoredTokenLive'
    <2>1. CASE Ask(c)
          BY <1>0, <2>1, ElsewhereMoves DEF Ask, tokenVars, PairStages
    <2>2. CASE SignOut(c)
          BY <1>0, <2>2, TurnsAlone DEF SignOut, tokenVars
    <2>3. CASE Answer(c)
          BY <1>0, <2>3, ElsewhereMoves, TurnsAlone
          DEF Answer, tokenVars, PairStages
    <2> QED  BY <1>0, <1>3, <2>1, <2>2, <2>3, ServeAlone, CommitAlone,
                ReceiveAlone, SignOutAlone DEF Tab, Proceed
  <1>4. ASSUME NEW t \in DOMAIN tokens, AccessExpires(t) \/ RefreshExpires(t)
        PROVE  OneAtPair' /\ StoredTokenLive'
    <2>1. UNCHANGED <<store, call, sent, unlucky, req>>
          BY <1>4 DEF AccessExpires, RefreshExpires, Expire, tabVars, tokenVars
    <2>2. \A s \in DOMAIN tokens :
              /\ tokens'[s].revoked = tokens[s].revoked
              /\ tokens[s].expired => tokens'[s].expired
      <3>1. CASE AccessExpires(t)  BY <3>1 DEF AccessExpires, tokenVars
      <3>2. CASE RefreshExpires(t)
        <4>1. \A s \in DOMAIN tokens : tokens[s] \in TokenRow
              BY <1>0 DEF WebTypeOK, TokenTypeOK
        <4> QED  BY <3>2, <4>1 DEF RefreshExpires, Expire, TokenRow
      <3> QED  BY <1>4, <3>1, <3>2
    <2>3. AtPair' = AtPair  BY <2>1 DEF AtPair
    <2> QED  BY <2>1, <2>2, <2>3, QuietAtPair
  <1>5. CASE UNCHANGED webVars
    <2>1. UNCHANGED <<store, call, sent, unlucky, req, tokens>>
          BY <1>5 DEF webVars, tabVars, tokenVars
    <2>2. OneAtPair' /\ StoredTokenLive'
          BY <2>1, QuietAtPair DEF AtPair
    <2> QED  BY <1>1, <2>2 DEF WebInv
  <1> QED  BY <1>1, <1>2, <1>3, <1>4, <1>5 DEF WebNext, WebInv

LEMMA WebStarts == WebInit => WebInv
  <1> SUFFICES ASSUME WebInit PROVE WebInv
      OBVIOUS
  <1>1. TokenTypeOK /\ RotatedIsSpent  BY AlwaysInit DEF WebInit, Always
  <1>2. tokens = <<>> /\ Len(tokens) = 0 /\ \A c \in Requests : req[c] = Idle
        BY DEF WebInit, TokenInit
  <1>3. WebTypeOK
    <2>1. /\ 0 \in 0..Len(tokens) /\ "idle" \in Stages
          /\ access = {} /\ store = 0 /\ unlucky = FALSE
          /\ call = [c \in Requests |-> "idle"]
          /\ sent = [c \in Requests |-> 0]
          BY <1>2 DEF WebInit, Stages
    <2>2. call \in [Requests -> Stages] /\ sent \in [Requests -> 0..Len(tokens)]
          BY <2>1
    <2>3. \A c \in Requests : call[c] = "idle"  BY <2>1
    <2> QED  BY <1>1, <1>2, <2>1, <2>2, <2>3 DEF WebTypeOK
  <1>4. AtPair = {} /\ store = 0  BY DEF WebInit, AtPair
  <1> QED  BY <1>1, <1>3, <1>4 DEF WebInv, OneAtPair, StoredTokenLive

\* The inductive invariant of the tab: while nothing went wrong, one call at
\* most is at the pair, and the token it found there is still live.
THEOREM TabInvariance == WebSpec => []WebInv
  BY WebStarts, WebKeeps, PTL DEF WebSpec

\* What the tab does to the server is what any client may do, so what holds
\* of the server whatever overlaps holds with tabs like this one.
THEOREM TabUsesServer == WebSpec => TokenSpec
  <1>1. WebInit => TokenInit  BY DEF WebInit
  <1>2. WebInv /\ [WebNext]_webVars => [TokenNext]_tokenVars
        BY TabStep DEF WebInv
  <1> QED  BY <1>1, <1>2, TabInvariance, PTL DEF WebSpec, TokenSpec

\* Between its calls the tab keeps a token that the server would rotate,
\* unless two calls were at the pair at once or a refresh failed (api.ts).
THEOREM StoredTokenStaysLive == WebSpec => []StoredTokenLive
  <1>1. WebInv => StoredTokenLive  BY DEF WebInv
  <1> QED  BY <1>1, TabInvariance, PTL

\* Under the same condition a tab loses its session only by signing out or
\* because its refresh token had expired (refreshTokens in api.ts).
THEOREM SessionKept == WebSpec => KeepsSessionUnlessUnlucky
  <1>1. ASSUME WebInv, WebNext, store # 0, store' = 0
        PROVE  SigningOut \/ tokens[store].expired \/ unlucky
    <2>1. PICK c \in Requests : Receive(c) \/ Forget(c)
      <3>1. ~SignIn
        <4>1. Len(tokens) \in Nat  BY <1>1 DEF WebInv, WebTypeOK, TokenTypeOK
        <4> QED  BY <1>1, <4>1 DEF SignIn
      <3>2. \A t \in DOMAIN tokens : ~(AccessExpires(t) \/ RefreshExpires(t))
            BY <1>1 DEF AccessExpires, RefreshExpires, tabVars
      <3> QED  BY <1>1, <3>1, <3>2
               DEF WebNext, Tab, Proceed, Ask, SignOut, Answer, Serve, Commit,
                   Lose, ServeSignOut, LoseSignOut
    <2>2. CASE Forget(c)  BY <2>2 DEF Forget, SigningOut
    <2>3. CASE Receive(c) /\ ~unlucky
      <3>1. call[c] = "answered" /\ sent[c] = 0  BY <1>1, <2>3 DEF Receive
      <3>2. AtStored(c)  BY <1>1, <2>3, <3>1, FindsStored DEF PairStages
      <3> QED  BY <3>1, <3>2 DEF AtStored
    <2> QED  BY <2>1, <2>2, <2>3
  <1>2. WebInv /\ [WebNext]_webVars =>
          [store # 0 /\ store' = 0 =>
             SigningOut \/ tokens[store].expired \/ unlucky]_webVars
        BY <1>1
  <1> QED  BY <1>2, TabInvariance, PTL DEF WebSpec, KeepsSessionUnlessUnlucky
=============================================================================
