-------------------------- MODULE DbConnectorProofs --------------------------
(***************************************************************************)
(* The objects of a database connector, for sessions of any length.        *)
(***************************************************************************)
EXTENDS DbConnector, TLAPS

Con == <<"con", 0>>
Stmt(i) == <<"stmt", i>>
Res(i) == <<"res", i>>

(* Nothing was made yet, or the constructor met with an exception.         *)
Nothing ==
  /\ con = Unset /\ stmt = Unset /\ res = Unset
  /\ live = {} /\ query = 0

(* The statement is that of the last query; all else that exists are       *)
(* results, of which res is the youngest.                                  *)
Connected ==
  /\ con = Con /\ con \in live
  /\ stmt = IF query = 0 THEN Null ELSE Stmt(query)
  /\ query > 0 => stmt \in live
  /\ \/ res = Unset
     \/ \E i \in 1 .. query : res = Res(i) /\ res \in live
  /\ live \subseteq {Con} \cup {stmt} \cup {Res(i) : i \in 1 .. query}
  /\ query > 0 /\ code = 0 /\ rows => res = Res(query)

(* How a session ends: orderly, or over a pointer that was never set.      *)
Ended ==
  IF undefined
  THEN (con = Unset /\ live = {}) \/ (Connected /\ res = Unset)
  ELSE con = Con /\ live \subseteq {Res(i) : i \in 1 .. query}

IInv ==
  /\ at \in {"new", "session", "over"}
  /\ {con, stmt, res} \subseteq Object \cup {Unset, Null}
  /\ live \subseteq Object
  /\ query \in 0 .. MaxQueries
  /\ rows \in BOOLEAN
  /\ code \in {0, 1}
  /\ undefined \in BOOLEAN
  /\ at # "over" => ~undefined
  /\ at = "new" => Nothing
  /\ at = "session" => Nothing \/ Connected
  /\ at = "over" => Ended

-----------------------------------------------------------------------------
LEMMA InitIInv == Init => IInv
<1> SUFFICES ASSUME Init PROVE IInv
  OBVIOUS
<1>1. undefined = FALSE /\ rows = FALSE /\ at = "new" /\ Nothing /\ code = 0
  BY DEF Init, Nothing
<1>2. query \in 0 .. MaxQueries
  BY <1>1, ConnectorAssumption DEF Nothing
<1>3. {con, stmt, res} \subseteq Object \cup {Unset, Null}
       /\ live \subseteq Object
  BY <1>1 DEF Nothing
<1> QED
  BY <1>1, <1>2, <1>3 DEF IInv

LEMMA ConstructIInv == IInv /\ Construct => IInv'
<1> SUFFICES ASSUME IInv, Construct PROVE IInv'
  OBVIOUS
<1>1. at' = "session" /\ Nothing /\ ~undefined
       /\ UNCHANGED <<res, query, rows, code, undefined>>
  BY DEF Construct, IInv
<1>2. CASE con' = Con /\ stmt' = Null /\ live' = {Con}
  <2>1. Connected'
    BY <1>1, <1>2 DEF Connected, Nothing
  <2>2. Con \in Object
    BY ConnectorAssumption DEF Con, Object
  <2> QED
    BY <1>1, <1>2, <2>1, <2>2 DEF IInv
<1>3. CASE UNCHANGED <<con, stmt, live>>
  <2>1. Nothing'
    BY <1>1, <1>3 DEF Nothing
  <2> QED
    BY <1>1, <1>3, <2>1 DEF IInv
<1> QED
  BY <1>2, <1>3 DEF Construct, Con

LEMMA QueryIInv == IInv /\ exQuery => IInv'
<1> SUFFICES ASSUME IInv, exQuery PROVE IInv'
  OBVIOUS
<1> USE ConnectorAssumption
<1>1. CASE con \notin live \/ \E p \in Old : ~MayDelete(p)
  <2>1. Stray /\ UNCHANGED <<rows, code>> /\ query' \in 0 .. MaxQueries
    <3>1. Stray /\ UNCHANGED <<rows, code>>
      BY <1>1, Zenon DEF exQuery
    <3>2. query' \in 0 .. MaxQueries
      <4>1. query < MaxQueries /\ query' = query + 1
        BY DEF exQuery
      <4> QED
        BY <4>1 DEF IInv
    <3> QED
      BY <3>1, <3>2
  <2>2. Nothing
    <3>1. ~Connected
      BY <1>1 DEF Connected, Old, MayDelete, IInv, Con
    <3> QED
      BY <3>1 DEF IInv, exQuery
  <2>3. Ended'
    BY <2>1, <2>2 DEF Nothing, Ended, Stray
  <2> QED
    BY <2>1, <2>3 DEF IInv, Stray
<1>2. CASE con \in live /\ \A p \in Old : MayDelete(p)
  <2>1. PICK outcome \in {"rows", "none", "error"} :
          /\ stmt' = Stmt(query')
          /\ res' = IF outcome = "rows" THEN Res(query') ELSE res
          /\ live' = (live \ {stmt}) \cup ({stmt', res'} \ {res})
          /\ rows' \in (IF outcome = "rows" THEN {TRUE}
                        ELSE IF outcome = "none" THEN {FALSE} ELSE BOOLEAN)
          /\ code' = ReturnOf(outcome)
          /\ UNCHANGED <<at, con, undefined>>
    BY <1>2 DEF exQuery, Old, Stmt, Res
  <2>2. Connected /\ at = "session" /\ query' = query + 1
         /\ query' \in 1 .. MaxQueries /\ query \in Nat
    BY <1>2 DEF IInv, exQuery, Nothing
  <2>3. Stmt(query') \in Object /\ Res(query') \in Object
    BY <2>2 DEF Object, Stmt, Res
  <2>4. code' \in {0, 1} /\ rows' \in BOOLEAN
         /\ (code' = 0 /\ rows' => outcome = "rows")
    <3>1. CASE outcome = "rows"
      BY <3>1, <2>1 DEF ReturnOf
    <3>2. CASE outcome # "rows"
      <4>1. rows' \in BOOLEAN /\ (outcome = "none" => rows' = FALSE)
        BY <3>2, <2>1
      <4>2. code' = IF outcome = "error" THEN 1 ELSE 0
        BY <2>1 DEF ReturnOf
      <4> QED
        BY <3>2, <4>1, <4>2
    <3> QED
      BY <3>1, <3>2
  <2>5. Con # stmt /\ Con # Stmt(query') /\ Res(query') # stmt
         /\ res # stmt /\ res # Res(query')
    BY <2>2 DEF Connected, Con, Stmt, Res, Object, IInv
  <2>6. Connected'
    <3>1. con' = Con /\ con' \in live'
      BY <2>1, <2>2, <2>5 DEF Connected
    <3>2. stmt' = Stmt(query') /\ stmt' \in live' /\ query' > 0
      <4>1. res # Stmt(query')
        BY <2>2, <2>3 DEF Connected, Stmt, Res, IInv, Object
      <4> QED
        BY <2>1, <2>2, <4>1
    <3>3. res' = Unset \/ \E i \in 1 .. query' : res' = Res(i) /\ res' \in live'
      <4>1. CASE outcome = "rows"
        BY <4>1, <2>1, <2>2, <2>5
      <4>2. CASE outcome # "rows" /\ res # Unset
        BY <4>2, <2>1, <2>2, <2>5 DEF Connected
      <4> QED
        BY <4>1, <4>2, <2>1
    <3>4. live' \subseteq {Con} \cup {stmt'} \cup {Res(i) : i \in 1 .. query'}
      BY <2>1, <2>2 DEF Connected
    <3> QED
      BY <3>1, <3>2, <3>3, <3>4, <2>1, <2>4 DEF Connected
  <2>7. live' \subseteq Object
         /\ {con', stmt', res'} \subseteq Object \cup {Unset, Null}
    BY <2>1, <2>3 DEF IInv
  <2> QED
    BY <2>1, <2>2, <2>4, <2>6, <2>7 DEF IInv
<1> QED
  BY <1>1, <1>2

LEMMA DestructIInv == IInv /\ Destruct => IInv'
<1> SUFFICES ASSUME IInv, Destruct PROVE IInv'
  OBVIOUS
<1> USE ConnectorAssumption
<1>1. CASE MayDelete(res) /\ MayDelete(stmt) /\ MayDelete(con)
  <2>1. at' = "over" /\ live' = live \ {res, stmt, con}
         /\ UNCHANGED <<con, stmt, res, undefined, query, rows, code>>
    BY <1>1 DEF Destruct
  <2>2. Connected /\ ~undefined
    BY <1>1 DEF IInv, Destruct, Nothing, MayDelete
  <2>3. Ended'
    BY <2>1, <2>2 DEF Connected, Ended
  <2> QED
    BY <2>1, <2>3 DEF IInv
<1>2. CASE ~(MayDelete(res) /\ MayDelete(stmt) /\ MayDelete(con))
  <2>1. Stray /\ UNCHANGED <<query, rows, code>>
    BY <1>2 DEF Destruct
  <2>2. Nothing \/ (Connected /\ res = Unset)
    <3>1. ASSUME Connected, res # Unset PROVE FALSE
      <4>1. con \in live /\ res \in live /\ (stmt = Null \/ stmt \in live)
        BY <3>1 DEF Connected, IInv
      <4> QED
        BY <1>2, <4>1 DEF MayDelete
    <3>2. Nothing \/ Connected
      <4>1. at = "session"
        BY DEF Destruct
      <4> QED
        BY <4>1 DEF IInv
    <3> QED
      BY <3>1, <3>2
  <2>3. Ended'
    BY <2>1, <2>2 DEF Nothing, Ended, Stray, Connected
  <2> QED
    BY <2>1, <2>3 DEF IInv, Stray
<1> QED
  BY <1>1, <1>2

LEMMA Inductive == Spec => []IInv
<1>1. IInv /\ UNCHANGED vars => IInv'
  BY DEF IInv, vars, Nothing, Connected, Ended
<1> QED
  BY <1>1, InitIInv, ConstructIInv, QueryIInv, DestructIInv, PTL
     DEF Spec, Next

-----------------------------------------------------------------------------
(* Module DbConnector's TypeOK: in particular a connection that was made   *)
(* exists exactly as long as its session.                                  *)
THEOREM TypeCorrect == Spec => []TypeOK
<1>1. IInv => TypeOK
  <2> SUFFICES ASSUME IInv PROVE con \in live <=>
                                   con # Unset /\ (at = "session" \/ undefined)
    BY DEF IInv, TypeOK
  <2>1. CASE con = Unset
    <3>1. con \notin live
      BY <2>1, ConnectorAssumption DEF IInv, Object
    <3> QED
      BY <2>1, <3>1
  <2>2. CASE Connected /\ (at = "session" \/ undefined)
    <3>1. con \in live /\ con # Unset
      BY <2>2, ConnectorAssumption DEF Connected, IInv, Object
    <3> QED
      BY <2>2, <3>1
  <2>3. CASE at = "over" /\ ~undefined
    <3>1. con = Con /\ live \subseteq {Res(i) : i \in 1 .. query}
      BY <2>3 DEF IInv, Ended
    <3> QED
      BY <2>3, <3>1 DEF IInv, Res, Con
  <2> QED
    BY <2>1, <2>2, <2>3 DEF IInv, Nothing, Ended
<1> QED
  BY <1>1, Inductive, PTL

(* Module DbConnector's OneStatement: no query, failed or not, leaves its  *)
(* statement behind.                                                       *)
THEOREM StatementsDeleted == Spec => []OneStatement
<1>1. IInv => OneStatement
  BY ConnectorAssumption
     DEF IInv, OneStatement, Nothing, Connected, Ended, Con, Stmt, Res, Object
<1> QED
  BY <1>1, Inductive, PTL

(* Module DbConnector's OwnResult: nobody reads the result of an earlier   *)
(* query for that of a query that succeeded.                               *)
THEOREM ResultsOwn == Spec => []OwnResult
<1>1. IInv => OwnResult
  BY ConnectorAssumption DEF IInv, OwnResult, Nothing, Connected, Res
<1> QED
  BY <1>1, Inductive, PTL

(* Module DbConnector's StrayOnlyUnset: what goes wrong with the pointers  *)
(* goes wrong with those that were never set.                              *)
THEOREM OnlyUnsetStray == Spec => []StrayOnlyUnset
<1>1. IInv => StrayOnlyUnset
  BY DEF IInv, StrayOnlyUnset, Nothing, Connected, Ended
<1> QED
  BY <1>1, Inductive, PTL
=============================================================================
