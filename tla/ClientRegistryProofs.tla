------------------------ MODULE ClientRegistryProofs ------------------------
(***************************************************************************)
(* Proofs about the client registry, for every number of digits, every     *)
(* base, every set of names and every number of restarts.                  *)
(***************************************************************************)
EXTENDS ClientRegistry, FiniteSetTheorems, TLAPS

\* The first position with some property.
LEMMA LeastPosition ==
  ASSUME NEW T \in SUBSET Position, T # {}
  PROVE  \E p \in T : \A q \in T : p <= q
<1>. DEFINE Upto == {0 .. p : p \in T}
<1>1. \A p \in T : p \in Nat
  BY ClientIdAssumption DEF Position
<1>2. \A p \in T : IsFiniteSet(0 .. p) /\ 0 .. p \subseteq Nat
  BY <1>1, FS_Interval
<1>3. Upto \subseteq FiniteSubsetsOf(Nat) /\ Upto # {}
  BY <1>2 DEF FiniteSubsetsOf
<1>4. PICK x \in Upto : \A y \in Upto : <<y, x>> \notin StrictSubsetOrdering(Nat)
  BY <1>3, FS_StrictSubsetOrderingWellFounded, WFMin
<1>5. PICK p \in T : x = 0 .. p
  OBVIOUS
<1>6. ASSUME NEW q \in T, q < p
      PROVE  FALSE
  <2>1. 0 .. q \in Upto /\ 0 .. q \in SUBSET Nat /\ x \in SUBSET Nat
    BY <1>2, <1>5
  <2>2. 0 .. q \subseteq x /\ x # 0 .. q
    BY <1>1, <1>5, <1>6
  <2>. QED
    BY <1>4, <2>1, <2>2 DEF StrictSubsetOrdering
<1>. QED
  BY <1>1, <1>5, <1>6

\* Unless all digits are the last one, there is a first position that id_add1
\* does not carry over, and its digit can be increased.
LEMMA FirstNotCarried ==
  ASSUME NEW id \in Id, id # MaxId
  PROVE  \E p \in Position : /\ id[p] < Base - 1
                             /\ p \notin Carried(id)
                             /\ \A q \in 0 .. p - 1 : q \in Carried(id)
<1>. USE ClientIdAssumption
<1>. DEFINE T == {p \in Position : id[p] # Base - 1}
<1>1. T # {}
  BY DEF Id, MaxId
<1>2. PICK p \in T : \A q \in T : p <= q
  BY <1>1, LeastPosition
<1>3. p \notin Carried(id) /\ \A q \in 0 .. p - 1 : q \in Carried(id)
  BY <1>2 DEF Carried, Position
<1>4. id[p] < Base - 1
  BY DEF Id, Digit
<1>. QED
  BY <1>3, <1>4

\* What id_add1 does: digits above the first one that is not carried stay.
LEMMA Add1Digits ==
  ASSUME NEW id \in Id, NEW p \in Position, p \notin Carried(id),
         \A q \in 0 .. p - 1 : q \in Carried(id)
  PROVE  /\ Add1(id)[p] = id[p] + 1
         /\ \A q \in Position : q < p => Add1(id)[q] = 0
         /\ \A q \in Position : q > p => Add1(id)[q] = id[q]
<1>. USE ClientIdAssumption
<1>1. Add1(id)[p] = id[p] + 1
  BY DEF Add1
<1>2. \A q \in Position : q < p => q \in 0 .. p - 1
  BY DEF Position
<1>3. \A q \in Position : q > p => q \notin Carried(id) /\ p \in 0 .. q - 1
  BY DEF Position, Carried
<1>. QED
  BY <1>1, <1>2, <1>3 DEF Add1

\* The successor of an identifier is an identifier.
LEMMA Add1Type ==
  ASSUME NEW id \in Id, id # MaxId
  PROVE  Add1(id) \in Id
<1>. USE ClientIdAssumption
<1>1. PICK p \in Position : /\ id[p] < Base - 1
                            /\ p \notin Carried(id)
                            /\ \A q \in 0 .. p - 1 : q \in Carried(id)
  BY FirstNotCarried
<1>2. \A q \in Position : id[q] \in Digit
  BY DEF Id
<1>3. Add1(id)[p] \in Digit
  BY <1>1, <1>2, Add1Digits DEF Digit
<1>4. ASSUME NEW q \in Position, q # p
      PROVE  Add1(id)[q] = 0 \/ Add1(id)[q] = id[q]
  BY <1>1, <1>4, Add1Digits DEF Position
<1>5. \A q \in Position : Add1(id)[q] \in Digit
  BY <1>2, <1>3, <1>4 DEF Digit
<1>. QED
  BY <1>5 DEF Add1, Id

\* The successor of an identifier comes after it in the order of counting.
LEMMA Add1Counts ==
  ASSUME NEW id \in Id, id # MaxId
  PROVE  CountsBefore(id, Add1(id))
<1>. USE ClientIdAssumption
<1>1. PICK p \in Position : /\ id[p] < Base - 1
                            /\ p \notin Carried(id)
                            /\ \A q \in 0 .. p - 1 : q \in Carried(id)
  BY FirstNotCarried
<1>2. id[p] < Add1(id)[p]
  BY <1>1, Add1Digits DEF Id, Digit
<1>3. \A q \in p + 1 .. Digits - 1 : id[q] = Add1(id)[q]
  BY <1>1, Add1Digits DEF Position
<1>. QED
  BY <1>2, <1>3 DEF CountsBefore

\* The order of counting is a strict order.
LEMMA CountsBeforeTransitive ==
  ASSUME NEW a \in Id, NEW b \in Id, NEW c \in Id,
         CountsBefore(a, b), CountsBefore(b, c)
  PROVE  CountsBefore(a, c)
<1>. USE ClientIdAssumption
<1>1. PICK p \in Position : a[p] < b[p] /\ \A q \in p + 1 .. Digits - 1 : a[q] = b[q]
  BY DEF CountsBefore
<1>2. PICK r \in Position : b[r] < c[r] /\ \A q \in r + 1 .. Digits - 1 : b[q] = c[q]
  BY DEF CountsBefore
<1>3. \A q \in Position : a[q] \in Int /\ b[q] \in Int /\ c[q] \in Int
  BY DEF Id, Digit
<1>4. CASE p <= r
  <2>1. a[r] < c[r]
    BY <1>1, <1>2, <1>3, <1>4 DEF Position
  <2>2. \A q \in r + 1 .. Digits - 1 : a[q] = c[q]
    BY <1>1, <1>2, <1>4 DEF Position
  <2>. QED
    BY <2>1, <2>2 DEF CountsBefore
<1>5. CASE r < p
  <2>1. a[p] < c[p]
    BY <1>1, <1>2, <1>3, <1>5 DEF Position
  <2>2. \A q \in p + 1 .. Digits - 1 : a[q] = c[q]
    BY <1>1, <1>2, <1>5 DEF Position
  <2>. QED
    BY <2>1, <2>2 DEF CountsBefore
<1>. QED
  BY <1>4, <1>5 DEF Position

\* No identifier is handed out before itself.
LEMMA CountsBeforeIrreflexive ==
  ASSUME NEW a \in Id
  PROVE  ~CountsBefore(a, a)
BY ClientIdAssumption DEF CountsBefore, Id, Digit

-----------------------------------------------------------------------------

\* Without a restart the counter is at or after every identifier in the table.
Numbered ==
  restarts = 0 =>
    \A r \in clients : r.id = last_client_id \/ CountsBefore(r.id, last_client_id)

\* While there are fewer than Base clients all identifiers differ in the first
\* digit only, and there the two orders agree.
OneDigit ==
  Cardinality(clients) < Base =>
    /\ \A p \in Position \ {0} : /\ last_client_id[p] = 0
                                 /\ \A r \in clients : r.id[p] = 0
    /\ \A r \in clients : r.id[0] <= last_client_id[0]
    /\ last_client_id[0] <= Cardinality(clients)

RegistryInv ==
  /\ TypeOK
  /\ IsFiniteSet(clients)
  /\ OneRowPerClient
  /\ Numbered
  /\ OneDigit

\* The identifier of a registration is new while the server was not restarted
\* or one digit is enough.
LEMMA NextIdIsNew ==
  ASSUME RegistryInv, last_client_id # MaxId,
         restarts = 0 \/ Cardinality(clients) < Base
  PROVE  \A r \in clients : r.id # Add1(last_client_id)
<1>. USE ClientIdAssumption
<1>. DEFINE last == last_client_id
<1>. SUFFICES ASSUME NEW r \in clients
              PROVE  r.id # Add1(last)
  OBVIOUS
<1>1. last \in Id /\ r.id \in Id /\ Add1(last) \in Id /\ 0 \in Position
  BY Add1Type DEF RegistryInv, TypeOK, ClientRow, Position
<1>2. CASE restarts = 0
  <2>1. CountsBefore(last, Add1(last))
    BY <1>1, Add1Counts
  <2>2. r.id = last \/ CountsBefore(r.id, last)
    BY <1>2 DEF RegistryInv, Numbered
  <2>3. CountsBefore(r.id, Add1(last))
    BY <1>1, <2>1, <2>2, CountsBeforeTransitive
  <2>. QED
    BY <1>1, <2>3, CountsBeforeIrreflexive
<1>3. CASE Cardinality(clients) < Base
  <2>1. /\ \A p \in Position \ {0} : last[p] = 0 /\ r.id[p] = 0
        /\ r.id[0] <= last[0]
    BY <1>3 DEF RegistryInv, OneDigit
  <2>2. PICK p \in Position : /\ last[p] < Base - 1
                              /\ p \notin Carried(last)
                              /\ \A q \in 0 .. p - 1 : q \in Carried(last)
    BY <1>1, FirstNotCarried
  <2>3. Add1(last)[p] = last[p] + 1
    BY <1>1, <2>2, Add1Digits
  <2>4. r.id[p] <= last[p] /\ r.id[p] \in Int /\ last[p] \in Int
    BY <1>1, <2>1 DEF Id, Digit
  <2>. QED
    BY <2>3, <2>4
<1>. QED
  BY <1>2, <1>3

\* What a registration does to the table: one row is new, and at most one,
\* the one with the same identifier, is replaced.
LEMMA RegisterRows ==
  ASSUME RegistryInv, NEW name \in Name, Register(name)
  PROVE  LET row == [id |-> Add1(last_client_id), name |-> name] IN
           /\ last_client_id # MaxId /\ last_client_id \in Id
           /\ last_client_id' = Add1(last_client_id) /\ restarts' = restarts
           /\ row \in ClientRow /\ row \notin clients
           /\ \A r \in clients : r.name # name
           /\ \/ /\ \A r \in clients : r.id # row.id
                 /\ clients' = clients \cup {row}
              \/ \E r \in clients : /\ r.id = row.id
                                    /\ clients' = (clients \ {r}) \cup {row}
<1>. DEFINE row == [id |-> Add1(last_client_id), name |-> name]
<1>1. /\ last_client_id # MaxId /\ last_client_id \in Id
      /\ last_client_id' = Add1(last_client_id) /\ restarts' = restarts
      /\ \A r \in clients : r.name # name
      /\ clients' = {r \in clients : r.id # row.id} \cup {row}
  BY DEF Register, AddClient, NameExists, RegisteredNames, RegistryInv, TypeOK
<1>2. row \in ClientRow /\ row \notin clients
  BY <1>1, Add1Type DEF ClientRow
<1>. HIDE DEF row
<1>3. (\A r \in clients : r.id # row.id) => clients' = clients \cup {row}
  BY <1>1
<1>4. ASSUME NEW r \in clients, r.id = row.id
      PROVE  clients' = (clients \ {r}) \cup {row}
  BY <1>1, <1>4 DEF RegistryInv, OneRowPerClient
<1>. QED
  BY <1>1, <1>2, <1>3, <1>4 DEF row

\* The table does not lose rows: a row is added, or takes the place of one.
LEMMA RegisterCounts ==
  ASSUME RegistryInv, NEW name \in Name, Register(name)
  PROVE  /\ Cardinality(clients) \in Nat
         /\ Cardinality(clients') \in {Cardinality(clients), Cardinality(clients) + 1}
<1>. DEFINE row == [id |-> Add1(last_client_id), name |-> name]
<1>1. /\ row \notin clients
      /\ \/ clients' = clients \cup {row}
         \/ \E r \in clients : clients' = (clients \ {r}) \cup {row}
  BY RegisterRows
<1>. HIDE DEF row
<1>2. IsFiniteSet(clients) /\ Cardinality(clients) \in Nat
  BY FS_CardinalityType DEF RegistryInv
<1>3. CASE clients' = clients \cup {row}
  BY <1>1, <1>2, <1>3, FS_AddElement
<1>4. ASSUME NEW r \in clients, clients' = (clients \ {r}) \cup {row}
      PROVE  Cardinality(clients') = Cardinality(clients)
  <2>1. /\ IsFiniteSet(clients \ {r}) /\ row \notin clients \ {r}
        /\ Cardinality(clients \ {r}) = Cardinality(clients) - 1
    BY <1>1, <1>2, FS_RemoveElement
  <2>2. Cardinality((clients \ {r}) \cup {row}) = Cardinality(clients \ {r}) + 1
    BY <2>1, FS_AddElement
  <2>. QED
    BY <1>2, <1>4, <2>1, <2>2
<1>. QED
  BY <1>1, <1>2, <1>3, <1>4

\* A registration keeps the invariant.
LEMMA RegisterKeepsInv ==
  ASSUME RegistryInv, NEW name \in Name, Register(name)
  PROVE  RegistryInv'
<1>. USE ClientIdAssumption
<1>. DEFINE last == last_client_id
            row  == [id |-> Add1(last), name |-> name]
<1>1. /\ last # MaxId /\ last \in Id
      /\ last' = Add1(last) /\ restarts' = restarts
      /\ row \in ClientRow /\ row \notin clients
      /\ \A r \in clients : r.name # name
      /\ \/ /\ \A r \in clients : r.id # row.id
            /\ clients' = clients \cup {row}
         \/ \E r \in clients : /\ r.id = row.id
                               /\ clients' = (clients \ {r}) \cup {row}
  BY RegisterRows
<1>2. row.id = Add1(last) /\ row.name = name /\ Add1(last) \in Id
  BY <1>1, Add1Type
<1>. HIDE DEF row
<1>3. /\ TypeOK /\ IsFiniteSet(clients) /\ OneRowPerClient
      /\ Numbered /\ OneDigit
  BY DEF RegistryInv
<1>4. TypeOK'
  BY <1>1, <1>2, <1>3 DEF TypeOK
<1>5. IsFiniteSet(clients')
  <2>1. CASE clients' = clients \cup {row}
    BY <1>3, <2>1, FS_AddElement
  <2>2. ASSUME NEW r \in clients, clients' = (clients \ {r}) \cup {row}
        PROVE  IsFiniteSet(clients')
    <3>1. IsFiniteSet(clients \ {r})
      BY <1>3, FS_RemoveElement
    <3>. QED
      BY <2>2, <3>1, FS_AddElement
  <2>. QED
    BY <1>1, <2>1, <2>2
<1>6. OneRowPerClient'
  BY <1>1, <1>2, <1>3 DEF OneRowPerClient
<1>7. Numbered'
  <2>. SUFFICES ASSUME restarts = 0, NEW r \in clients, r # row
                PROVE  CountsBefore(r.id, Add1(last))
    BY <1>1, <1>2 DEF Numbered
  <2>1. r.id \in Id /\ (r.id = last \/ CountsBefore(r.id, last))
    BY <1>3 DEF Numbered, TypeOK, ClientRow
  <2>. QED
    BY <1>1, <1>2, <2>1, Add1Counts, CountsBeforeTransitive
<1>8. OneDigit'
  <2>. SUFFICES ASSUME Cardinality(clients') < Base
                PROVE  /\ \A p \in Position \ {0} :
                            /\ last'[p] = 0
                            /\ \A r \in clients' : r.id[p] = 0
                       /\ \A r \in clients' : r.id[0] <= last'[0]
                       /\ last'[0] <= Cardinality(clients')
    BY DEF OneDigit
  <2>1. Cardinality(clients) \in Nat
    BY <1>3, FS_CardinalityType
  <2>2. Cardinality(clients) < Base
    BY <2>1, RegisterCounts, ClientIdAssumption
  <2>3. clients' = clients \cup {row}
    BY <1>1, <1>2, <2>2, NextIdIsNew
  <2>4. Cardinality(clients') = Cardinality(clients) + 1
    BY <1>1, <1>3, <2>3, FS_AddElement
  <2>5. /\ \A p \in Position \ {0} : last[p] = 0 /\ \A r \in clients : r.id[p] = 0
        /\ \A r \in clients : r.id[0] <= last[0]
        /\ last[0] <= Cardinality(clients)
    BY <1>3, <2>1, <2>4 DEF OneDigit
  <2>6. 0 \in Position /\ last[0] \in Int /\ last[0] < Base - 1
    BY <1>1, <2>1, <2>4, <2>5 DEF Position, Id, Digit
  <2>7. 0 \notin Carried(last) /\ \A q \in 0 .. 0 - 1 : q \in Carried(last)
    BY <2>6 DEF Carried
  <2>8. /\ row.id[0] = last[0] + 1
        /\ \A p \in Position \ {0} : row.id[p] = 0
    <3>1. \A p \in Position \ {0} : p > 0
      BY DEF Position
    <3>. QED
      BY <1>1, <1>2, <2>5, <2>6, <2>7, <3>1, Add1Digits
  <2>9. \A r \in clients : r.id[0] \in Int
    BY <1>3, <2>6 DEF TypeOK, ClientRow, Id, Digit
  <2>. QED
    BY <1>1, <1>2, <2>1, <2>3, <2>4, <2>5, <2>6, <2>8, <2>9
<1>. QED
  BY <1>4, <1>5, <1>6, <1>7, <1>8 DEF RegistryInv

\* A restart keeps the invariant: with one digit the last row in the order of
\* the text is the last one handed out, up to clients that were replaced.
LEMMA ReloadKeepsInv ==
  ASSUME RegistryInv, Reload
  PROVE  RegistryInv'
<1>. USE ClientIdAssumption
<1>1. /\ TypeOK /\ IsFiniteSet(clients) /\ OneRowPerClient /\ OneDigit
      /\ clients' = clients /\ restarts' = restarts + 1 /\ restarts \in Nat
      /\ \/ clients = {} /\ last_client_id' = ZeroId
         \/ \E r \in clients : IsLastId(r.id) /\ last_client_id' = r.id
  BY DEF RegistryInv, Reload, RegisteredIds, TypeOK
<1>2. ZeroId \in Id /\ \A p \in Position : ZeroId[p] = 0
  BY DEF ZeroId, Id, Digit
<1>3. TypeOK'
  BY <1>1, <1>2 DEF TypeOK, ClientRow
<1>4. IsFiniteSet(clients)' /\ OneRowPerClient' /\ Numbered'
  BY <1>1 DEF OneRowPerClient, Numbered
<1>5. OneDigit'
  <2>1. Cardinality(clients) \in Nat /\ 0 \in Position
    BY <1>1, FS_CardinalityType DEF Position
  <2>2. CASE clients = {}
    BY <1>1, <1>2, <2>1, <2>2 DEF OneDigit
  <2>3. ASSUME NEW last \in clients, IsLastId(last.id),
               last_client_id' = last.id, Cardinality(clients) < Base
        PROVE  \A r \in clients : r.id[0] <= last.id[0]
    <3>. SUFFICES ASSUME NEW r \in clients
                  PROVE  r.id[0] <= last.id[0]
      OBVIOUS
    <3>1. r.id[0] \in Int /\ last.id[0] \in Int
      BY <1>1, <2>1 DEF TypeOK, ClientRow, Id, Digit
    <3>2. r.id = last.id \/ SortsBefore(r.id, last.id)
      BY <2>3 DEF IsLastId, RegisteredIds
    <3>3. \A p \in Position \ {0} : r.id[p] = 0 /\ last.id[p] = 0
      BY <1>1, <2>3 DEF OneDigit
    <3>. QED
      BY <3>1, <3>2, <3>3 DEF SortsBefore
  <2>4. ASSUME NEW last \in clients, IsLastId(last.id),
               last_client_id' = last.id, Cardinality(clients) < Base
        PROVE  last.id[0] <= Cardinality(clients)
    <3>1. last.id[0] \in Int /\ last_client_id[0] \in Int
      BY <1>1, <2>1 DEF TypeOK, ClientRow, Id, Digit
    <3>. QED
      BY <1>1, <2>1, <2>4, <3>1 DEF OneDigit
  <2>. QED
    BY <1>1, <2>2, <2>3, <2>4 DEF OneDigit
<1>. QED
  BY <1>3, <1>4, <1>5 DEF RegistryInv

\* The inductive invariant holds in every reachable state.
THEOREM RegistryInvariant == Spec => []RegistryInv
<1>1. Init => RegistryInv
  <2>. SUFFICES ASSUME Init PROVE RegistryInv
    OBVIOUS
  <2>1. /\ clients = {} /\ restarts = 0 /\ last_client_id = ZeroId
        /\ IsFiniteSet(clients) /\ Cardinality(clients) = 0
    BY FS_EmptySet DEF Init
  <2>2. ZeroId \in Id /\ ZeroId[0] = 0 /\ \A p \in Position : ZeroId[p] = 0
    BY ClientIdAssumption DEF ZeroId, Id, Digit, Position
  <2>. QED
    BY <2>1, <2>2 DEF RegistryInv, TypeOK, OneRowPerClient, Numbered, OneDigit
<1>2. RegistryInv /\ [Next]_registryVars => RegistryInv'
  <2>. SUFFICES ASSUME RegistryInv, [Next]_registryVars PROVE RegistryInv'
    OBVIOUS
  <2>1. CASE Reload
    BY <2>1, ReloadKeepsInv
  <2>2. CASE UNCHANGED registryVars
    BY <2>2 DEF registryVars, RegistryInv, TypeOK, OneRowPerClient, Numbered,
                OneDigit
  <2>. QED
    BY <2>1, <2>2, RegisterKeepsInv DEF Next
<1>. QED
  BY <1>1, <1>2, PTL DEF Spec

\* The variables of the registry always have their types.
THEOREM TypeCorrect == Spec => []TypeOK
<1>1. RegistryInv => TypeOK
  BY DEF RegistryInv
<1>. QED
  BY <1>1, RegistryInvariant, PTL

\* Names and identifiers each denote one row of the table.
THEOREM OneRowPerClientAlways == Spec => []OneRowPerClient
<1>1. RegistryInv => OneRowPerClient
  BY DEF RegistryInv
<1>. QED
  BY <1>1, RegistryInvariant, PTL

\* No registration replaces a client's row before the first restart, or while
\* one digit numbers all clients.
THEOREM NoClientReplacedEver == Spec => NoClientReplaced
<1>1. RegistryInv /\ [Next]_registryVars
        => [restarts = 0 \/ Cardinality(clients) < Base => RowsKept]_registryVars
  <2>. SUFFICES ASSUME RegistryInv, [Next]_registryVars,
                       restarts = 0 \/ Cardinality(clients) < Base
                PROVE  RowsKept \/ UNCHANGED registryVars
    OBVIOUS
  <2>1. ASSUME NEW name \in Name, Register(name)
        PROVE  RowsKept
    <3>1. \A r \in clients : r.id # Add1(last_client_id)
      BY <2>1, NextIdIsNew DEF Register
    <3>. QED
      BY <2>1, <3>1 DEF Register, AddClient, RowsKept
  <2>2. CASE Reload
    BY <2>2 DEF Reload, RowsKept
  <2>. QED
    BY <2>1, <2>2 DEF Next
<1>. QED
  BY <1>1, RegistryInvariant, PTL DEF Spec, NoClientReplaced

\* While this holds no identifier was used twice.
IdsFresh == restarts = 0 \/ Cardinality(clients) < Base

\* Once it does not hold it never holds again: a step into a state in which it holds
\* replaced no row, nor did any step before.
LEMMA FreshBefore ==
  ASSUME RegistryInv, [Next]_registryVars, IdsFresh'
  PROVE  IdsFresh /\ RowsKept
<1>1. RegistryInv => Base \in Nat /\ restarts \in Nat
  BY ClientIdAssumption DEF RegistryInv, TypeOK
<1>2. ASSUME NEW name \in Name, Register(name) PROVE IdsFresh /\ RowsKept
  <2>1. /\ restarts' = restarts /\ Cardinality(clients) \in Nat
        /\ Cardinality(clients') \in {Cardinality(clients), Cardinality(clients) + 1}
    BY <1>2, RegisterCounts DEF Register
  <2>2. IdsFresh
    BY <1>1, <2>1 DEF IdsFresh
  <2>3. \A r \in clients : r.id # Add1(last_client_id)
    BY <1>2, <2>2, NextIdIsNew DEF Register, IdsFresh
  <2>. QED
    BY <1>2, <2>2, <2>3 DEF Register, AddClient, RowsKept
<1>3. CASE Reload
  BY <1>1, <1>3 DEF Reload, IdsFresh, RowsKept
<1>4. CASE UNCHANGED registryVars
  BY <1>4 DEF registryVars, IdsFresh, RowsKept
<1>. QED
  BY <1>2, <1>3, <1>4 DEF Next

\* There are no more clients than names: it holds for ever if the names are few.
LEMMA FewNamesFresh ==
  ASSUME RegistryInv, IsFiniteSet(Name), Cardinality(Name) < Base
  PROVE  IdsFresh
<1>. DEFINE NameOf == [r \in clients |-> r.name]
<1>1. NameOf \in [clients -> Name]
  BY DEF RegistryInv, TypeOK, ClientRow
<1>2. \A r, s \in clients : NameOf[r] = NameOf[s] => r = s
  BY DEF RegistryInv, OneRowPerClient
<1>3. NameOf \in Injection(clients, Name)
  BY <1>1, <1>2 DEF Injection, IsInjective
<1>4. Cardinality(clients) <= Cardinality(Name)
  BY <1>3, FS_Injection
<1>5. Cardinality(clients) \in Nat /\ Cardinality(Name) \in Nat
  BY FS_CardinalityType DEF RegistryInv
<1>. QED
  BY <1>4, <1>5, ClientIdAssumption DEF IdsFresh

-----------------------------------------------------------------------------
(* The last row of the table. *)

\* The order of the text compares any two identifiers.
LEMMA SortsBeforeTotal ==
  ASSUME NEW a \in Id, NEW b \in Id, a # b
  PROVE  SortsBefore(a, b) \/ SortsBefore(b, a)
<1>. DEFINE T == {p \in Position : a[p] # b[p]}
<1>1. T # {}
  BY DEF Id
<1>2. T \in SUBSET Position
  OBVIOUS
<1>3. PICK p \in T : \A q \in T : p <= q
  <2>. HIDE DEF T
  <2>. QED
    BY <1>1, <1>2, LeastPosition
<1>4. p \in Position /\ a[p] # b[p]
  OBVIOUS
<1>5. \A q \in 0 .. p - 1 : a[q] = b[q]
  <2>1. SUFFICES ASSUME NEW q \in 0 .. p - 1, a[q] # b[q]
                 PROVE  FALSE
    OBVIOUS
  <2>2. q \in Position /\ ~(p <= q)
    BY <1>4, <2>1, ClientIdAssumption DEF Position
  <2>3. q \in T
    BY <2>1, <2>2
  <2>. HIDE DEF T
  <2>. QED
    BY <1>3, <2>2, <2>3
<1>6. a[p] \in Int /\ b[p] \in Int
  BY <1>4, ClientIdAssumption DEF Id, Digit
<1>7. a[p] < b[p] \/ b[p] < a[p]
  BY <1>4, <1>6
<1>. QED
  BY <1>4, <1>5, <1>7 DEF SortsBefore

\* It is a strict order.
LEMMA SortsBeforeTransitive ==
  ASSUME NEW a \in Id, NEW b \in Id, NEW c \in Id, SortsBefore(a, b), SortsBefore(b, c)
  PROVE  SortsBefore(a, c)
<1>. USE ClientIdAssumption
<1>1. PICK p \in Position : a[p] < b[p] /\ \A q \in 0 .. p - 1 : a[q] = b[q]
  BY DEF SortsBefore
<1>2. PICK r \in Position : b[r] < c[r] /\ \A q \in 0 .. r - 1 : b[q] = c[q]
  BY DEF SortsBefore
<1>3. \A q \in Position : a[q] \in Int /\ b[q] \in Int /\ c[q] \in Int
  BY DEF Id, Digit
<1>4. CASE p <= r
  <2>1. a[p] < c[p]
    BY <1>1, <1>2, <1>3, <1>4 DEF Position
  <2>2. \A q \in 0 .. p - 1 : a[q] = c[q]
    BY <1>1, <1>2, <1>4 DEF Position
  <2>. QED
    BY <2>1, <2>2 DEF SortsBefore
<1>5. CASE r < p
  <2>1. a[r] < c[r]
    BY <1>1, <1>2, <1>3, <1>5 DEF Position
  <2>2. \A q \in 0 .. r - 1 : a[q] = c[q]
    BY <1>1, <1>2, <1>5 DEF Position
  <2>. QED
    BY <2>1, <2>2 DEF SortsBefore
<1>. QED
  BY <1>4, <1>5 DEF Position

\* No identifier is behind itself.
LEMMA SortsBeforeIrreflexive ==
  ASSUME NEW a \in Id
  PROVE  ~SortsBefore(a, a)
BY ClientIdAssumption DEF SortsBefore, Id, Digit

\* Of the registered identifiers, the ones behind id.
Behind(id) == {other \in RegisteredIds : SortsBefore(id, other)}

\* A table that is not empty has a last row, and no other one: a restart finds one
\* counter, whichever rows were replaced before.  Of all sets Behind(id) one is the
\* smallest, and it is empty.
THEOREM OneLastIdAlways ==
  Spec => [](clients # {} => \E id \in RegisteredIds : \A other \in Id :
                               IsLastId(other) <=> other = id)
<1>1. RegistryInv => (clients # {} => \E id \in RegisteredIds : \A other \in Id :
                                        IsLastId(other) <=> other = id)
  <2>. SUFFICES ASSUME RegistryInv, clients # {}
                PROVE  \E id \in RegisteredIds : \A other \in Id :
                         IsLastId(other) <=> other = id
    OBVIOUS
  <2>1. RegisteredIds \subseteq Id /\ RegisteredIds # {}
    BY DEF RegistryInv, TypeOK, ClientRow, RegisteredIds
  <2>2. IsFiniteSet(RegisteredIds)
    <3>. DEFINE IdOf == [r \in clients |-> r.id]
    <3>1. IdOf \in Surjection(clients, RegisteredIds)
      BY DEF Surjection, RegisteredIds
    <3>. QED
      BY <3>1, FS_Surjection DEF RegistryInv
  <2>. DEFINE Sets == {Behind(id) : id \in RegisteredIds}
  <2>3. Sets \subseteq FiniteSubsetsOf(Id) /\ Sets # {}
    <3>1. \A id \in RegisteredIds : Behind(id) \subseteq RegisteredIds
      BY DEF Behind
    <3>2. \A id \in RegisteredIds : IsFiniteSet(Behind(id)) /\ Behind(id) \subseteq Id
      BY <2>1, <2>2, <3>1, FS_Subset
    <3>. QED
      BY <2>1, <3>2 DEF FiniteSubsetsOf
  <2>4. PICK x \in Sets : \A y \in Sets : <<y, x>> \notin StrictSubsetOrdering(Id)
    <3>. HIDE DEF Sets
    <3>. QED
      BY <2>3, FS_StrictSubsetOrderingWellFounded, WFMin
  <2>5. PICK id \in RegisteredIds : x = Behind(id)
    OBVIOUS
  <2>6. ASSUME NEW o \in Behind(id)
        PROVE  FALSE
    <3>1. o \in RegisteredIds /\ o \in Id /\ id \in Id /\ SortsBefore(id, o)
      BY <2>1 DEF Behind
    <3>2. Behind(o) \subseteq Behind(id)
      BY <2>1, <3>1, SortsBeforeTransitive DEF Behind
    <3>3. o \notin Behind(o)
      BY <3>1, SortsBeforeIrreflexive DEF Behind
    <3>4. /\ Behind(o) \in Sets
          /\ Behind(o) \in SUBSET Id /\ Behind(id) \in SUBSET Id
      BY <2>1, <3>1 DEF Behind
    <3>5. Behind(o) # Behind(id)
      BY <3>3
    <3>. HIDE DEF Sets
    <3>. QED
      BY <2>4, <2>5, <3>2, <3>4, <3>5 DEF StrictSubsetOrdering
  <2>7. IsLastId(id)
    BY <2>1, <2>6, SortsBeforeTotal DEF IsLastId, Behind
  <2>8. ASSUME NEW other \in Id, IsLastId(other), other # id
        PROVE  FALSE
    <3>1. SortsBefore(other, id) /\ SortsBefore(id, other) /\ id \in Id
      BY <2>1, <2>7, <2>8 DEF IsLastId
    <3>. QED
      BY <2>8, <3>1, SortsBeforeTransitive, SortsBeforeIrreflexive
  <2>. QED
    BY <2>7, <2>8
<1>. QED
  BY <1>1, RegistryInvariant, PTL

=============================================================================
