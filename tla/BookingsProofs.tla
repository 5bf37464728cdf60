--------------------------- MODULE BookingsProofs ---------------------------
(***************************************************************************)
(* Theorems about TestCentres, for any centres, names, postcodes, files to *)
(* import and requests, about Bookings, for any slots, bookings and        *)
(* requests, and about LessonScreens, for any prices, postcodes and slots. *)
(***************************************************************************)
EXTENDS Bookings, LessonScreens, TestCentres, SequenceTheorems, TLAPS

\* What an edit is about to write is where its postcode is.
Aimed == \A e \in Editor : edits[e] # Missing /\ edits[e].step = "write" => Placed(edits[e])

CentresInv == CentresTypeOK /\ Aimed /\ CentresStand

LEMMA EditTyped ==
    ASSUME CentresTypeOK, NEW e \in Editor, edits[e] # Missing
    PROVE  /\ edits[e] \in Edit
           /\ edits[e].step \in {"idle", "locate", "write", "delete"}
           /\ edits[e].id \in Id \cup {Missing}
           /\ edits[e].name \in Name /\ edits[e].postcode \in Postcode
           /\ edits[e].at \in Location \cup {Missing}
<1>1. edits[e] \in Edit
  BY DEF CentresTypeOK
<1> QED BY <1>1 DEF Edit

\* A location is none of the names for nothing, and a row of the table is not either.
LEMMA RowTyped ==
    /\ \A row \in CentreRow : row # Missing
    /\ CentresTypeOK => \A c \in Id : Exists(c) =>
          /\ centres[c] \in CentreRow
          /\ centres[c].name \in Name /\ centres[c].postcode \in Postcode /\ centres[c].at \in Location
<1>1. \A row \in CentreRow : row # Missing
  BY CentresAssumption, Zenon DEF CentreRow, Location
<1>2. ASSUME CentresTypeOK, NEW c \in Id, Exists(c)
      PROVE  /\ centres[c] \in CentreRow
             /\ centres[c].name \in Name /\ centres[c].postcode \in Postcode /\ centres[c].at \in Location
  <2>1. centres[c] \in CentreRow
    BY <1>2 DEF CentresTypeOK, Exists
  <2> QED BY <2>1 DEF CentreRow
<1> QED BY <1>1, <1>2

\* One edit is replaced: what it now says must be typed, and placed if it is to be written.
LEMMA EditChanged ==
    ASSUME CentresInv, NEW e \in Editor, NEW edit, Do(e, edit),
           edit \in Edit \cup {Missing},
           edit # Missing /\ edit.step = "write" => Placed(edit)
    PROVE  edits' \in [Editor -> Edit \cup {Missing}] /\ Aimed'
<1>1. edits \in [Editor -> Edit \cup {Missing}] /\ edits' = [edits EXCEPT ![e] = edit]
  BY DEF CentresInv, CentresTypeOK, Do
<1>2. edits' \in [Editor -> Edit \cup {Missing}]
  BY <1>1
<1>3. ASSUME NEW d \in Editor, edits'[d] # Missing, edits'[d].step = "write"
      PROVE  Placed(edits'[d])
  <2>1. CASE d = e
    BY <1>1, <1>3, <2>1
  <2>2. CASE d # e
    BY <1>1, <1>3, <2>2 DEF CentresInv, Aimed
  <2> QED BY <2>1, <2>2
<1>4. Aimed'
  BY <1>3 DEF Aimed, Placed
<1> QED BY <1>2, <1>4

\* The table and the routes stay as they are.
LEMMA TableStays ==
    ASSUME CentresInv, UNCHANGED <<centres, routed>>, edits' \in [Editor -> Edit \cup {Missing}], Aimed'
    PROVE  CentresInv'
<1>1. CentresTypeOK'
  BY DEF CentresInv, CentresTypeOK
<1>2. CentresStand'
  BY DEF CentresInv, CentresStand, Exists, Called, Placed
<1> QED BY <1>1, <1>2 DEF CentresInv

\* An edit is over.
LEMMA Stopped ==
    ASSUME CentresInv, NEW e \in Editor, Stops(e)
    PROVE  edits' \in [Editor -> Edit \cup {Missing}] /\ Aimed'
  BY EditChanged DEF Stops

\* A row is written whose place and name are right.
LEMMA RowWritten ==
    ASSUME CentresInv, NEW c \in Id, NEW row \in CentreRow, Placed(row), NameFree(row.name, c),
           centres' = [centres EXCEPT ![c] = row], UNCHANGED routed,
           edits' \in [Editor -> Edit \cup {Missing}], Aimed'
    PROVE  CentresInv'
<1>1. centres \in [Id -> CentreRow \cup {Missing}]
  BY DEF CentresInv, CentresTypeOK
<1>2. /\ centres' \in [Id -> CentreRow \cup {Missing}] /\ centres'[c] = row
      /\ \A d \in Id : d # c => centres'[d] = centres[d]
  BY <1>1
<1>3. row # Missing
  BY RowTyped
<1>4. CentresTypeOK'
  BY <1>2 DEF CentresInv, CentresTypeOK
<1>5. \A d \in Id : Exists(d)' => Placed(centres'[d])
  BY <1>2, <1>3 DEF CentresInv, CentresStand, Exists
<1>6. ASSUME NEW x \in Id, NEW y \in Id, centres'[x] # Missing, centres'[y] # Missing,
             NormName[centres'[y].name] = NormName[centres'[x].name]
      PROVE  x = y
  <2>1. CASE x # c /\ y # c
    BY <1>2, <1>6, <2>1 DEF CentresInv, CentresStand, Exists, Called
  <2>2. CASE x = c /\ y # c
    <3>1. Called(y, row.name)
      BY <1>2, <1>6, <2>2 DEF Called, Exists
    <3> QED BY <2>2, <3>1 DEF NameFree
  <2>3. CASE x # c /\ y = c
    <3>1. Called(x, row.name)
      BY <1>2, <1>6, <2>3 DEF Called, Exists
    <3> QED BY <2>3, <3>1 DEF NameFree
  <2> QED BY <2>1, <2>2, <2>3
<1>7. routed' \subseteq {d \in Id : centres'[d] # Missing}
  BY <1>2, <1>3 DEF CentresInv, CentresStand, Exists
<1>8. CentresStand'
  BY <1>5, <1>6, <1>7 DEF CentresStand, Exists, Called, Placed
<1> QED BY <1>4, <1>8 DEF CentresInv

LEMMA CentresInitOK == CentresInit => CentresInv
<1> SUFFICES ASSUME CentresInit PROVE CentresInv
  OBVIOUS
<1>1. /\ Seeded \in [Id -> [name : Name, postcode : Postcode, at : {"given"} \X Postcode] \cup {Missing}]
      /\ \A c, d \in Id : Seeded[c] # Missing /\ Seeded[d] # Missing /\ c # d =>
            NormName[Seeded[c].name] # NormName[Seeded[d].name]
      /\ \A c \in Id : Seeded[c] # Missing => Seeded[c].at[2] = Canonical[Seeded[c].postcode]
  BY CentresAssumption
<1>2. ASSUME NEW c \in Id, Seeded[c] # Missing
      PROVE  Seeded[c] \in CentreRow /\ Placed(Seeded[c])
  <2>1. Seeded[c] \in [name : Name, postcode : Postcode, at : {"given"} \X Postcode]
    BY <1>1, <1>2
  <2>2. Seeded[c].at \in {"given"} \X Postcode
    BY <2>1
  <2>3. Seeded[c].at = <<"given", Canonical[Seeded[c].postcode]>>
    BY <1>1, <1>2, <2>2
  <2>4. Seeded[c] \in CentreRow
    BY <2>1 DEF CentreRow, Location
  <2> QED BY <2>3, <2>4 DEF Placed
<1>3. centres \in [Id -> CentreRow \cup {Missing}]
  BY <1>1, <1>2 DEF CentresInit
<1>4. CentresTypeOK
  BY <1>3 DEF CentresInit, CentresTypeOK
<1>5. Aimed
  BY DEF CentresInit, Aimed
<1>6. CentresStand
  BY <1>1, <1>2 DEF CentresInit, CentresStand, Exists, Called
<1> QED BY <1>4, <1>5, <1>6 DEF CentresInv

LEMMA CreateChecked ==
    ASSUME CentresInv, NEW e \in Editor, NEW n \in Name, NEW p \in Postcode, CreateCheck(e, n, p)
    PROVE  CentresInv'
<1> DEFINE edit == [step |-> "locate", id |-> Missing, name |-> n, postcode |-> p, at |-> Missing]
<1>1. edit \in Edit /\ edit.step # "write"
  BY DEF Edit
<1>2. Do(e, edit) /\ UNCHANGED <<centres, routed>>
  BY DEF CreateCheck
<1> HIDE DEF edit
<1> QED BY <1>1, <1>2, EditChanged, TableStays

LEMMA UpdateReadDone ==
    ASSUME CentresInv, NEW e \in Editor, NEW c \in Id, NEW n \in Name \cup {Missing},
           NEW p \in Postcode \cup {Missing}, UpdateRead(e, c, n, p)
    PROVE  CentresInv'
<1> DEFINE old == centres[c]
           name == IF n = Missing THEN old.name ELSE n
           moved == p # Missing /\ Canonical[p] # Canonical[old.postcode]
           edit == [step |-> IF moved THEN "locate" ELSE "write", id |-> c, name |-> name,
                    postcode |-> IF p = Missing THEN old.postcode ELSE p,
                    at |-> IF moved THEN Missing ELSE old.at]
<1>1. Do(e, edit) /\ UNCHANGED <<centres, routed>> /\ Exists(c)
  BY DEF UpdateRead
<1>2. old.name \in Name /\ old.postcode \in Postcode /\ old.at \in Location
  BY <1>1, RowTyped DEF CentresInv
<1>3. edit \in Edit
  <2>1. name \in Name /\ (IF p = Missing THEN old.postcode ELSE p) \in Postcode
    BY <1>2
  <2>2. (IF moved THEN Missing ELSE old.at) \in Location \cup {Missing}
    BY <1>2
  <2>3. (IF moved THEN "locate" ELSE "write") \in {"idle", "locate", "write", "delete"}
    OBVIOUS
  <2> HIDE DEF name, moved
  <2> QED BY <2>1, <2>2, <2>3 DEF Edit
<1>4. edit.step = "write" => Placed(edit)
  <2> SUFFICES ASSUME edit.step = "write" PROVE Placed(edit)
    OBVIOUS
  <2>1. ~moved
    OBVIOUS
  <2>2. edit.at = old.at /\ edit.postcode = IF p = Missing THEN old.postcode ELSE p
    BY <2>1
  <2>3. Canonical[edit.postcode] = Canonical[old.postcode]
    BY <2>1, <2>2
  <2>4. Placed(old)
    BY <1>1 DEF CentresInv, CentresStand
  <2> HIDE DEF edit, old
  <2> QED BY <2>2, <2>3, <2>4 DEF Placed
<1> HIDE DEF edit
<1> QED BY <1>1, <1>3, <1>4, EditChanged, TableStays

LEMMA LocateDone == ASSUME CentresInv, NEW e \in Editor, Locate(e) PROVE CentresInv'
<1>1. UNCHANGED <<centres, routed>> /\ edits[e] # Missing
  BY DEF Locate
<1>2. CASE Stops(e)
  BY <1>1, <1>2, Stopped, TableStays
<1>3. CASE ~Stops(e)
  <2> PICK p : p = Canonical[edits[e].postcode]
    OBVIOUS
  <2>1. edits[e] \in Edit /\ edits[e].postcode \in Postcode
    BY <1>1, EditTyped DEF CentresInv
  <2>2. p \in Postcode /\ Canonical[p] = p
    BY <2>1, CentresAssumption
  <2> DEFINE edit == [edits[e] EXCEPT !.step = "write", !.postcode = p, !.at = p]
  <2>3. p \in Real /\ Do(e, edit)
    BY <1>3 DEF Locate
  <2>4. edit \in Edit /\ edit.at = p /\ edit.postcode = p
    BY <2>1, <2>2 DEF Edit, Location
  <2>5. Placed(edit)
    BY <2>2, <2>3, <2>4 DEF Placed
  <2> HIDE DEF edit
  <2> QED BY <1>1, <2>3, <2>4, <2>5, EditChanged, TableStays
<1> QED BY <1>2, <1>3

\* What an edit writes.
LEMMA WrittenIs ==
    ASSUME CentresInv, NEW e \in Editor, edits[e] # Missing, edits[e].step = "write"
    PROVE  /\ Written(edits[e]) \in CentreRow /\ Placed(Written(edits[e]))
           /\ Written(edits[e]).name = edits[e].name
<1>1. edits[e].name \in Name /\ edits[e].postcode \in Postcode /\ edits[e].at \in Location \cup {Missing}
  BY EditTyped DEF CentresInv
<1>2. Placed(edits[e])
  BY DEF CentresInv, Aimed
<1>3. edits[e].at \in Location
  <2>1. Canonical[edits[e].postcode] \in Postcode
    BY <1>1, CentresAssumption
  <2> QED BY <1>2, <2>1 DEF Placed, Location
<1> PICK n, p, at : n = edits[e].name /\ p = edits[e].postcode /\ at = edits[e].at
  OBVIOUS
<1>4. Written(edits[e]) = [name |-> n, postcode |-> p, at |-> at]
  BY DEF Written
<1> DEFINE row == [name |-> n, postcode |-> p, at |-> at]
<1>5. row \in CentreRow
  BY <1>1, <1>3 DEF CentreRow
<1>6. row.name = n /\ row.postcode = p /\ row.at = at
  OBVIOUS
<1> HIDE DEF row
<1>7. Placed(row)
  BY <1>2, <1>6 DEF Placed
<1> QED BY <1>4, <1>5, <1>6, <1>7 DEF row

LEMMA InsertDone == ASSUME CentresInv, NEW e \in Editor, Insert(e) PROVE CentresInv'
<1>1. edits[e] # Missing /\ edits[e].step = "write" /\ Stops(e) /\ UNCHANGED routed
  BY DEF Insert
<1>2. edits' \in [Editor -> Edit \cup {Missing}] /\ Aimed'
  BY <1>1, Stopped
<1>3. CASE UNCHANGED centres
  BY <1>1, <1>2, <1>3, TableStays
<1>4. CASE ~UNCHANGED centres
  <2>1. /\ NameFree(edits[e].name, Missing)
        /\ \E c \in Id : ~Exists(c) /\ centres' = [centres EXCEPT ![c] = Written(edits[e])]
    BY <1>4 DEF Insert
  <2>2. PICK c \in Id : ~Exists(c) /\ centres' = [centres EXCEPT ![c] = Written(edits[e])]
    BY <2>1
  <2>3. /\ Written(edits[e]) \in CentreRow /\ Placed(Written(edits[e]))
        /\ Written(edits[e]).name = edits[e].name
    BY <1>1, WrittenIs
  <2>4. NameFree(edits[e].name, c)
    BY <2>1, CentresAssumption DEF NameFree
  <2>5. NameFree(Written(edits[e]).name, c)
    BY <2>3, <2>4
  <2> QED BY <1>1, <1>2, <2>2, <2>3, <2>5, RowWritten
<1> QED BY <1>3, <1>4

LEMMA UpdateDone == ASSUME CentresInv, NEW e \in Editor, Update(e) PROVE CentresInv'
<1>1. edits[e] # Missing /\ edits[e].step = "write" /\ edits[e].id # Missing /\ Stops(e) /\ UNCHANGED routed
  BY DEF Update
<1>2. edits' \in [Editor -> Edit \cup {Missing}] /\ Aimed'
  BY <1>1, Stopped
<1>3. CASE UNCHANGED centres
  BY <1>1, <1>2, <1>3, TableStays
<1>4. CASE ~UNCHANGED centres
  <2> PICK c : c = edits[e].id
    OBVIOUS
  <2>1. c \in Id
    BY <1>1, EditTyped DEF CentresInv
  <2>2. NameFree(edits[e].name, c) /\ centres' = [centres EXCEPT ![c] = Written(edits[e])]
    BY <1>4 DEF Update
  <2>3. /\ Written(edits[e]) \in CentreRow /\ Placed(Written(edits[e]))
        /\ Written(edits[e]).name = edits[e].name
    BY <1>1, WrittenIs
  <2>4. NameFree(Written(edits[e]).name, c)
    BY <2>2, <2>3
  <2> QED BY <1>1, <1>2, <2>1, <2>2, <2>3, <2>4, RowWritten
<1> QED BY <1>3, <1>4

LEMMA RemoveChecked ==
    ASSUME CentresInv, NEW e \in Editor, NEW c \in Id, RemoveCheck(e, c)
    PROVE  CentresInv'
<1> PICK n, p : n = centres[c].name /\ p = centres[c].postcode
  OBVIOUS
<1> DEFINE edit == [step |-> "delete", id |-> c, name |-> n, postcode |-> p, at |-> Missing]
<1>1. Do(e, edit) /\ UNCHANGED <<centres, routed>> /\ Exists(c)
  BY DEF RemoveCheck
<1>2. n \in Name /\ p \in Postcode
  BY <1>1, RowTyped DEF CentresInv
<1>3. edit \in Edit /\ edit.step # "write"
  BY <1>2 DEF Edit
<1> HIDE DEF edit
<1> QED BY <1>1, <1>3, EditChanged, TableStays

LEMMA DeleteDone == ASSUME CentresInv, NEW e \in Editor, Delete(e) PROVE CentresInv'
<1>1. Stops(e) /\ UNCHANGED routed
  BY DEF Delete
<1>2. edits' \in [Editor -> Edit \cup {Missing}] /\ Aimed'
  BY <1>1, Stopped
<1> PICK c : c = edits[e].id
  OBVIOUS
<1>3. CASE UNCHANGED centres
  BY <1>1, <1>2, <1>3, TableStays
<1>4. CASE ~UNCHANGED centres
  <2>1. c \notin routed /\ centres' = [centres EXCEPT ![c] = Missing]
    BY <1>4 DEF Delete
  <2>2. centres \in [Id -> CentreRow \cup {Missing}]
    BY DEF CentresInv, CentresTypeOK
  <2>3. /\ centres' \in [Id -> CentreRow \cup {Missing}]
        /\ \A d \in Id : d # c => centres'[d] = centres[d]
        /\ \A d \in Id : centres'[d] # Missing => d # c
    BY <2>1, <2>2
  <2>4. CentresTypeOK'
    BY <1>1, <1>2, <2>3 DEF CentresInv, CentresTypeOK
  <2>5. \A d \in Id : centres'[d] # Missing => centres'[d] = centres[d] /\ centres[d] # Missing
    BY <2>3
  <2>6. routed \subseteq {d \in Id : centres'[d] # Missing}
    BY <2>1, <2>3 DEF CentresInv, CentresStand, Exists
  <2>7. CentresStand'
    BY <1>1, <2>5, <2>6 DEF CentresInv, CentresStand, Exists, Called, Placed
  <2> QED BY <1>2, <2>4, <2>7 DEF CentresInv
<1> QED BY <1>3, <1>4

LEMMA Routed == ASSUME CentresInv, NEW c \in Id, RouteFor(c) PROVE CentresInv'
<1>1. UNCHANGED <<centres, edits>>
  BY DEF RouteFor
<1>2. Exists(c) /\ routed' \subseteq routed \cup {c}
  BY DEF RouteFor, CentresInv, CentresStand
<1>3. CentresTypeOK' /\ Aimed'
  BY <1>1, <1>2 DEF CentresInv, CentresTypeOK, Aimed, Placed
<1>4. CentresStand'
  BY <1>1, <1>2 DEF CentresInv, CentresStand, Exists, Called, Placed
<1> QED BY <1>3, <1>4 DEF CentresInv

\* The rows the import writes.
LEMMA CsvTyped ==
    ASSUME NEW i \in DOMAIN Csv
    PROVE  i \in Nat /\ i >= 1 /\ Csv[i].name \in Name /\ Csv[i].postcode \in Postcode
<1> DEFINE Line == [name : Name, postcode : Postcode, agrees : BOOLEAN]
<1>1. Csv \in Seq(Line)
  BY CentresAssumption
<1>2. /\ \A r \in Line : r.name \in Name /\ r.postcode \in Postcode
  OBVIOUS
<1> HIDE DEF Line
<1>3. Len(Csv) \in Nat /\ DOMAIN Csv = 1 .. Len(Csv)
  BY <1>1, LenProperties
<1>4. Csv[i] \in Line
  BY <1>1, <1>3, ElementOfSeq
<1> QED BY <1>2, <1>3, <1>4

LEMMA ImportedIs ==
    ASSUME NEW strict \in BOOLEAN, NEW i \in ToImport(strict)
    PROVE  /\ Imported(i) \in CentreRow /\ Placed(Imported(i)) /\ Imported(i).name = Csv[i].name
           /\ \A n \in Name : /\ [Imported(i) EXCEPT !.name = n] \in CentreRow
                              /\ Placed([Imported(i) EXCEPT !.name = n])
                              /\ [Imported(i) EXCEPT !.name = n].name = n
<1> PICK p, m : p = Canonical[Csv[i].postcode] /\ m = Csv[i].name
  OBVIOUS
<1>1. i \in DOMAIN Csv /\ p \in Real
  BY DEF ToImport
<1>2. Csv[i].name \in Name /\ Csv[i].postcode \in Postcode
  BY <1>1, CsvTyped
<1>3. m \in Name /\ p \in Postcode /\ Canonical[p] = p
  BY <1>2, CentresAssumption
<1>4. Imported(i) = [name |-> m, postcode |-> p, at |-> p]
  BY DEF Imported
<1>5. ASSUME NEW n \in Name, NEW row, row = [name |-> n, postcode |-> p, at |-> p]
      PROVE  row \in CentreRow /\ Placed(row) /\ row.name = n
  <2>1. row \in CentreRow
    BY <1>3, <1>5 DEF CentreRow, Location
  <2>2. row.name = n /\ row.postcode = p /\ row.at = p
    BY <1>5
  <2> QED BY <1>1, <1>3, <2>1, <2>2 DEF Placed
<1>6. \A n \in Name : [Imported(i) EXCEPT !.name = n] = [name |-> n, postcode |-> p, at |-> p]
  BY <1>4
<1> QED BY <1>3, <1>4, <1>5, <1>6

LEMMA ImportDone == ASSUME CentresInv, NEW strict \in BOOLEAN, Import(strict) PROVE CentresInv'
<1> PICK S : S = ToImport(strict)
  OBVIOUS
<1>1. PICK into \in [S -> Id] :
         /\ \A i, j \in S : i # j => into[i] # into[j]
         /\ \A i \in S : Called(into[i], Csv[i].name) \/ (~Exists(into[i]) /\ NameFree(Csv[i].name, Missing))
         /\ centres' = [c \in Id |->
               IF \E i \in S : into[i] = c
               THEN LET row == Imported(CHOOSE i \in S : into[i] = c) IN
                    IF Exists(c) THEN [row EXCEPT !.name = centres[c].name] ELSE row
               ELSE centres[c]]
         /\ UNCHANGED <<routed, edits>>
  BY DEF Import
<1>2. \A i \in S : i \in DOMAIN Csv /\ FirstOfName(i) /\ Csv[i].name \in Name
  BY CsvTyped DEF ToImport
<1>3. ASSUME NEW i \in S
      PROVE  centres'[into[i]] = IF Exists(into[i]) THEN [Imported(i) EXCEPT !.name = centres[into[i]].name]
                                 ELSE Imported(i)
  <2>1. (CHOOSE j \in S : into[j] = into[i]) = i
    BY <1>1
  <2>2. into[i] \in Id
    BY <1>1
  <2> QED BY <1>1, <2>1, <2>2
<1>4. \A c \in Id : (\A i \in S : into[i] # c) => centres'[c] = centres[c]
  BY <1>1
<1>5. ASSUME NEW c \in Id, centres'[c] # Missing
      PROVE  /\ centres'[c] \in CentreRow /\ Placed(centres'[c])
             /\ \/ Exists(c) /\ centres'[c].name = centres[c].name
                \/ \E i \in S : into[i] = c /\ ~Exists(c) /\ centres'[c].name = Csv[i].name
                                /\ NameFree(Csv[i].name, Missing)
  <2>1. CASE \A i \in S : into[i] # c
    BY <1>4, <1>5, <2>1, RowTyped DEF CentresInv, CentresStand, Exists
  <2>2. ASSUME NEW i \in S, into[i] = c 
      PROVE  /\ centres'[c] \in CentreRow /\ Placed(centres'[c])
             /\ \/ Exists(c) /\ centres'[c].name = centres[c].name
                \/ \E k \in S : into[k] = c /\ ~Exists(c) /\ centres'[c].name = Csv[k].name
                                /\ NameFree(Csv[k].name, Missing)
    <3>1. CASE Exists(c)
      <4>1. centres[c].name \in Name
        BY <3>1, RowTyped DEF CentresInv
      <4>2. centres'[c] = [Imported(i) EXCEPT !.name = centres[c].name]
        BY <1>3, <2>2, <3>1
      <4> QED BY <3>1, <4>1, <4>2, ImportedIs
    <3>2. CASE ~Exists(c)
      <4>1. centres'[c] = Imported(i)
        BY <1>3, <2>2, <3>2
      <4>2. NameFree(Csv[i].name, Missing)
        BY <1>1, <2>2, <3>2 DEF Called
      <4> QED BY <2>2, <3>2, <4>1, <4>2, ImportedIs
    <3> QED BY <3>1, <3>2
  <2> QED BY <2>1, <2>2
<1>6. CentresTypeOK'
  <2>1. centres' \in [Id -> CentreRow \cup {Missing}]
    BY <1>1, <1>5
  <2> QED BY <1>1, <2>1 DEF CentresInv, CentresTypeOK
<1>7. Aimed'
  BY <1>1 DEF CentresInv, Aimed, Placed
<1>8. \A n : NameFree(n, Missing) => \A c \in Id : ~Called(c, n)
  BY CentresAssumption DEF NameFree
<1>9. ASSUME NEW x \in Id, NEW y \in Id, centres'[x] # Missing, centres'[y] # Missing,
             NormName[centres'[y].name] = NormName[centres'[x].name]
      PROVE  x = y
  <2>1. CASE Exists(x) /\ Exists(y)
    <3>1. centres'[x].name = centres[x].name /\ centres'[y].name = centres[y].name
      BY <1>5, <1>9, <2>1
    <3> QED BY <1>9, <2>1, <3>1 DEF CentresInv, CentresStand, Called
  <2>2. CASE Exists(x) /\ ~Exists(y)
    <3>1. PICK i \in S : centres'[y].name = Csv[i].name /\ NameFree(Csv[i].name, Missing)
      BY <1>5, <1>9, <2>2
    <3>2. centres'[x].name = centres[x].name
      BY <1>5, <1>9, <2>2
    <3>3. Called(x, Csv[i].name)
      BY <1>9, <2>2, <3>1, <3>2 DEF Called
    <3> QED BY <1>8, <3>1, <3>3
  <2>3. CASE ~Exists(x) /\ Exists(y)
    <3>1. PICK i \in S : centres'[x].name = Csv[i].name /\ NameFree(Csv[i].name, Missing)
      BY <1>5, <1>9, <2>3
    <3>2. centres'[y].name = centres[y].name
      BY <1>5, <1>9, <2>3
    <3>3. Called(y, Csv[i].name)
      BY <1>9, <2>3, <3>1, <3>2 DEF Called
    <3> QED BY <1>8, <3>1, <3>3
  <2>4. CASE ~Exists(x) /\ ~Exists(y)
    <3>1. PICK i \in S : into[i] = x /\ centres'[x].name = Csv[i].name
      BY <1>5, <1>9, <2>4
    <3>2. PICK j \in S : into[j] = y /\ centres'[y].name = Csv[j].name
      BY <1>5, <1>9, <2>4
    <3>3. i \in Nat /\ j \in Nat /\ i >= 1 /\ j >= 1
      BY <1>2, CsvTyped
    <3>4. NormName[Csv[i].name] = NormName[Csv[j].name]
      BY <1>9, <3>1, <3>2
    <3>5. ~(i < j) /\ ~(j < i)
      BY <1>2, <3>3, <3>4 DEF FirstOfName
    <3>6. i = j
      BY <3>3, <3>5
    <3> QED BY <3>1, <3>2, <3>6
  <2> QED BY <2>1, <2>2, <2>3, <2>4
<1>10. \A c \in Id : Exists(c) => centres'[c] # Missing
  <2> SUFFICES ASSUME NEW c \in Id, Exists(c) PROVE centres'[c] # Missing
    OBVIOUS
  <2>1. CASE \A i \in S : into[i] # c
    BY <1>4, <2>1 DEF Exists
  <2>2. ASSUME NEW i \in S, into[i] = c PROVE centres'[c] # Missing
    <3>1. centres[c].name \in Name
      BY RowTyped DEF CentresInv
    <3>2. centres'[c] \in CentreRow
      <4>1. centres'[c] = [Imported(i) EXCEPT !.name = centres[c].name]
        BY <1>3, <2>2
      <4> QED BY <3>1, <4>1, ImportedIs
    <3> QED BY <3>2, RowTyped
  <2> QED BY <2>1, <2>2
<1>11. CentresStand'
  <2>1. \A c \in Id : Exists(c)' => Placed(centres'[c])
    BY <1>5 DEF Exists
  <2>2. routed' \subseteq {c \in Id : centres'[c] # Missing}
    BY <1>1, <1>10 DEF CentresInv, CentresStand
  <2> QED BY <1>9, <2>1, <2>2 DEF CentresStand, Exists, Called, Placed
<1> QED BY <1>6, <1>7, <1>11 DEF CentresInv

LEMMA CentresKept == CentresSpec => []CentresInv
<1>1. CentresInv /\ [CentresNext]_centresVars => CentresInv'
  <2> SUFFICES ASSUME CentresInv, [CentresNext]_centresVars PROVE CentresInv'
    OBVIOUS
  <2>1. CASE UNCHANGED centresVars
    BY <2>1, TableStays DEF centresVars, CentresInv, CentresTypeOK, Aimed, Placed
  <2>2. CASE CentresNext
    BY <2>2, CreateChecked, UpdateReadDone, LocateDone, InsertDone, UpdateDone, RemoveChecked,
       DeleteDone, Routed, ImportDone DEF CentresNext
  <2> QED BY <2>1, <2>2
<1> QED BY <1>1, CentresInitOK, PTL DEF CentresSpec

\* The table of test centres, and what each administrator's request is doing, keep their types.
THEOREM CentresTypeCorrect == CentresSpec => []CentresTypeOK
<1>1. CentresInv => CentresTypeOK
  BY DEF CentresInv
<1> QED BY <1>1, CentresKept, PTL

\* However edits and imports overlap: a centre is where its postcode is, no two centres have
\* one name, no route is left without its centre (test-centres.service.ts).
THEOREM CentresAlwaysStand == CentresSpec => []CentresStand
<1>1. CentresInv => CentresStand
  BY DEF CentresInv
<1> QED BY <1>1, CentresKept, PTL

-----------------------------------------------------------------------------
(* The form of a test centre *)

\* Until a postcode is typed after another was left, the one that is looked up is the one
\* that stands in the form.
FormInv ==
    \/ retyped
    \/ /\ fields.postcode = typed.postcode
       /\ fields.town = typed.town \/ (typed.town = Empty /\ fields.town = TownOf[fields.postcode])
       /\ looking \subseteq {fields.postcode}

FormTyped == fields \in Fields /\ typed \in Fields /\ retyped \in BOOLEAN

\* What the administrator typed is what the form holds, whatever lookups are answered when,
\* and a town nobody typed is that of the postcode beside it (TestCentreFormPage.tsx).
THEOREM AlwaysFormAsTyped == FormSpec => []FormAsTyped
<1>1. FormInit => FormTyped /\ FormInv
  <2> SUFFICES ASSUME FormInit PROVE FormTyped /\ FormInv
    OBVIOUS
  <2>1. fields \in Fields
    BY DEF FormInit, Fields
  <2> QED BY <2>1 DEF FormInit, FormTyped, FormInv
<1>2. FormTyped /\ FormInv /\ [FormNext]_formVars => (FormTyped /\ FormInv)'
  <2> SUFFICES ASSUME FormTyped, FormInv, [FormNext]_formVars PROVE FormTyped' /\ FormInv'
    OBVIOUS
  <2>1. ASSUME NEW p \in Code \cup {Empty}, TypePostcode(p) PROVE FormTyped' /\ FormInv'
    <3>1. /\ fields'.postcode = p /\ typed'.postcode = p
          /\ fields'.town = fields.town /\ typed'.town = typed.town
          /\ fields' \in Fields /\ typed' \in Fields
      BY <2>1 DEF TypePostcode, FormTyped, Fields
    <3>2. CASE retyped'
      BY <3>1, <3>2 DEF FormTyped, FormInv
    <3>3. CASE ~retyped'
      <4>1. looking' = {} /\ fields.town = typed.town
        BY <2>1, <3>3 DEF TypePostcode
      <4> QED BY <2>1, <3>1, <4>1 DEF FormTyped, FormInv, TypePostcode
    <3> QED BY <3>2, <3>3
  <2>2. ASSUME NEW t \in {OwnTown, Empty}, TypeTown(t) PROVE FormTyped' /\ FormInv'
    <3>1. /\ fields'.postcode = fields.postcode /\ typed'.postcode = typed.postcode
          /\ fields'.town = t /\ typed'.town = t
          /\ fields' \in Fields /\ typed' \in Fields
      BY <2>2 DEF TypeTown, FormTyped, Fields
    <3>2. looking' = looking /\ retyped' = retyped
      BY <2>2 DEF TypeTown
    <3> QED BY <3>1, <3>2 DEF FormTyped, FormInv
  <2>3. ASSUME NEW p \in Code, LookedUp(p) PROVE FormTyped' /\ FormInv'
    <3>1. fields' = [postcode |-> p, town |-> IF fields.town = Empty THEN TownOf[p] ELSE fields.town]
      BY <2>3 DEF LookedUp
    <3>2. fields' \in Fields
      BY <3>1 DEF FormTyped, Fields
    <3>3. p \in looking /\ looking' = looking \ {p} /\ typed' = typed /\ retyped' = retyped
      BY <2>3 DEF LookedUp
    <3> QED BY <3>1, <3>2, <3>3 DEF FormTyped, FormInv
  <2>4. CASE LeavePostcode
    BY <2>4 DEF LeavePostcode, FormTyped, FormInv
  <2>5. ASSUME NEW p \in Code, NotLookedUp(p) PROVE FormTyped' /\ FormInv'
    BY <2>5 DEF NotLookedUp, FormTyped, FormInv
  <2>6. CASE FormSave \/ FormAnswered \/ UNCHANGED formVars
    BY <2>6 DEF FormSave, FormAnswered, formVars, FormTyped, FormInv
  <2> QED BY <2>1, <2>2, <2>3, <2>4, <2>5, <2>6 DEF FormNext
<1>3. FormInv => FormAsTyped
  BY DEF FormInv, FormAsTyped
<1> QED BY <1>1, <1>2, <1>3, PTL DEF FormSpec

-------------------------------------------------------------------------------
(* The bookings *)

\* A request that is about to touch a slot or a booking knows which.
ReqTyped ==
    \A q \in Req :
        /\ rpc[q] # "idle" => rslot[q] \in Slot
        /\ rpc[q] = "idle" => rslot[q] = Nobody
        /\ rpc[q] \in {"insert", "flag", "free"} => rbooking[q] \in Booking

Typed == BookingsTypeOK /\ ReqTyped

USE NobodyAssumption

LEMMA TypedStep == Typed /\ [BookingsNext]_bookingsVars => Typed'
<1> SUFFICES ASSUME Typed, [BookingsNext]_bookingsVars PROVE Typed'
  OBVIOUS
<1> USE DEF Typed, BookingsTypeOK, ReqTyped, Place, Status, tables, reqVars, Busy, OffDiagram
<1>1. ASSUME NEW s \in Slot, AddSlot(s) PROVE Typed'
  BY <1>1 DEF AddSlot
<1>2. ASSUME NEW q \in Req, NEW s \in Slot, DeleteCheck(q, s) PROVE Typed'
  BY <1>2 DEF DeleteCheck, Begin
<1>3. ASSUME NEW q \in Req, NEW s \in Slot, NEW b \in Booking, BookCheck(q, s, b) PROVE Typed'
  BY <1>3 DEF BookCheck, Begin
<1>4. ASSUME NEW q \in Req, NEW b \in Booking, NEW s \in Status, UpdateStatus(q, b, s)
      PROVE  Typed'
  BY <1>4 DEF UpdateStatus, Begin
<1>5. ASSUME NEW q \in Req, DeleteSlot(q) PROVE Typed'
  BY <1>5 DEF DeleteSlot, End
<1>6. ASSUME NEW q \in Req, BookInsert(q) PROVE Typed'
  BY <1>6 DEF BookInsert, End
<1>7. ASSUME NEW q \in Req, BookFlag(q) PROVE Typed'
  BY <1>7 DEF BookFlag, End
<1>8. ASSUME NEW q \in Req, UpdateFree(q) PROVE Typed'
  BY <1>8 DEF UpdateFree, End
<1>9. ASSUME NEW q \in Req, Stop(q) PROVE Typed'
  BY <1>9 DEF Stop, End
<1>10. CASE UNCHANGED bookingsVars
  BY <1>10 DEF bookingsVars
<1> QED
  BY <1>1, <1>2, <1>3, <1>4, <1>5, <1>6, <1>7, <1>8, <1>9, <1>10 DEF BookingsNext

LEMMA TypedAlways == BookingsSpec => []Typed
<1>1. BookingsInit => Typed
  BY DEF BookingsInit, Typed, BookingsTypeOK, ReqTyped, Place, Status
<1> QED BY <1>1, TypedStep, PTL DEF BookingsSpec

\* The values of every variable stay in their sets; a booking row has a slot.
THEOREM TypeCorrect == BookingsSpec => []BookingsTypeOK
<1>1. Typed => BookingsTypeOK
  BY DEF Typed
<1> QED BY <1>1, TypedAlways, PTL

LEMMA OrphanStep == Typed /\ NoOrphanBooking /\ [BookingsNext]_bookingsVars => NoOrphanBooking'
<1> SUFFICES ASSUME Typed, NoOrphanBooking, [BookingsNext]_bookingsVars PROVE NoOrphanBooking'
  OBVIOUS
<1> USE DEF Typed, BookingsTypeOK, ReqTyped, NoOrphanBooking, tables, reqVars
<1>1. ASSUME NEW s \in Slot, AddSlot(s) PROVE NoOrphanBooking'
  BY <1>1 DEF AddSlot
<1>2. ASSUME NEW q \in Req, DeleteSlot(q) PROVE NoOrphanBooking'
  BY <1>2 DEF DeleteSlot, BookingsOf, Place
<1>3. ASSUME NEW q \in Req, BookInsert(q) PROVE NoOrphanBooking'
  BY <1>3 DEF BookInsert
<1>4. ASSUME NEW q \in Req, NEW b \in Booking, NEW s \in Status, UpdateStatus(q, b, s)
      PROVE  NoOrphanBooking'
  BY <1>4 DEF UpdateStatus
<1>5. CASE UNCHANGED <<slots, status, slotOf>>
  BY <1>5
<1>6. [\/ \E q \in Req, s \in Slot : DeleteCheck(q, s) \/ \E b \in Booking : BookCheck(q, s, b)
       \/ \E q \in Req : BookFlag(q) \/ UpdateFree(q) \/ Stop(q)]_bookingsVars
      => UNCHANGED <<slots, status, slotOf>>
  BY DEF DeleteCheck, BookCheck, BookFlag, UpdateFree, Stop, bookingsVars
<1> QED
  BY <1>1, <1>2, <1>3, <1>4, <1>5, <1>6 DEF BookingsNext

\* No slot disappears under a booking, however requests overlap and stop.
THEOREM NoBookingOrphaned == BookingsSpec => []NoOrphanBooking
<1>1. BookingsInit => NoOrphanBooking
  BY DEF BookingsInit, NoOrphanBooking
<1> QED BY <1>1, TypedAlways, OrphanStep, PTL DEF BookingsSpec

-----------------------------------------------------------------------------
(***************************************************************************)
(* The slots nothing disturbed.  Each keeps an invariant of its own: one    *)
(* request at most is about it, and what that request has found out when it *)
(* began still holds when it writes.                                       *)
(***************************************************************************)
\* A booking about to be inserted has no row yet, and nobody else inserts it.
Fresh ==
    \A q \in Req : rpc[q] = "insert" =>
        /\ status[rbooking[q]] = "none"
        /\ \A p \in Req : rbooking[p] = rbooking[q] => p = q

Held(s) == \E b \in Booking : slotOf[b] = s /\ status[b] \notin {"none", "cancelled"}

Calm(s) ==
    /\ \A p, q \in Req : rslot[p] = s /\ rslot[q] = s => p = q
    /\ \A b, c \in Booking :
          /\ slotOf[b] = s /\ status[b] \notin {"none", "cancelled"}
          /\ slotOf[c] = s /\ status[c] \notin {"none", "cancelled"}
          => b = c
    /\ \A q \in Req : rslot[q] = s =>
          /\ rpc[q] = "insert" => s \notin booked /\ ~Held(s)
          /\ rpc[q] = "flag" => Held(s)
          /\ rpc[q] = "free" => ~Held(s)
          /\ rpc[q] = "delete" => (s \in booked <=> Held(s))
    /\ (\A q \in Req : rslot[q] # s) => (s \in booked <=> Held(s))

SlotsCalm == \A s \in Slot \ disturbed : Calm(s)

LEMMA FreshStep == Typed /\ Fresh /\ [BookingsNext]_bookingsVars => Fresh'
<1> SUFFICES ASSUME Typed, Fresh, [BookingsNext]_bookingsVars PROVE Fresh'
  OBVIOUS
<1> USE DEF Typed, BookingsTypeOK, ReqTyped, Fresh, tables, reqVars
<1>1. ASSUME NEW s \in Slot, AddSlot(s) PROVE Fresh'
  BY <1>1 DEF AddSlot
<1>2. ASSUME NEW q \in Req, NEW s \in Slot, DeleteCheck(q, s) PROVE Fresh'
  BY <1>2 DEF DeleteCheck, Begin
<1>3. ASSUME NEW q \in Req, NEW s \in Slot, NEW b \in Booking, BookCheck(q, s, b) PROVE Fresh'
  BY <1>3 DEF BookCheck, Begin
<1>4. ASSUME NEW q \in Req, NEW b \in Booking, NEW t \in Status, UpdateStatus(q, b, t)
      PROVE  Fresh'
  BY <1>4 DEF UpdateStatus, Begin
<1>5. ASSUME NEW q \in Req, DeleteSlot(q) PROVE Fresh'
  BY <1>5 DEF DeleteSlot, End
<1>6. ASSUME NEW q \in Req, BookInsert(q) PROVE Fresh'
  BY <1>6 DEF BookInsert, End
<1>7. ASSUME NEW q \in Req, BookFlag(q) PROVE Fresh'
  BY <1>7 DEF BookFlag, End
<1>8. ASSUME NEW q \in Req, UpdateFree(q) PROVE Fresh'
  BY <1>8 DEF UpdateFree, End
<1>9. ASSUME NEW q \in Req, Stop(q) PROVE Fresh'
  BY <1>9 DEF Stop, End
<1>10. CASE UNCHANGED bookingsVars
  BY <1>10 DEF bookingsVars
<1> QED
  BY <1>1, <1>2, <1>3, <1>4, <1>5, <1>6, <1>7, <1>8, <1>9, <1>10 DEF BookingsNext

LEMMA CalmStep == Typed /\ Fresh /\ SlotsCalm /\ [BookingsNext]_bookingsVars => SlotsCalm'
<1> SUFFICES ASSUME Typed, Fresh, SlotsCalm, [BookingsNext]_bookingsVars, NEW s \in Slot, s \notin disturbed'
             PROVE  Calm(s)'
  BY DEF SlotsCalm
<1>0. s \notin disturbed
  BY DEF BookingsNext, bookingsVars, AddSlot, DeleteCheck, BookCheck, UpdateStatus, DeleteSlot, BookInsert,
         BookFlag, UpdateFree, Stop
<1>a. Calm(s)
  BY <1>0 DEF SlotsCalm
<1> USE DEF Typed, BookingsTypeOK, ReqTyped, Calm, Held, tables, reqVars
<1>1. ASSUME NEW t \in Slot, AddSlot(t) PROVE Calm(s)'
  BY <1>1, <1>a DEF AddSlot
<1>2. ASSUME NEW q \in Req, NEW t \in Slot, DeleteCheck(q, t) PROVE Calm(s)'
  BY <1>2, <1>a DEF DeleteCheck, Begin, Busy
<1>3. ASSUME NEW q \in Req, NEW t \in Slot, NEW b \in Booking, BookCheck(q, t, b) PROVE Calm(s)'
  BY <1>3, <1>a DEF BookCheck, Begin, Busy
<1>4. ASSUME NEW q \in Req, NEW b \in Booking, NEW t \in Status, UpdateStatus(q, b, t)
      PROVE  Calm(s)'
  BY <1>4, <1>a DEF UpdateStatus, Begin, Busy, OffDiagram, Diagram, Status
<1>5. ASSUME NEW q \in Req, DeleteSlot(q) PROVE Calm(s)'
  BY <1>5, <1>a DEF DeleteSlot, End
<1>6. ASSUME NEW q \in Req, BookInsert(q) PROVE Calm(s)'
  BY <1>6, <1>a DEF BookInsert, End, Fresh
<1>7. ASSUME NEW q \in Req, BookFlag(q) PROVE Calm(s)'
  BY <1>7, <1>a DEF BookFlag, End
<1>8. ASSUME NEW q \in Req, UpdateFree(q) PROVE Calm(s)'
  BY <1>8, <1>a DEF UpdateFree, End
<1>9. ASSUME NEW q \in Req, Stop(q) PROVE Calm(s)'
  BY <1>9, <1>a DEF Stop, End
<1>10. CASE UNCHANGED bookingsVars
  BY <1>10, <1>a DEF bookingsVars
<1> QED
  BY <1>1, <1>2, <1>3, <1>4, <1>5, <1>6, <1>7, <1>8, <1>9, <1>10 DEF BookingsNext

LEMMA CalmAlways == BookingsSpec => [](Fresh /\ SlotsCalm)
<1>1. BookingsInit => Fresh /\ SlotsCalm
  BY DEF BookingsInit, Fresh, SlotsCalm, Calm, Held
<1>2. Typed /\ Fresh /\ SlotsCalm /\ [BookingsNext]_bookingsVars => Fresh' /\ SlotsCalm'
  BY FreshStep, CalmStep
<1> QED BY <1>1, <1>2, TypedAlways, PTL DEF BookingsSpec

\* Two bookings hold one slot only after requests about that very slot overlapped or
\* died, or a status left the diagram, whatever happens to other slots.
THEOREM OneHolderEach == BookingsSpec => []OneHolder
<1>1. SlotsCalm => OneHolder
  BY DEF SlotsCalm, Calm, OneHolder, Holders, BookingsOf
<1> QED BY <1>1, CalmAlways, PTL

\* is_booked of such a slot is exact between the requests about it.
THEOREM FlagIsExact == BookingsSpec => []FlagTellsTruth
<1>1. SlotsCalm => FlagTellsTruth
  BY DEF SlotsCalm, Calm, Held, FlagTellsTruth, Holders, BookingsOf
<1> QED BY <1>1, CalmAlways, PTL

\* A booking stands: it holds its slot alone and the slot is not offered to others, if
\* nothing disturbed the slot, and the slot is there, however requests overlap and stop.
THEOREM BookingsAlwaysStand == BookingsSpec => []BookingsStand
BY OneHolderEach, NoBookingOrphaned, FlagIsExact, PTL DEF BookingsStand

-----------------------------------------------------------------------------
(***************************************************************************)
(* The refinement.  What the ledger calls holder and over is a function of  *)
(* BookingsOf(s) and Holders(s).                                           *)
(***************************************************************************)
HolderOf(s) == IF Holders(s) = {} THEN Nobody ELSE CHOOSE b \in Holders(s) : TRUE
OverOf(s) == BookingsOf(s) \ Holders(s)

LEMMA LedgerSteps ==
    ASSUME NEW s \in Slot
    PROVE  Ledger(s)!NextOrStutter <=>
              \/ HolderOf(s)' = HolderOf(s) /\ OverOf(s)' = OverOf(s)
              \/ /\ HolderOf(s) # Nobody /\ HolderOf(s)' = Nobody
                 /\ OverOf(s)' = OverOf(s) \cup {HolderOf(s)}
              \/ \E b \in Booking :
                    /\ HolderOf(s) = Nobody /\ b \notin OverOf(s) /\ HolderOf(s)' = b
                    /\ OverOf(s)' = OverOf(s)
BY DEF Ledger!NextOrStutter, Ledger!Next, Ledger!Take, Ledger!LetGo, HolderOf, OverOf

\* A step that leaves the bookings of a slot and their standing leaves its ledger.
LEMMA LedgerRests ==
    ASSUME NEW s \in Slot, BookingsOf(s)' = BookingsOf(s), Holders(s)' = Holders(s)
    PROVE  Ledger(s)!NextOrStutter
BY LedgerSteps DEF HolderOf, OverOf

LEMMA LedgerStep ==
    ASSUME Typed, Fresh, SlotsCalm, [BookingsNext]_bookingsVars, NEW s \in Slot, s \notin disturbed'
    PROVE  Ledger(s)!NextOrStutter
<1>0. s \notin disturbed
  BY DEF BookingsNext, bookingsVars, AddSlot, DeleteCheck, BookCheck, UpdateStatus, DeleteSlot, BookInsert,
         BookFlag, UpdateFree, Stop, tables, reqVars
<1>a. Calm(s)
  BY <1>0 DEF SlotsCalm
<1> USE DEF BookingsOf, Holders
<1>1. CASE UNCHANGED <<status, slotOf>>
  BY <1>1, LedgerRests
<1>2. ASSUME NEW q \in Req, BookInsert(q), ~UNCHANGED <<status, slotOf>>
      PROVE  Ledger(s)!NextOrStutter
  <2> DEFINE b == rbooking[q]
  <2>1. /\ b \in Booking /\ status[b] = "none" /\ rslot[q] \in Slot
        /\ status' = [status EXCEPT ![b] = "pending"]
        /\ slotOf' = [slotOf EXCEPT ![b] = rslot[q]]
    BY <1>2 DEF BookInsert, Typed, ReqTyped, Fresh
  <2>2. CASE rslot[q] # s
    <3>1. BookingsOf(s)' = BookingsOf(s) /\ Holders(s)' = Holders(s)
      BY <2>1, <2>2 DEF Typed, BookingsTypeOK
    <3> QED BY <3>1, LedgerRests
  <2>3. CASE rslot[q] = s
    <3>1. Holders(s) = {}
      BY <1>2, <2>3, <1>a DEF BookInsert, Calm, Held
    <3>2. Holders(s)' = {b} /\ BookingsOf(s)' = BookingsOf(s) \cup {b} /\ b \notin BookingsOf(s)
      BY <2>1, <2>3, <3>1 DEF Typed, BookingsTypeOK
    <3>3. HolderOf(s) = Nobody /\ HolderOf(s)' = b
      BY <3>1, <3>2 DEF HolderOf
    <3>4. OverOf(s)' = OverOf(s) /\ b \notin OverOf(s)
      BY <3>1, <3>2 DEF OverOf
    <3> QED BY <2>1, <3>3, <3>4, LedgerSteps
  <2> QED BY <2>2, <2>3
<1>3. ASSUME NEW q \in Req, NEW b \in Booking, NEW t \in Status, UpdateStatus(q, b, t)
      PROVE  Ledger(s)!NextOrStutter
  <2>1. /\ status[b] # "none" /\ slotOf[b] \in Slot
        /\ status' = [status EXCEPT ![b] = t] /\ slotOf' = slotOf
    BY <1>3 DEF UpdateStatus, Typed, BookingsTypeOK
  <2>2. CASE slotOf[b] # s
    <3>1. BookingsOf(s)' = BookingsOf(s) /\ Holders(s)' = Holders(s)
      BY <2>1, <2>2 DEF Typed, BookingsTypeOK
    <3> QED BY <3>1, LedgerRests
  <2>3. CASE slotOf[b] = s
    <3>1. status[b] \in {"pending", "confirmed"}
      BY <1>3, <2>1, <2>3 DEF UpdateStatus, OffDiagram, Diagram, Typed, BookingsTypeOK, Status
    <3>2. CASE t # "cancelled"
      <4>1. BookingsOf(s)' = BookingsOf(s) /\ Holders(s)' = Holders(s)
        BY <2>1, <2>3, <3>1, <3>2 DEF Typed, BookingsTypeOK, Status
      <4> QED BY <4>1, LedgerRests
    <3>3. CASE t = "cancelled"
      <4>1. Holders(s) = {b}
        BY <2>3, <3>1, <1>a DEF Calm
      <4>2. Holders(s)' = {} /\ BookingsOf(s)' = BookingsOf(s) /\ b \in BookingsOf(s)
        BY <2>1, <2>3, <3>1, <3>3, <4>1 DEF Typed, BookingsTypeOK, Status
      <4>3. HolderOf(s) = b /\ b # Nobody /\ HolderOf(s)' = Nobody
        BY <4>1, <4>2 DEF HolderOf
      <4>4. OverOf(s)' = OverOf(s) \cup {b}
        BY <4>1, <4>2 DEF OverOf
      <4> QED BY <4>3, <4>4, LedgerSteps
    <3> QED BY <3>2, <3>3
  <2> QED BY <2>2, <2>3
<1>4. [\/ \E t \in Slot : AddSlot(t)
       \/ \E q \in Req, t \in Slot : DeleteCheck(q, t) \/ \E b \in Booking : BookCheck(q, t, b)
       \/ \E q \in Req : DeleteSlot(q) \/ BookFlag(q) \/ UpdateFree(q) \/ Stop(q)]_bookingsVars
      => UNCHANGED <<status, slotOf>>
  BY DEF AddSlot, DeleteCheck, BookCheck, DeleteSlot, BookFlag, UpdateFree, Stop, bookingsVars, tables
<1> QED BY <1>1, <1>2, <1>3, <1>4 DEF BookingsNext

\* Every slot implements the ledger as long as nothing disturbs it: it is taken by one
\* booking at a time, and no booking that let go of it holds it again, for any slots,
\* bookings and requests.
THEOREM LedgerImplemented == BookingsSpec => LedgerSpec
<1>1. BookingsInit => \A s \in Slot : Ledger(s)!Init
  BY DEF BookingsInit, Ledger!Init, Holders, BookingsOf
<1>2. Typed /\ Fresh /\ SlotsCalm /\ [BookingsNext]_bookingsVars =>
         [\A s \in Slot \ disturbed' : Ledger(s)!NextOrStutter]_bookingsVars
  BY LedgerStep
<1> QED BY <1>1, <1>2, TypedAlways, CalmAlways, PTL DEF BookingsSpec, LedgerSpec

-----------------------------------------------------------------------------
(* The pages about lessons.  The invariant is in three parts: the types, the instructor's *)
(* dashboard, and what a learner sees. *)

\* The fields are those of the row, but for those left blank.
SaysOf(f, p) ==
    p # Blank => f.price \in {p.price, Blank} /\ f.area \in {p.area, Blank} /\ f.accepting = p.accepting

\* Settings that are not changed after they were sent: those sent are those typed, and once
\* written they are the row; and a load has read the row while none were sent.
SettingsInv ==
    /\ ~unsaved /\ save = Blank => SaysOf(form, profile)
    /\ ~unsaved /\ save # Blank => form = save.form
    /\ ~unsaved /\ save # Blank /\ save.step = "written" => SaysOf(form, profile)
    /\ Loading /\ "profile" \in load.read => save = Blank /\ load.profile \in {profile, Blank}

\* Slots: what is gone is not shown as there, and what is there is shown unless it was just added.
SlotFollows(s) ==
    /\ removing[s] = "gone" => s \notin openings
    /\ s \in shown /\ removing[s] # "gone" => s \in openings
    /\ s \in openings => s \in shown \/ adding = "done"

SlotsInv ==
    IF Loading THEN "slots" \in load.read => load.slots = openings /\ Removing = {}
    ELSE \A s \in Opening : SlotFollows(s)

ScreensInv ==
    /\ ScreensTypeOK
    /\ Loading => adding # "sent"
    /\ ~crossed => SettingsInv /\ SlotsInv
    /\ search.loading \/ search.result \in {search.query, Blank}
    /\ learner.step = "booked" => learner.slot \in taken

LEMMA BlankIsNoRecord == Blank \notin Load /\ Blank \notin Save /\ NotRead \in Load
  BY ScreensAssumption DEF NotRead, Load

LEMMA UpsertedTyped ==
    ASSUME ScreensTypeOK, NEW f \in Form
    PROVE  Upserted(f) \in Settings /\ SaysOf(f, Upserted(f))
<1>1. f.price \in Price \cup {Blank} /\ f.area \in Area \cup {Blank} /\ f.accepting \in BOOLEAN
  BY DEF Form
<1>2. profile # Blank => profile.area \in Area \cup {Blank}
  BY DEF ScreensTypeOK, Settings
<1> QED BY <1>1, <1>2, ScreensAssumption DEF Upserted, Settings, SaysOf

LEMMA ScreensStart == ScreensInit => ScreensInv
<1> SUFFICES ASSUME ScreensInit PROVE ScreensInv
  OBVIOUS
<1>1. ScreensTypeOK
  <2> PICK q : q = [area |-> Blank, max |-> Blank]
    OBVIOUS
  <2>1. q \in Query
    BY DEF Query
  <2>2. search = [query |-> q, result |-> Blank, loading |-> TRUE] /\ queries = {q}
    BY DEF ScreensInit
  <2>3. form \in Form /\ profile \in Settings \cup {Blank} /\ verified \in BOOLEAN
    BY DEF ScreensInit, Form
  <2>4. load \in Load \cup {Blank} /\ save \in Save \cup {Blank}
    BY BlankIsNoRecord DEF ScreensInit
  <2>5. search \in [query : Query, result : Query \cup {Blank}, loading : BOOLEAN] /\ queries \subseteq Query
    BY <2>1, <2>2
  <2>6. learner \in [step : {"choose", "asked", "booked", "refused"}, slots : SUBSET Opening,
                      slot : Opening \cup {Blank}]
    BY DEF ScreensInit
  <2> QED BY <2>3, <2>4, <2>5, <2>6 DEF ScreensInit, ScreensTypeOK
<1>2. Loading /\ load.read = {}
  BY BlankIsNoRecord DEF ScreensInit, Loading, NotRead
<1> QED BY <1>1, <1>2 DEF ScreensInit, ScreensInv, SettingsInv, SlotsInv, SaysOf

\* What the learner sees, and what the instructor's page has to do with it.
LearnersInv == /\ search.loading \/ search.result \in {search.query, Blank}
               /\ learner.step = "booked" => learner.slot \in taken

LEMMA LearnersStay ==
    ASSUME LearnersInv, UNCHANGED learnerVars, UNCHANGED taken
    PROVE  LearnersInv'
  BY DEF LearnersInv, learnerVars

\* The dashboard's part of the invariant.
DashboardInv == /\ Loading => adding # "sent"
                /\ ~crossed => SettingsInv /\ SlotsInv

LEMMA ScreensParts == ScreensInv <=> ScreensTypeOK /\ DashboardInv /\ LearnersInv
  BY DEF ScreensInv, DashboardInv, LearnersInv

LEMMA LoadProfileKeeps == ScreensInv /\ LoadProfile => ScreensInv'
<1> SUFFICES ASSUME ScreensInv, LoadProfile PROVE ScreensInv'
  OBVIOUS
<1>0. ScreensTypeOK /\ DashboardInv /\ LearnersInv
  BY ScreensParts
<1>1. PICK p \in {ProfileRead, Blank} :
         load' = [load EXCEPT !.read = @ \cup {"profile"}, !.profile = p]
  BY DEF LoadProfile
<1>2. load \in Load /\ p \in {profile, Blank} /\ p \in Settings \cup {Blank}
  BY <1>0 DEF LoadProfile, Loading, ProfileRead, ScreensTypeOK
<1>3. load' \in Load /\ load'.read = load.read \cup {"profile"} /\ load'.profile = p /\ load'.slots = load.slots
  BY <1>1, <1>2 DEF Load
<1>4. load' # Blank /\ load # Blank
  BY <1>2, <1>3, BlankIsNoRecord
<1>5. ScreensTypeOK'
  BY <1>0, <1>3 DEF LoadProfile, ScreensTypeOK, tableVars, learnerVars
<1>6. LearnersInv'
  BY <1>0, LearnersStay DEF LoadProfile, tableVars
<1>7. DashboardInv'
  BY <1>0, <1>2, <1>3, <1>4
     DEF LoadProfile, DashboardInv, SettingsInv, SlotsInv, Loading, Removing, SaysOf, tableVars
<1> QED BY <1>5, <1>6, <1>7 DEF ScreensInv, DashboardInv, LearnersInv

LEMMA LoadSlotsKeeps == ScreensInv /\ (LoadSlots \/ LoadNoSlots) => ScreensInv'
<1> SUFFICES ASSUME ScreensInv, LoadSlots \/ LoadNoSlots PROVE ScreensInv'
  OBVIOUS
<1>0. ScreensTypeOK /\ DashboardInv /\ LearnersInv
  BY ScreensParts
<1>1. load \in Load
  BY <1>0 DEF LoadSlots, LoadNoSlots, Loading, ScreensTypeOK
<1>2. openings \subseteq Opening
  BY <1>0 DEF ScreensTypeOK
<1>3. /\ load' \in Load /\ load'.read = load.read \cup {"slots"} /\ load'.profile = load.profile
      /\ load'.slots = openings \/ crossed'
  BY <1>1, <1>2 DEF Load, LoadSlots, LoadNoSlots
<1>4. load' # Blank /\ load # Blank
  BY <1>1, <1>3, BlankIsNoRecord
<1>5. crossed' \in BOOLEAN
  BY <1>0 DEF LoadSlots, LoadNoSlots, ScreensTypeOK
<1>6. ScreensTypeOK'
  BY <1>0, <1>3, <1>5 DEF LoadSlots, LoadNoSlots, ScreensTypeOK, tableVars, learnerVars
<1>7. LearnersInv'
  BY <1>0, LearnersStay DEF LoadSlots, LoadNoSlots, tableVars
<1>8. ASSUME ~crossed' PROVE SettingsInv' /\ SlotsInv'
  <2>1. /\ ~crossed /\ Removing = {} /\ load'.slots = openings
        /\ UNCHANGED <<tableVars, form, save, removing, unsaved>>
    BY <1>3, <1>8 DEF LoadSlots, LoadNoSlots
  <2>2. SettingsInv /\ SlotsInv
    BY <1>0, <2>1 DEF DashboardInv
  <2>3. SettingsInv'
    BY <1>3, <1>4, <2>1, <2>2 DEF SettingsInv, SaysOf, Loading, tableVars
  <2>4. SlotsInv'
    BY <1>4, <2>1 DEF SlotsInv, Loading, Removing, tableVars
  <2> QED BY <2>3, <2>4
<1>9. DashboardInv'
  BY <1>0, <1>4, <1>8 DEF LoadSlots, LoadNoSlots, DashboardInv, Loading
<1> QED BY <1>6, <1>7, <1>9 DEF ScreensInv, DashboardInv, LearnersInv

LEMMA LoadedKeeps == ScreensInv /\ Loaded => ScreensInv'
<1> SUFFICES ASSUME ScreensInv, Loaded PROVE ScreensInv'
  OBVIOUS
<1>0. ScreensTypeOK /\ DashboardInv /\ LearnersInv
  BY ScreensParts
<1>1. /\ load \in Load /\ load # Blank /\ load' = Blank /\ load.read = {"profile", "slots"}
      /\ UNCHANGED <<tableVars, save, removing, crossed, learnerVars>> /\ adding' = "no"
      /\ form' = IF load.profile = Blank THEN form ELSE load.profile
      /\ unsaved' = (unsaved /\ load.profile = Blank) /\ shown' = load.slots
  BY <1>0 DEF Loaded, Loading, ScreensTypeOK
<1>2. load.profile \in Settings \cup {Blank} /\ load.slots \subseteq Opening
  BY <1>1 DEF Load
<1>3. form' \in Form
  BY <1>0, <1>1, <1>2 DEF Settings, Form, ScreensTypeOK
<1>4. ScreensTypeOK'
  BY <1>0, <1>1, <1>2, <1>3 DEF ScreensTypeOK, tableVars, learnerVars
<1>5. LearnersInv'
  BY <1>0, <1>1, LearnersStay DEF tableVars
<1>6. ASSUME ~crossed PROVE SettingsInv' /\ SlotsInv'
  <2>1. /\ save = Blank /\ load.profile \in {profile, Blank} /\ load.slots = openings /\ Removing = {}
        /\ (~unsaved => SaysOf(form, profile))
    BY <1>0, <1>1, <1>6 DEF DashboardInv, SettingsInv, SlotsInv, Loading
  <2>2. SettingsInv'
    BY <1>1, <2>1 DEF SettingsInv, SaysOf, Loading, tableVars
  <2>3. SlotsInv'
    BY <1>1, <2>1 DEF SlotsInv, SlotFollows, Loading, Removing, tableVars
  <2> QED BY <2>2, <2>3
<1> QED BY <1>1, <1>4, <1>5, <1>6 DEF ScreensInv, DashboardInv, LearnersInv, Loading

LEMMA TypeKeeps == ASSUME ScreensInv, NEW f \in Form, Type(f) PROVE ScreensInv'
<1>0. ScreensTypeOK /\ DashboardInv /\ LearnersInv
  BY ScreensParts
<1>1. ScreensTypeOK'
  BY <1>0 DEF Type, ScreensTypeOK, tableVars, learnerVars
<1>2. LearnersInv'
  BY <1>0, LearnersStay DEF Type, tableVars
<1>3. DashboardInv'
  BY <1>0 DEF Type, DashboardInv, SettingsInv, SlotsInv, SlotFollows, Loading, Removing, SaysOf, tableVars
<1> QED BY <1>1, <1>2, <1>3 DEF ScreensInv, DashboardInv, LearnersInv

LEMMA SavePressedKeeps == ScreensInv /\ SavePressed => ScreensInv'
<1> SUFFICES ASSUME ScreensInv, SavePressed PROVE ScreensInv'
  OBVIOUS
<1>0. ScreensTypeOK /\ DashboardInv /\ LearnersInv
  BY ScreensParts
<1>1. save' \in Save /\ save'.step = "sent" /\ save'.form = form
  BY <1>0 DEF SavePressed, ScreensTypeOK, Save
<1>2. save' # Blank
  BY <1>1, BlankIsNoRecord
<1>3. ScreensTypeOK'
  BY <1>0, <1>1 DEF SavePressed, ScreensTypeOK, tableVars, learnerVars
<1>4. LearnersInv'
  BY <1>0, LearnersStay DEF SavePressed, tableVars
<1>5. DashboardInv'
  BY <1>0, <1>1, <1>2
     DEF SavePressed, DashboardInv, SettingsInv, SlotsInv, SlotFollows, Loading, Removing, SaysOf, tableVars
<1> QED BY <1>3, <1>4, <1>5 DEF ScreensInv, DashboardInv, LearnersInv

LEMMA SaveWrittenKeeps == ScreensInv /\ SaveWritten => ScreensInv'
<1> SUFFICES ASSUME ScreensInv, SaveWritten PROVE ScreensInv'
  OBVIOUS
<1>0. ScreensTypeOK /\ DashboardInv /\ LearnersInv
  BY ScreensParts
<1>1. save \in Save /\ save # Blank /\ save.form \in Form
  BY <1>0 DEF SaveWritten, ScreensTypeOK, Save
<1>2. PICK t \in {"written", "refused"} : save' = [save EXCEPT !.step = t]
  BY DEF SaveWritten
<1>3. save' \in Save /\ save'.step = t /\ save'.form = save.form
  BY <1>1, <1>2 DEF Save
<1>4. save' # Blank
  BY <1>3, BlankIsNoRecord
<1>5. profile' \in {profile, Upserted(save.form)} /\ (t = "written" => profile' = Upserted(save.form))
  <2>1. CASE profile' = Upserted(save.form)
    BY <2>1
  <2>2. CASE save' = [save EXCEPT !.step = "refused"] /\ UNCHANGED profile
    <3>1. t = "refused"
      BY <1>1, <1>2, <2>2 DEF Save
    <3> QED BY <2>2, <3>1
  <2> QED BY <2>1, <2>2 DEF SaveWritten
<1>6. ScreensTypeOK'
  <2>1. profile' \in Settings \cup {Blank}
    BY <1>0, <1>1, <1>5, UpsertedTyped DEF ScreensTypeOK
  <2>2. crossed' \in BOOLEAN
    BY <1>0 DEF SaveWritten, ScreensTypeOK
  <2> QED BY <1>0, <1>3, <2>1, <2>2 DEF SaveWritten, ScreensTypeOK, learnerVars
<1>7. LearnersInv'
  BY <1>0, LearnersStay DEF SaveWritten
<1>8. ASSUME ~crossed' PROVE SettingsInv' /\ SlotsInv'
  <2>1. /\ ~crossed /\ ~(Loading /\ "profile" \in load.read)
        /\ UNCHANGED <<openings, form, shown, load, adding, removing, unsaved>>
    BY <1>8 DEF SaveWritten
  <2>2. SaysOf(save.form, Upserted(save.form))
    BY <1>0, <1>1, UpsertedTyped
  <2>3. SettingsInv'
    BY <1>0, <1>1, <1>3, <1>4, <1>5, <2>1, <2>2 DEF DashboardInv, SettingsInv, SaysOf, Loading
  <2>4. SlotsInv'
    BY <1>0, <2>1 DEF DashboardInv, SlotsInv, SlotFollows, Loading, Removing
  <2> QED BY <2>3, <2>4
<1> QED BY <1>0, <1>6, <1>7, <1>8 DEF SaveWritten, ScreensInv, DashboardInv, LearnersInv, Loading

LEMMA SaveAnsweredKeeps == ScreensInv /\ SaveAnswered => ScreensInv'
<1> SUFFICES ASSUME ScreensInv, SaveAnswered PROVE ScreensInv'
  OBVIOUS
<1>0. ScreensTypeOK /\ DashboardInv /\ LearnersInv
  BY ScreensParts
<1>1. save.step \in {"written", "refused"} /\ save' = Blank
  BY <1>0 DEF SaveAnswered, ScreensTypeOK, Save
<1>2. ScreensTypeOK'
  BY <1>0 DEF SaveAnswered, ScreensTypeOK, tableVars, learnerVars
<1>3. LearnersInv'
  BY <1>0, LearnersStay DEF SaveAnswered, tableVars
<1>4. DashboardInv'
  BY <1>0, <1>1 DEF SaveAnswered, DashboardInv, SettingsInv, SlotsInv, SlotFollows, Loading, Removing,
                    SaysOf, tableVars
<1> QED BY <1>2, <1>3, <1>4 DEF ScreensInv, DashboardInv, LearnersInv

LEMMA AddKeeps ==
    ASSUME ScreensInv, AddPressed \/ AddAnswered \/ AddRefused
    PROVE  ScreensInv'
<1>0. ScreensTypeOK /\ DashboardInv /\ LearnersInv
  BY ScreensParts
<1>1. NotRead \in Load /\ NotRead # Blank /\ NotRead.read = {}
  BY BlankIsNoRecord DEF NotRead
<1>2. ScreensTypeOK'
  BY <1>0, <1>1 DEF AddPressed, AddAnswered, AddRefused, ScreensTypeOK, tableVars, learnerVars
<1>3. LearnersInv'
  BY <1>0, LearnersStay DEF AddPressed, AddAnswered, AddRefused, tableVars
<1>4. DashboardInv'
  BY <1>0, <1>1 DEF AddPressed, AddAnswered, AddRefused, DashboardInv, SettingsInv, SlotsInv, SlotFollows,
                    Loading, Removing, SaysOf, tableVars
<1> QED BY <1>2, <1>3, <1>4 DEF ScreensInv, DashboardInv, LearnersInv

LEMMA AddWrittenKeeps == ASSUME ScreensInv, NEW s \in Opening, AddWritten(s) PROVE ScreensInv'
<1>0. ScreensTypeOK /\ DashboardInv /\ LearnersInv
  BY ScreensParts
<1>1. ScreensTypeOK'
  BY <1>0 DEF AddWritten, ScreensTypeOK, learnerVars
<1>2. LearnersInv'
  BY <1>0, LearnersStay DEF AddWritten
<1>3. DashboardInv'
  BY <1>0 DEF AddWritten, DashboardInv, SettingsInv, SlotsInv, SlotFollows, Loading, Removing, SaysOf
<1> QED BY <1>1, <1>2, <1>3 DEF ScreensInv, DashboardInv, LearnersInv

LEMMA RemoveKeeps ==
    ASSUME ScreensInv, NEW s \in Opening, RemovePressed(s) \/ RemoveWritten(s) \/ RemoveAnswered(s)
    PROVE  ScreensInv'
<1>0. ScreensTypeOK /\ DashboardInv /\ LearnersInv
  BY ScreensParts
<1>1. PICK t \in {"no", "sent", "gone", "kept"} : removing' = [removing EXCEPT ![s] = t]
  BY DEF RemovePressed, RemoveWritten, RemoveAnswered
<1>2. /\ removing' \in [Opening -> {"no", "sent", "gone", "kept"}]
      /\ \A u \in Opening : removing'[u] = IF u = s THEN t ELSE removing[u]
  BY <1>0, <1>1 DEF ScreensTypeOK
<1>3. openings' \in {openings, openings \ {s}} /\ taken \subseteq openings' /\ taken' = taken
      /\ shown' \subseteq Opening /\ crossed' \in BOOLEAN
  BY <1>0 DEF RemovePressed, RemoveWritten, RemoveAnswered, tableVars, ScreensTypeOK
<1>4. ScreensTypeOK'
  BY <1>0, <1>2, <1>3 DEF RemovePressed, RemoveWritten, RemoveAnswered, ScreensTypeOK, tableVars, learnerVars
<1>5. LearnersInv'
  BY <1>0, <1>3, LearnersStay DEF RemovePressed, RemoveWritten, RemoveAnswered
<1>6. ASSUME ~crossed' PROVE SettingsInv' /\ SlotsInv'
  <2>1. ~crossed /\ UNCHANGED <<profile, form, load, save, adding, unsaved>>
    <3>1. CASE RemovePressed(s)
      BY <1>6, <3>1 DEF RemovePressed, tableVars
    <3>2. CASE RemoveWritten(s)
      BY <1>6, <3>2 DEF RemoveWritten
    <3>3. CASE RemoveAnswered(s)
      BY <1>6, <3>3 DEF RemoveAnswered, tableVars
    <3> QED BY <3>1, <3>2, <3>3
  <2>2. SettingsInv'
    BY <1>0, <2>1 DEF DashboardInv, SettingsInv, SaysOf, Loading
  <2>3. SlotsInv'
    <3>1. CASE Loading
      <4>1. RemoveAnswered(s)
        BY <1>6, <3>1 DEF RemovePressed, RemoveWritten
      <4>2. "slots" \in load.read => load.slots = openings /\ Removing = {}
        BY <1>0, <2>1, <3>1 DEF DashboardInv, SlotsInv
      <4>3. s \in Removing
        BY <4>1 DEF Removing, RemoveAnswered
      <4> QED BY <2>1, <3>1, <4>2, <4>3 DEF SlotsInv, Loading
    <3>2. CASE ~Loading
      <4>1. \A u \in Opening : SlotFollows(u)
        BY <1>0, <2>1, <3>2 DEF DashboardInv, SlotsInv
      <4>2. ASSUME NEW u \in Opening PROVE SlotFollows(u)'
        <5>1. CASE RemovePressed(s)
          BY <1>2, <2>1, <4>1, <5>1 DEF RemovePressed, SlotFollows, tableVars, ScreensTypeOK
        <5>2. CASE RemoveWritten(s)
          BY <1>2, <2>1, <4>1, <5>2 DEF RemoveWritten, SlotFollows
        <5>3. CASE RemoveAnswered(s)
          BY <1>2, <2>1, <4>1, <5>3 DEF RemoveAnswered, SlotFollows, tableVars
        <5> QED BY <5>1, <5>2, <5>3
      <4> QED BY <2>1, <3>2, <4>2 DEF SlotsInv, Loading
    <3> QED BY <3>1, <3>2
  <2> QED BY <2>2, <2>3
<1>7. UNCHANGED <<load, adding>>
  BY DEF RemovePressed, RemoveWritten, RemoveAnswered
<1> QED BY <1>0, <1>4, <1>5, <1>6, <1>7 DEF ScreensInv, DashboardInv, LearnersInv, Loading

LEMMA ElsewhereKeeps ==
    ASSUME ScreensInv, Decided \/ \E f \in Form : SavedElsewhere(f)
    PROVE  ScreensInv'
<1>0. ScreensTypeOK /\ DashboardInv /\ LearnersInv
  BY ScreensParts
<1>1. CASE Decided
  <2>1. ScreensTypeOK'
    BY <1>0, <1>1 DEF Decided, ScreensTypeOK, dashboardVars, learnerVars
  <2>2. LearnersInv' /\ DashboardInv'
    BY <1>0, <1>1, LearnersStay DEF Decided, DashboardInv, SettingsInv, SlotsInv, SlotFollows, Loading, Removing,
                                    SaysOf, dashboardVars
  <2> QED BY <2>1, <2>2 DEF ScreensInv, DashboardInv, LearnersInv
<1>2. ASSUME NEW f \in Form, SavedElsewhere(f) PROVE ScreensInv'
  <2>1. Upserted(f) \in Settings
    BY <1>0, UpsertedTyped
  <2>2. ScreensTypeOK'
    BY <1>0, <1>2, <2>1 DEF SavedElsewhere, ScreensTypeOK, learnerVars
  <2>3. LearnersInv' /\ DashboardInv'
    BY <1>0, <1>2, LearnersStay DEF SavedElsewhere, DashboardInv, Loading
  <2> QED BY <2>2, <2>3 DEF ScreensInv, DashboardInv, LearnersInv
<1> QED BY <1>1, <1>2

LEMMA SearchKeeps ==
    ASSUME ScreensInv, NEW q \in Query, RunSearch(q) \/ GoBack(q) \/ SearchAnswered(q)
    PROVE  ScreensInv'
<1>0. ScreensTypeOK /\ DashboardInv /\ LearnersInv
  BY ScreensParts
<1>1. UNCHANGED <<tableVars, dashboardVars, learner>> /\ queries' \subseteq Query
  BY <1>0 DEF RunSearch, GoBack, SearchAnswered, ScreensTypeOK
<1>2. /\ search' \in [query : Query, result : Query \cup {Blank}, loading : BOOLEAN]
      /\ search'.loading \/ search'.result \in {search'.query, Blank}
  <2> PICK S : S = [query : Query, result : Query \cup {Blank}, loading : BOOLEAN]
    OBVIOUS
  <2>1. search \in [query : Query, result : Query \cup {Blank}, loading : BOOLEAN]
    BY <1>0 DEF ScreensTypeOK
  <2>2. CASE RunSearch(q) \/ GoBack(q)
    BY <2>1, <2>2 DEF RunSearch, GoBack
  <2>3. CASE SearchAnswered(q) /\ (q # search.query \/ ~search.loading)
    BY <1>0, <2>1, <2>3 DEF SearchAnswered, LearnersInv
  <2>4. CASE SearchAnswered(q) /\ ~(q # search.query \/ ~search.loading)
    <3>1. PICK r \in {q, Blank} : search' = [search EXCEPT !.loading = FALSE, !.result = r]
      BY <2>4 DEF SearchAnswered
    <3> QED BY <2>1, <2>4, <3>1
  <2> QED BY <2>2, <2>3, <2>4
<1>3. ScreensTypeOK'
  BY <1>0, <1>1, <1>2 DEF ScreensTypeOK, tableVars, dashboardVars
<1>4. LearnersInv'
  BY <1>0, <1>1, <1>2 DEF LearnersInv, tableVars
<1>5. DashboardInv'
  BY <1>0, <1>1 DEF DashboardInv, SettingsInv, SlotsInv, SlotFollows, Loading, Removing, SaysOf, tableVars,
                    dashboardVars
<1> QED BY <1>3, <1>4, <1>5 DEF ScreensInv, DashboardInv, LearnersInv

LEMMA LearnerKeeps ==
    ASSUME ScreensInv,
           OpenProfile \/ BookPressed \/ BookAnswered \/ \E s \in Opening : ChooseSlot(s)
    PROVE  ScreensInv'
<1> DEFINE Learner == [step : {"choose", "asked", "booked", "refused"}, slots : SUBSET Opening,
                       slot : Opening \cup {Blank}]
<1>0. ScreensTypeOK /\ DashboardInv /\ LearnersInv
  BY ScreensParts
<1>1. UNCHANGED <<profile, verified, openings, dashboardVars, search, queries>>
  BY DEF OpenProfile, BookPressed, BookAnswered, ChooseSlot, tableVars
<1>2. /\ learner' \in Learner /\ taken' \subseteq openings
      /\ learner'.step = "booked" => learner'.slot \in taken'
  <2>1. learner \in Learner /\ openings \subseteq Opening /\ taken \subseteq openings
    BY <1>0 DEF ScreensTypeOK
  <2>2. CASE OpenProfile
    <3>1. learner' = [step |-> "choose", slots |-> openings \ taken, slot |-> Blank] /\ taken' = taken
      BY <2>2 DEF OpenProfile, tableVars
    <3> QED BY <2>1, <3>1
  <2>3. ASSUME NEW s \in Opening, ChooseSlot(s)
        PROVE  /\ learner' \in Learner /\ taken' \subseteq openings
               /\ learner'.step = "booked" => learner'.slot \in taken'
    <3>1. learner' = [learner EXCEPT !.slot = s] /\ taken' = taken /\ learner.step = "choose"
      BY <2>3 DEF ChooseSlot, tableVars
    <3> QED BY <2>1, <3>1
  <2>4. CASE BookPressed
    <3>1. learner' = [learner EXCEPT !.step = "asked"] /\ taken' = taken
      BY <2>4 DEF BookPressed, tableVars
    <3> QED BY <2>1, <3>1
  <2>5. CASE BookAnswered /\ learner.slot \in openings \ taken
    <3>1. learner' = [learner EXCEPT !.step = "booked"] /\ taken' = taken \cup {learner.slot}
      BY <2>5 DEF BookAnswered
    <3> QED BY <2>1, <2>5, <3>1
  <2>6. CASE BookAnswered /\ learner.slot \notin openings \ taken
    <3>1. learner' = [learner EXCEPT !.step = "refused"] /\ taken' = taken
      BY <2>6 DEF BookAnswered
    <3> QED BY <2>1, <3>1
  <2> QED BY <2>2, <2>3, <2>4, <2>5, <2>6
<1>3. ScreensTypeOK'
  BY <1>0, <1>1, <1>2 DEF ScreensTypeOK, dashboardVars
<1>4. LearnersInv'
  BY <1>0, <1>1, <1>2 DEF LearnersInv
<1>5. DashboardInv'
  BY <1>0, <1>1 DEF DashboardInv, SettingsInv, SlotsInv, SlotFollows, Loading, Removing, SaysOf, dashboardVars
<1> QED BY <1>3, <1>4, <1>5 DEF ScreensInv, DashboardInv, LearnersInv

LEMMA ScreensStep == ScreensInv /\ [ScreensNext]_screensVars => ScreensInv'
<1> SUFFICES ASSUME ScreensInv, [ScreensNext]_screensVars PROVE ScreensInv'
  OBVIOUS
<1>1. CASE UNCHANGED screensVars
  <2>1. ScreensTypeOK'
    BY <1>1 DEF ScreensInv, ScreensTypeOK, screensVars, tableVars, dashboardVars, learnerVars
  <2>2. DashboardInv'
    BY <1>1, ScreensParts DEF DashboardInv, SettingsInv, SlotsInv, SlotFollows, Loading, Removing, SaysOf,
                              screensVars, tableVars, dashboardVars
  <2>3. LearnersInv'
    BY <1>1, ScreensParts, LearnersStay DEF screensVars, tableVars
  <2> QED BY <2>1, <2>2, <2>3 DEF ScreensInv, DashboardInv, LearnersInv
<1> QED
  BY <1>1, LoadProfileKeeps, LoadSlotsKeeps, LoadedKeeps, TypeKeeps, SavePressedKeeps, SaveWrittenKeeps,
     SaveAnsweredKeeps, AddKeeps, AddWrittenKeeps, RemoveKeeps, ElsewhereKeeps, SearchKeeps, LearnerKeeps
     DEF ScreensNext

LEMMA ScreensInductive == ScreensSpec => []ScreensInv
  BY ScreensStart, ScreensStep, PTL DEF ScreensSpec

\* For any prices, postcodes and slots, what the pages of lessons keep, and what the API keeps
\* for them, has its type: what is read, sent and shown are settings and slots.
THEOREM ScreensTypeCorrect == ScreensSpec => []ScreensTypeOK
<1>1. ScreensInv => ScreensTypeOK
  BY DEF ScreensInv
<1> QED BY <1>1, ScreensInductive, PTL

\* In whatever order the requests of InstructorDashboardPage.tsx are carried out and answered,
\* it shows the settings and the slots that are stored once nothing is under way, unless a
\* load met a save or a removal; FindInstructorsPage.tsx shows the answer to its address; and a
\* slot that a learner was told is booked is there.
THEOREM ScreensAlwaysTellTruth == ScreensSpec => []ScreensTellTruth
<1>1. ScreensInv => ScreensTellTruth
  <2> SUFFICES ASSUME ScreensInv PROVE ScreensTellTruth
    OBVIOUS
  <2>1. ASSUME ~crossed PROVE FormIsRow /\ SlotsAreShown
    <3>1. FormIsRow
      BY <2>1 DEF ScreensInv, SettingsInv, SaysOf, FormIsRow
    <3>2. SlotsAreShown
      <4> SUFFICES ASSUME ~Loading, adding = "no", Removing = {} PROVE shown = openings
        BY DEF SlotsAreShown
      <4>1. \A s \in Opening : SlotFollows(s) /\ removing[s] = "no"
        BY <2>1 DEF ScreensInv, SlotsInv, Removing
      <4>2. shown \subseteq Opening /\ openings \subseteq Opening
        BY DEF ScreensInv, ScreensTypeOK
      <4> QED BY <4>1, <4>2 DEF SlotFollows
    <3> QED BY <3>1, <3>2
  <2>2. learner.step = "booked" => learner.slot \in openings
    BY DEF ScreensInv, ScreensTypeOK
  <2> QED BY <2>1, <2>2 DEF ScreensInv, ScreensTellTruth
<1> QED BY <1>1, ScreensInductive, PTL
=============================================================================
