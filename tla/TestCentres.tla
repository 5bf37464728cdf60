------------------------------ MODULE TestCentres ------------------------------
(***************************************************************************)
(* The test centres (test-centres.service.ts), the geocoder that places    *)
(* them (postcode.service.ts) and the import of the official list          *)
(* (import-test-centres.ts).  Administrators create, change and remove     *)
(* centres at once, each of them in two or three statements with a call of *)
(* the geocoder in between; the import is one transaction.                 *)
(* A centre's place is known only by a postcode: town, region and prose    *)
(* are text that nothing here depends on.                                  *)
(***************************************************************************)
EXTENDS FiniteSets, Integers, Sequences

CONSTANTS
    Id,         \* ids of centres
    Name,       \* names, as they are typed
    NormName,   \* tc_norm_name: what is left of a name without case and spaces
    Postcode,   \* postcodes, as they are typed
    Canonical,  \* PostcodeService.normalise
    Real,       \* canonical postcodes that the geocoder knows
    Csv,        \* the rows of the CSV file: name, postcode, and whether its town agrees
    Seeded,     \* centres of the schema's seed, placed by hand
    Editor,     \* requests of administrators that may be in progress at once
    Missing,    \* no centre, or nothing typed
    Code,       \* the form's postcodes
    TownOf,     \* the town the lookup gives for each
    OwnTown,    \* a town the administrator types
    Unknown,    \* postcodes for which the lookup fails
    Empty       \* an empty field

ASSUME CentresAssumption ==
    /\ NormName \in [Name -> Name] /\ Canonical \in [Postcode -> Postcode]
    /\ \A n \in Name : NormName[NormName[n]] = NormName[n]
    /\ \A p \in Postcode : Canonical[Canonical[p]] = Canonical[p]
    /\ Real \subseteq Postcode /\ Missing \notin Name \cup Postcode \cup Id
    /\ Csv \in Seq([name : Name, postcode : Postcode, agrees : BOOLEAN])
    /\ Seeded \in [Id -> [name : Name, postcode : Postcode, at : {"given"} \X Postcode] \cup {Missing}]
    /\ Missing \notin [name : Name, postcode : Postcode, at : ({"given"} \X Postcode) \cup Postcode]
    /\ \A c, d \in Id : Seeded[c] # Missing /\ Seeded[d] # Missing /\ c # d =>
          NormName[Seeded[c].name] # NormName[Seeded[d].name]
    /\ \A c \in Id : Seeded[c] # Missing => Seeded[c].at[2] = Canonical[Seeded[c].postcode]

VARIABLES
    centres,  \* table test_centres; Missing: no such row
    routed,   \* centres that rows of routes refer to
    edits     \* what each request of an administrator is doing

centresVars == <<centres, routed, edits>>

\* A location is the postcode that the geocoder placed there, or one that was typed in for
\* the postcode of a seed.
Location == Postcode \cup ({"given"} \X Postcode)
CentreRow == [name : Name, postcode : Postcode, at : Location]
Edit == [step : {"idle", "locate", "write", "delete"}, id : Id \cup {Missing},
         name : Name, postcode : Postcode, at : Location \cup {Missing}]

CentresTypeOK ==
    /\ centres \in [Id -> CentreRow \cup {Missing}]
    /\ routed \subseteq Id
    /\ edits \in [Editor -> Edit \cup {Missing}]

Exists(c) == centres[c] # Missing
Called(c, n) == Exists(c) /\ NormName[centres[c].name] = NormName[n]
NameFree(n, except) == \A c \in Id \ {except} : ~Called(c, n)

CentresInit ==
    /\ centres = Seeded
    /\ routed = {}
    /\ edits = [e \in Editor |-> Missing]

Do(e, edit) == edits' = [edits EXCEPT ![e] = edit]
Stops(e) == Do(e, Missing)
-----------------------------------------------------------------------------
(* Creating and changing a centre. *)

\* create: assertNameFree answers before the geocoder is asked.
CreateCheck(e, n, p) ==
    /\ edits[e] = Missing
    /\ NameFree(n, Missing)
    /\ Do(e, [step |-> "locate", id |-> Missing, name |-> n, postcode |-> p, at |-> Missing])
    /\ UNCHANGED <<centres, routed>>

\* update: the row is read, and then asked for whether another has the new name.  Where the
\* postcode stays the same, however it is typed, so does the location.
UpdateRead(e, c, n, p) ==
    /\ edits[e] = Missing /\ Exists(c)
    /\ LET old == centres[c]
           name == IF n = Missing THEN old.name ELSE n
           moved == p # Missing /\ Canonical[p] # Canonical[old.postcode]
       IN  /\ name # old.name => NameFree(name, c)
           /\ Do(e, [step |-> IF moved THEN "locate" ELSE "write", id |-> c, name |-> name,
                     postcode |-> IF p = Missing THEN old.postcode ELSE p,
                     at |-> IF moved THEN Missing ELSE old.at])
    /\ UNCHANGED <<centres, routed>>

\* geocode(): the canonical postcode and its place, no answer, or no such postcode.
Locate(e) ==
    /\ edits[e] # Missing /\ edits[e].step = "locate"
    /\ LET p == Canonical[edits[e].postcode] IN
       \/ p \in Real /\ Do(e, [edits[e] EXCEPT !.step = "write", !.postcode = p, !.at = p])
       \/ Stops(e)
    /\ UNCHANGED <<centres, routed>>

Written(edit) == [name |-> edit.name, postcode |-> edit.postcode, at |-> edit.at]

\* The unique index on tc_norm_name has the last word (asDuplicateError).
Insert(e) ==
    /\ edits[e] # Missing /\ edits[e].step = "write" /\ edits[e].id = Missing
    /\ \/ /\ NameFree(edits[e].name, Missing)
          /\ \E c \in Id : ~Exists(c) /\ centres' = [centres EXCEPT ![c] = Written(edits[e])]
       \/ ~NameFree(edits[e].name, Missing) /\ UNCHANGED centres
    /\ Stops(e) /\ UNCHANGED routed

\* Mutant of Update: a column that was not typed stays as it is.
UpdateTypedOnly(e) ==
    /\ edits[e] # Missing /\ edits[e].step = "write" /\ edits[e].id # Missing
    /\ LET c == edits[e].id
           refused == ~Exists(c) \/ ~NameFree(edits[e].name, c)
       IN  centres' = IF refused THEN centres
                      ELSE [centres EXCEPT ![c].name = edits[e].name, ![c].at = edits[e].at]
    /\ Stops(e) /\ UNCHANGED routed

\* Every column is written, those that were not typed as they were read.
Update(e) ==
    /\ edits[e] # Missing /\ edits[e].step = "write" /\ edits[e].id # Missing
    /\ LET c == edits[e].id
           refused == ~Exists(c) \/ ~NameFree(edits[e].name, c)
       IN  centres' = IF refused THEN centres ELSE [centres EXCEPT ![c] = Written(edits[e])]
    /\ Stops(e) /\ UNCHANGED routed

-----------------------------------------------------------------------------
(* Removing a centre, and the routes that keep it. *)

RemoveCheck(e, c) ==
    /\ edits[e] = Missing /\ Exists(c) /\ c \notin routed
    /\ Do(e, [step |-> "delete", id |-> c, name |-> centres[c].name,
              postcode |-> centres[c].postcode, at |-> Missing])
    /\ UNCHANGED <<centres, routed>>

\* The foreign key of routes refuses what the count did not see.
Delete(e) ==
    /\ edits[e] # Missing /\ edits[e].step = "delete"
    /\ LET c == edits[e].id IN
       centres' = IF c \in routed THEN centres ELSE [centres EXCEPT ![c] = Missing]
    /\ Stops(e) /\ UNCHANGED routed

\* A route is published for a centre, or goes (external).
RouteFor(c) ==
    /\ Exists(c) \/ c \in routed
    /\ routed' = IF c \in routed THEN routed \ {c} ELSE routed \cup {c}
    /\ UNCHANGED <<centres, edits>>
-----------------------------------------------------------------------------
(* The import. *)

\* Of the rows with one name the first is used (findDuplicateNames).
FirstOfName(i) == \A j \in 1 .. i - 1 : NormName[Csv[j].name] # NormName[Csv[i].name]

\* resolveRows, and with --strict without those whose town is another.
ToImport(strict) ==
    {i \in DOMAIN Csv : /\ FirstOfName(i)
                        /\ Canonical[Csv[i].postcode] \in Real
                        /\ strict => Csv[i].agrees}

Imported(i) == LET p == Canonical[Csv[i].postcode] IN
    [name |-> Csv[i].name, postcode |-> p, at |-> p]

\* upsertCentres, one transaction: each row goes to the centre of its name, whose own
\* spelling of the name stays, or to a new one.
Import(strict) ==
    \E into \in [ToImport(strict) -> Id] :
       /\ \A i, j \in ToImport(strict) : i # j => into[i] # into[j]
       /\ \A i \in ToImport(strict) :
             Called(into[i], Csv[i].name) \/ (~Exists(into[i]) /\ NameFree(Csv[i].name, Missing))
       /\ centres' = [c \in Id |->
             IF \E i \in ToImport(strict) : into[i] = c
             THEN LET row == Imported(CHOOSE i \in ToImport(strict) : into[i] = c) IN
                  IF Exists(c) THEN [row EXCEPT !.name = centres[c].name] ELSE row
             ELSE centres[c]]
       /\ UNCHANGED <<routed, edits>>
-----------------------------------------------------------------------------
CentresNext ==
    \/ \E e \in Editor :
         \/ \E n \in Name, p \in Postcode : CreateCheck(e, n, p)
         \/ \E c \in Id, n \in Name \cup {Missing}, p \in Postcode \cup {Missing} : UpdateRead(e, c, n, p)
         \/ Locate(e) \/ Insert(e) \/ Update(e)
         \/ \E c \in Id : RemoveCheck(e, c)
         \/ Delete(e)
    \/ \E c \in Id : RouteFor(c)
    \/ \E strict \in BOOLEAN : Import(strict)

CentresSpec == CentresInit /\ [][CentresNext]_centresVars
-----------------------------------------------------------------------------
(* Properties. *)

\* A centre is where its postcode is: the place the geocoder gave for it, or for a seed the
\* one it came with.
Placed(row) ==
    \/ row.at = Canonical[row.postcode] /\ row.at \in Real
    \/ row.at = <<"given", Canonical[row.postcode]>>

\* However edits and imports overlap, no centre is ever on the map where its postcode is
\* not, no two centres have one name, and no route is left without its centre.
CentresStand ==
    /\ \A c \in Id : Exists(c) => Placed(centres[c])
    /\ \A c, d \in Id : Exists(c) /\ Called(d, centres[c].name) => c = d
    /\ routed \subseteq {c \in Id : Exists(c)}
-----------------------------------------------------------------------------
(* The page on which an administrator creates or changes a centre              *)
(* (TestCentreFormPage.tsx).  Leaving the postcode has it looked up, and the   *)
(* answer fills in what is still blank; the page stays in use while it waits.  *)

ASSUME FormAssumption == Empty \notin Code /\ OwnTown # Empty /\ Unknown \subseteq Code

VARIABLES
    fields,     \* the fields of the page
    looking,  \* postcodes whose lookup is not yet answered
    saving,   \* "no", "sent", "saved"
    typed,    \* history: what the administrator last typed into each field
    retyped   \* history: a postcode was typed after another was left

formVars == <<fields, looking, saving, typed, retyped>>

Fields == [postcode : Code \cup {Empty}, town : {TownOf[p] : p \in Code} \cup {OwnTown, Empty}]

\* An existing centre is loaded before the page can be used.
FormInit ==
    /\ fields \in {[postcode |-> Empty, town |-> Empty]}
                  \cup {[postcode |-> p, town |-> OwnTown] : p \in Code}
    /\ looking = {} /\ saving = "no"
    /\ typed = fields
    /\ retyped = FALSE

TypePostcode(p) ==
    /\ saving # "saved"
    /\ fields' = [fields EXCEPT !.postcode = p]
    /\ typed' = [typed EXCEPT !.postcode = p]
    /\ retyped' = (retyped \/ looking # {} \/ fields.town # typed.town)
    /\ UNCHANGED <<looking, saving>>

TypeTown(t) ==
    /\ saving # "saved"
    /\ fields' = [fields EXCEPT !.town = t]
    /\ typed' = [typed EXCEPT !.town = t]
    /\ UNCHANGED <<looking, saving, retyped>>

\* lookup(), when the field is left.
LeavePostcode ==
    /\ saving # "saved" /\ fields.postcode # Empty
    /\ looking' = looking \cup {fields.postcode}
    /\ UNCHANGED <<fields, saving, typed, retyped>>

\* Mutant of LookedUp: the lookup knows better.
LookedUpWins(p) ==
    /\ saving # "saved" /\ p \in looking \ Unknown
    /\ fields' = [postcode |-> p, town |-> TownOf[p]]
    /\ looking' = looking \ {p}
    /\ UNCHANGED <<saving, typed, retyped>>

\* The answer replaces the postcode by its own spelling of it, and fills in blanks.
LookedUp(p) ==
    /\ saving # "saved" /\ p \in looking \ Unknown
    /\ fields' = [postcode |-> p, town |-> IF fields.town = Empty THEN TownOf[p] ELSE fields.town]
    /\ looking' = looking \ {p}
    /\ UNCHANGED <<saving, typed, retyped>>

NotLookedUp(p) ==
    /\ saving # "saved" /\ p \in looking
    /\ looking' = looking \ {p}
    /\ UNCHANGED <<fields, saving, typed, retyped>>

\* submit(): the browser insists on the required fields.
FormSave ==
    /\ saving = "no" /\ fields.postcode # Empty /\ fields.town # Empty
    /\ saving' = "sent"
    /\ UNCHANGED <<fields, looking, typed, retyped>>

FormAnswered ==
    /\ saving = "sent" /\ saving' \in {"no", "saved"}
    /\ UNCHANGED <<fields, looking, typed, retyped>>

FormNext ==
    \/ \E p \in Code \cup {Empty} : TypePostcode(p)
    \/ \E t \in {OwnTown, Empty} : TypeTown(t)
    \/ LeavePostcode \/ (\E p \in Code : LookedUp(p) \/ NotLookedUp(p))
    \/ FormSave \/ FormAnswered

FormSpec == FormInit /\ [][FormNext]_formVars
-----------------------------------------------------------------------------
\* What the administrator typed is what the form holds, and a town that nobody typed is the
\* town of the postcode beside it, unless a postcode was typed after another had been left.
FormAsTyped ==
    \/ retyped
    \/ /\ fields.postcode = typed.postcode
       /\ fields.town = typed.town \/ (typed.town = Empty /\ fields.town = TownOf[fields.postcode])
=============================================================================
