----------------------------- MODULE MasterData -----------------------------
(***************************************************************************)
(* Master data, app/modules/master_cruds: a category defines fields, a     *)
(* record filed under the category answers them, and every answer is a row *)
(* of its own.  The categories are those of CategoryTree, in any state the *)
(* calls on categories bring them to; no call here changes one.  A text is *)
(* kept as far as the types tell texts apart: "digits" is read by both     *)
(* field types, "words" by the type text alone, and "blank" is no answer   *)
(* to a question that was asked.                                           *)
(***************************************************************************)
EXTENDS CategoryTree

CONSTANTS
    Fields,     \* master_crud_fields rows, existing or to be created
    FieldNames,
    Records     \* master_cruds rows, existing or to be created

VARIABLES
    fields,
    records,
    answers     \* master_crud_field_values: record and field -> row

dataVars == <<treeVars, fields, records, answers>>

FieldTypes == {"text", "number"}
Texts == {"words", "digits", "blank"}

FieldRow == [cat : Cats, name : FieldNames, type : FieldTypes, required : BOOLEAN,
             active : BOOLEAN, gone : BOOLEAN]
RecordRow == [cat : Cats, gone : BOOLEAN]

\* An answer deleted and given again is another row.
AnswerRow == [row : Nat, value : Texts]

\* NULL is no row.
ASSUME DataNoneAssumption == None \notin FieldRow \cup RecordRow \cup AnswerRow

DataTypeOK == /\ fields \in [Fields -> FieldRow \cup {None}]
              /\ records \in [Records -> RecordRow \cup {None}]
              /\ answers \in [Records \X Fields -> AnswerRow \cup {None}]

\* normalize_field_value
Reads(type, value) == type = "number" => value # "words"

TakesNew(c) == Live(cats[c]) /\ cats[c].active

(***************************************************************************)
(* Fields.                                                                 *)
(***************************************************************************)
\* name_exists_in_category, and the unique constraint: deleted rows count.
NameFree(f, c, name) ==
    \A g \in Fields \ {f} : fields[g] # None => ~(fields[g].cat = c /\ fields[g].name = name)

AnsweredBy(f) == {x \in Records : answers[<<x, f>>] # None}

\* Mutant: answers of deleted records are not counted.
GuardAnsweredLive(f) == \A x \in AnsweredBy(f) : records[x].gone

\* _guard_answered counts the answers of deleted records too.
GuardAnswered(f) == AnsweredBy(f) = {}

CreateField(r, f, c, name, type, required) ==
    /\ fields[f] = None
    /\ Unclaimed(f)
    /\ TakesNew(c)
    /\ NameFree(f, c, name)
    /\ Begin(r, [op |-> "field", id |-> f,
                 set |-> [cat |-> c, name |-> name, type |-> type, required |-> required,
                          active |-> TRUE, gone |-> FALSE]])

FieldUpdates == [cat : Cats] \cup [name : FieldNames] \cup [type : FieldTypes]
                \cup [required : BOOLEAN] \cup [active : BOOLEAN]
                \cup [cat : Cats, name : FieldNames]

\* The name is looked up only when it was sent.
UpdateField(r, f, new) ==
    /\ Live(fields[f])
    /\ LET c == IF "cat" \in DOMAIN new THEN new.cat ELSE fields[f].cat
       IN  /\ c # fields[f].cat => TakesNew(c) /\ GuardAnswered(f)
           /\ "type" \in DOMAIN new => new.type = fields[f].type \/ GuardAnswered(f)
           /\ "name" \in DOMAIN new => NameFree(f, c, new.name)
    /\ Begin(r, [op |-> "field", id |-> f, set |-> Changed(fields[f], new)])

DeleteField(r, f) == /\ Live(fields[f])
                     /\ GuardAnswered(f)
                     /\ Begin(r, [op |-> "field", id |-> f, set |-> [gone |-> TRUE]])

RestoreField(r, f) ==
    /\ fields[f] # None
    /\ Begin(r, [op |-> "field", id |-> f, set |-> Changed(fields[f], [gone |-> FALSE])])

WriteField(r) ==
    /\ Doing(r, "field")
    /\ LET c == call[r]
           row == Written(fields[c.id], c.set)
       IN  /\ NameFree(c.id, row.cat, row.name)
           /\ fields' = [fields EXCEPT ![c.id] = row]
    /\ UNCHANGED <<treeVars, records, answers>>
    /\ End(r)

(***************************************************************************)
(* Records.                                                                *)
(***************************************************************************)
Form(c) == {f \in Fields : Live(fields[f]) /\ fields[f].cat = c}

\* A submitted form: the fields it answers and how.
FilledForms == UNION {[asked -> Texts] : asked \in SUBSET Fields}

\* _resolve_values
ResolvesValues(c, form) ==
    /\ \A f \in DOMAIN form : /\ f \in Form(c) /\ fields[f].active
                              /\ Reads(fields[f].type, form[f])
    /\ \A f \in Form(c) : fields[f].active /\ fields[f].required =>
          f \in DOMAIN form /\ form[f] # "blank"

CreateRecord(r, x, c, form) ==
    /\ records[x] = None
    /\ Unclaimed(x)
    /\ TakesNew(c)
    /\ ResolvesValues(c, form)
    /\ Begin(r, [op |-> "record", id |-> x, set |-> [cat |-> c, gone |-> FALSE],
                 put |-> [f \in DOMAIN form |-> [row |-> made, value |-> form[f]]],
                 drop |-> {}, was |-> [f \in Fields |-> None]])

\* set_values: an answer that is asked for again is updated in place, one
\* that is not is deleted, and the others are inserted.
Put(x, form) ==
    [f \in {g \in DOMAIN form : answers[<<x, g>>] = None \/ answers[<<x, g>>].value # form[g]} |->
        [row |-> IF answers[<<x, f>>] = None THEN made ELSE answers[<<x, f>>].row,
         value |-> form[f]]]

Held(x) == {f \in Fields : answers[<<x, f>>] # None}

\* Only a move looks at the category; a record that has answers moves with
\* the answers to the new form.
UpdateRecord(r, x, c, form) ==
    /\ Live(records[x])
    /\ c # records[x].cat => TakesNew(c) /\ (form = None => Held(x) = {})
    /\ form # None => ResolvesValues(c, form)
    /\ Begin(r, [op |-> "record", id |-> x, set |-> Changed(records[x], [cat |-> c]),
                 put |-> IF form = None THEN <<>> ELSE Put(x, form),
                 drop |-> IF form = None THEN {} ELSE Held(x) \ DOMAIN form,
                 was |-> [f \in Fields |-> answers[<<x, f>>]]])

DeleteRecord(r, x) ==
    /\ Live(records[x])
    /\ Begin(r, [op |-> "record", id |-> x, set |-> [gone |-> TRUE], put |-> <<>>,
                 drop |-> {}, was |-> <<>>])

RestoreRecord(r, x) ==
    /\ records[x] # None
    /\ Begin(r, [op |-> "record", id |-> x, set |-> Changed(records[x], [gone |-> FALSE]),
                 put |-> <<>>, drop |-> {}, was |-> <<>>])

\* An UPDATE finds the row it loaded and an INSERT no row, or the request
\* dies; a DELETE takes the row it loaded if that is still there.
SameRow(a, b) == (a = None /\ b = None) \/ (a # None /\ b # None /\ a.row = b.row)

WriteRecord(r) ==
    /\ Doing(r, "record")
    /\ LET c == call[r]
           written(x, f) ==
              IF x # c.id THEN answers[<<x, f>>]
              ELSE IF f \in DOMAIN c.put THEN c.put[f]
              ELSE IF f \in c.drop /\ SameRow(answers[<<x, f>>], c.was[f]) THEN None
              ELSE answers[<<x, f>>]
       IN  /\ \A f \in DOMAIN c.put : SameRow(answers[<<c.id, f>>], c.was[f])
           /\ records' = [records EXCEPT ![c.id] = Written(@, c.set)]
           /\ answers' = [y \in Records \X Fields |-> written(y[1], y[2])]
    /\ UNCHANGED <<treeVars, fields>>
    /\ End(r)

(***************************************************************************)
(* The specification.                                                      *)
(***************************************************************************)
DataInit ==
    /\ types \in [Types -> {[gone |-> FALSE]}]
    /\ cats \in [Cats -> [type : Types, parent : {None}, active : BOOLEAN, gone : {FALSE}]]
    /\ fields = [f \in Fields |-> None]
    /\ records = [x \in Records |-> None]
    /\ answers = [y \in Records \X Fields |-> None]

FieldCalls(r) == \E f \in Fields :
    \/ \E c \in Cats, name \in FieldNames, type \in FieldTypes, required \in BOOLEAN :
            CreateField(r, f, c, name, type, required)
    \/ \E new \in FieldUpdates : UpdateField(r, f, new)
    \/ DeleteField(r, f) \/ RestoreField(r, f)

RecordCalls(r) == \E x \in Records :
    \/ \E c \in Cats, form \in FilledForms : CreateRecord(r, x, c, form)
    \/ \E c \in Cats, form \in FilledForms \cup {None} : UpdateRecord(r, x, c, form)
    \/ DeleteRecord(r, x) \/ RestoreRecord(r, x)

DataNext == \E r \in Requests : \/ (FieldCalls(r) \/ RecordCalls(r)) /\ UNCHANGED dataVars
                                \/ WriteField(r) \/ WriteRecord(r)
                                \/ Die(r) /\ UNCHANGED dataVars

DataSpec == CallsInit /\ DataInit /\ [][DataNext]_<<callVars, dataVars>>

(***************************************************************************)
(* Properties.                                                             *)
(***************************************************************************)
\* While calls do not overlap, every stored answer is to a live field of its
\* record's own category and reads as the field's type, those of a deleted
\* record included, which a restore brings back unexamined: "what is stored
\* is always parseable as the type the field declares".  However calls
\* overlap, a category has no two fields of one name.
AnswersFitTheirFields ==
    /\ Alone => \A x \in Records, f \in Fields : answers[<<x, f>>] # None =>
          /\ Live(fields[f]) /\ fields[f].cat = records[x].cat
          /\ Reads(fields[f].type, answers[<<x, f>>].value)
    /\ \A f, g \in Fields : f # g /\ fields[f] # None /\ fields[g] # None =>
          fields[f].cat # fields[g].cat \/ fields[f].name # fields[g].name
=============================================================================
