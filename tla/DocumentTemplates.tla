-------------------------- MODULE DocumentTemplates --------------------------
(***************************************************************************)
(* Templates of documents: a row, the fields that are asked for when a     *)
(* document is generated, and the placeholders of the content.  Views      *)
(* write a row and its fields statement by statement, the assistant in one *)
(* transaction; a generation reads the row and then the fields.            *)
(***************************************************************************)
EXTENDS Sequences, Functions, WebThreads

CONSTANTS
  Templates,   \* primary keys
  Names, Copy, \* names, and the one that clones get
  Keys,        \* field keys, which are also the placeholders
  Author, Admin, Colleague

Calls == {"create", "put", "patch", "delete", "duplicate", "use", "assistant_create",
          "assistant_update", "assistant_edit"}   \* with fields and without
Faults == {"crash"}
Users == {Author, Admin, Colleague}
Visibilities == {"private", "shared"}
Requirements == {"none", "optional", "required"}
Rows == [name : Names \cup {Copy}, content : SUBSET Keys, visibility : Visibilities,
         is_active : BOOLEAN, created_by : Users]

TemplateConstants ==
  /\ Nil \notin Rows \cup Users \cup Keys /\ IsFiniteSet(Keys)
  \* Clients also say who they are and what they write: contents with lists of fields.
  /\ \A c \in Clients : c.area = "templates" =>
       /\ c.users \subseteq Users
       /\ \A p \in c.papers : /\ p.content \subseteq Keys /\ p.fields # Nil
                              /\ p.fields \in Seq([key : Keys, is_required : BOOLEAN])

VARIABLES
  template,   \* id -> row, or Nil
  field,      \* id -> field key -> whether it is asked for
  generated   \* the placeholders that the last document was left with

vars == <<template, field, generated, job, clients>>
NoFields == [k \in Keys |-> "none"]
Live(i) == template[i] # Nil /\ template[i].is_active

-----------------------------------------------------------------------------
(* What the calls share.                                                   *)

\* Mutation of Taken: only among shared templates.
TakenShared(n, i) ==
  \E j \in Templates \ {i} : Live(j) /\ template[j].visibility = "shared" /\ template[j].name = n

\* validate_name
Taken(n, i) == \E j \in Templates \ {i} : Live(j) /\ template[j].name = n

\* System templates, which nobody may edit, are left out.
CanEdit(u, row) == u \in {row.created_by, Admin}
Visible(u, row) == row.visibility = "shared" \/ u \in {row.created_by, Admin}

\* PUT and PATCH write their defaults for what is not provided; only the name and the
\* fields stay.
Changed(row, n, p, v) ==
  [row EXCEPT !.name = IF n = Nil THEN @ ELSE n, !.content = p.content, !.visibility = v]

\* Mutation of Asked: every field is optional.
AskedOptional(f) == "optional"
Asked(f) == IF f.is_required THEN "required" ELSE "optional"

\* The unique index on template and key refuses the second field of a key.
Clashing(fields) == \E i, j \in DOMAIN fields : i # j /\ fields[i].key = fields[j].key
Written(fields) ==
  [k \in Keys |->
     IF \E i \in DOMAIN fields : fields[i].key = k
     THEN Asked(CHOOSE f \in Range(fields) : f.key = k) ELSE "none"]

NewRow(n, p, v, u) ==
  [name |-> n, content |-> p.content, visibility |-> v, is_active |-> TRUE,
   created_by |-> u]

-----------------------------------------------------------------------------
(* The fields are deleted, if there were any, and made one by one.         *)

DropFields(t) ==
  /\ At(t, "drop")
  /\ field' = [field EXCEPT ![job[t].key] = NoFields]
  /\ Take(t, "fields", job[t].key, job[t].row)
  /\ UNCHANGED <<template, generated, clients>>

AddField(t) ==
  /\ At(t, "fields") /\ job[t].row # <<>>
  /\ LET f == Head(job[t].row) IN
     IF field[job[t].key][f.key] = "none"
     THEN /\ field' = [field EXCEPT ![job[t].key][f.key] = Asked(f)]
          /\ Take(t, "fields", job[t].key, Tail(job[t].row))
     ELSE UNCHANGED field /\ Done(t)
  /\ UNCHANGED <<template, generated, clients>>

Answer(t) ==
  /\ At(t, "fields") /\ job[t].row = <<>> /\ Done(t)
  /\ UNCHANGED <<template, field, generated, clients>>

-----------------------------------------------------------------------------
(* Calls.                                                                  *)

Create(t) ==
  /\ Free(t, "create")
  /\ \E i \in Templates, n \in Names, p \in clients.papers, v \in Visibilities, u \in clients.users :
       /\ template[i] = Nil /\ ~Taken(n, i)
       /\ template' = [template EXCEPT ![i] = NewRow(n, p, v, u)]
       /\ Take(t, "fields", i, p.fields)
  /\ UNCHANGED <<field, generated, clients>>

AssistantCreate(t) ==
  /\ Free(t, "assistant_create")
  /\ \E i \in Templates, n \in Names, p \in clients.papers, v \in Visibilities, u \in clients.users :
       /\ template[i] = Nil /\ ~Taken(n, i) /\ ~Clashing(p.fields)
       /\ template' = [template EXCEPT ![i] = NewRow(n, p, v, u)]
       /\ field' = [field EXCEPT ![i] = Written(p.fields)]
  /\ UNCHANGED <<generated, job, clients>>

\* fields is Nil if the fields stay.
Load(t, c) ==
  \E i \in Templates, u \in clients.users, n \in Names \cup {Nil}, p \in clients.papers,
     v \in Visibilities :
    /\ Live(i) /\ CanEdit(u, template[i]) /\ (n # Nil => ~Taken(n, i))
    /\ \E fields \in {p.fields} \cup (IF c = "put" THEN {} ELSE {Nil}) :
         Take(t, "save", i, [row |-> Changed(template[i], n, p, v), fields |-> fields])

LoadPut(t) ==
  /\ Free(t, "put") /\ Load(t, "put") /\ job'[t].row.row.name # Nil
  /\ UNCHANGED <<template, field, generated, clients>>

LoadPatch(t) ==
  /\ Free(t, "patch") /\ Load(t, "patch")
  /\ UNCHANGED <<template, field, generated, clients>>

\* Every column, is_active among them.
Save(t) ==
  /\ At(t, "save")
  /\ LET h == job[t].row IN
     /\ template' = [template EXCEPT ![job[t].key] = h.row]
     /\ IF h.fields = Nil THEN Done(t) ELSE Take(t, "drop", job[t].key, h.fields)
  /\ UNCHANGED <<field, generated, clients>>

LoadAssistantUpdate(t) ==
  /\ \E i \in Templates, u \in clients.users, n \in Names \cup {Nil}, p \in clients.papers,
        v \in Visibilities, c \in {"assistant_update", "assistant_edit"} :
       /\ Free(t, c) /\ Live(i) /\ Visible(u, template[i]) /\ CanEdit(u, template[i])
       /\ n # Nil => ~Taken(n, i)
       /\ Take(t, "assistant", i, [row |-> Changed(template[i], n, p, v),
                                   fields |-> IF c = "assistant_update" THEN p.fields ELSE Nil])
  /\ UNCHANGED <<template, field, generated, clients>>

AssistantUpdate(t) ==
  /\ At(t, "assistant")
  /\ LET h == job[t].row IN
     IF h.fields # Nil /\ Clashing(h.fields) THEN UNCHANGED <<template, field>>
     ELSE /\ template' = [template EXCEPT ![job[t].key] = h.row]
          /\ field' = [field EXCEPT ![job[t].key] =
                         IF h.fields = Nil THEN @ ELSE Written(h.fields)]
  /\ Done(t)
  /\ UNCHANGED <<generated, clients>>

Delete(t) ==
  /\ Free(t, "delete")
  /\ \E i \in Templates, u \in clients.users :
       /\ Live(i) /\ CanEdit(u, template[i])
       /\ template' = [template EXCEPT ![i].is_active = FALSE]
  /\ UNCHANGED <<field, generated, job, clients>>

\* Whoever asks gets a clone, without a look at its name.
Duplicate(t) ==
  /\ Free(t, "duplicate")
  /\ \E i, j \in Templates, u \in clients.users :
       /\ Live(i) /\ template[j] = Nil
       /\ template' = [template EXCEPT ![j] =
            [template[i] EXCEPT !.name = Copy, !.visibility = "private", !.created_by = u]]
       /\ Take(t, "clone", j, i)
  /\ UNCHANGED <<field, generated, clients>>

CloneFields(t) ==
  /\ At(t, "clone")
  /\ LET source == field[job[t].row]
         asked == {k \in Keys : source[k] # "none"}
     IN \E s \in {f \in [1..Cardinality(asked) -> asked] : Range(f) = asked} :
          Take(t, "fields", job[t].key,
               [n \in DOMAIN s |-> [key |-> s[n], is_required |-> source[s[n]] = "required"]])
  /\ UNCHANGED <<template, field, generated, clients>>

\* given: the keys with a value; filled: those whose value is not empty.
Use(t) ==
  /\ Free(t, "use")
  /\ \E i \in Templates, given \in SUBSET Keys : \E filled \in SUBSET given :
       /\ Live(i)
       /\ Take(t, "prefetch", i, [content |-> template[i].content, given |-> given,
                                  filled |-> filled])
  /\ UNCHANGED <<template, field, generated, clients>>

\* Mutation of Missing: a value may be anything once it is there.
MissingAny(i, filled) == {}
Missing(i, filled) == {k \in Keys : field[i][k] = "required"} \ filled

Generate(t) ==
  /\ At(t, "prefetch")
  /\ LET h == job[t].row IN
     generated' = IF Missing(job[t].key, h.filled) = {} THEN h.content \ h.given ELSE generated
  /\ Done(t)
  /\ UNCHANGED <<template, field, clients>>

Crash(t) ==
  /\ Fault("crash") /\ job[t] # Idle /\ Done(t)
  /\ UNCHANGED <<template, field, generated, clients>>

-----------------------------------------------------------------------------
Start == /\ template = [i \in Templates |-> Nil] /\ field = [i \in Templates |-> NoFields]
         /\ generated = {}
Init == Begin /\ Start

Next == \E t \in Threads :
  \/ Create(t) \/ AssistantCreate(t) \/ LoadPut(t) \/ LoadPatch(t) \/ Save(t)
  \/ LoadAssistantUpdate(t) \/ AssistantUpdate(t) \/ Delete(t)
  \/ Duplicate(t) \/ CloneFields(t) \/ DropFields(t) \/ AddField(t) \/ Answer(t)
  \/ Use(t) \/ Generate(t) \/ Crash(t)

Spec == Init /\ [][Next]_vars
-----------------------------------------------------------------------------
(* Properties.                                                             *)

\* Every row is in its columns' range.
TypeOK ==
  clients.area = "templates" =>
  /\ template \in [Templates -> Rows \cup {Nil}]
  /\ field \in [Templates -> [Keys -> Requirements]] /\ generated \subseteq Keys

\* While calls come one at a time and nobody clones, active templates have different
\* names, and the name of a deleted one is free again.
OneActiveName ==
  clients.area = "templates" /\ OneAtATime /\ "duplicate" \notin clients.calls =>
    \A i, j \in Templates : i # j /\ Live(i) /\ Live(j) => template[i].name # template[j].name

\* Whose authors ask for every placeholder of a content, and write content and fields
\* together, get documents without placeholders: clones ask for the same fields, and the
\* assistant's edits are whole even when workers die.  (A view's edit that dies, or has
\* two fields with one key, leaves a content without its fields.)
NothingLeftOpen ==
  /\ clients.area = "templates" /\ OneAtATime /\ {"patch", "assistant_edit"} \cap clients.calls = {}
  /\ \A p \in clients.papers :
       p.content \subseteq {f.key : f \in {g \in Range(p.fields) : g.is_required}}
  /\ \/ {"create", "put", "duplicate"} \cap clients.calls = {}
     \/ clients.faults = {} /\ \A p \in clients.papers : ~Clashing(p.fields)
  => generated = {}
=============================================================================
