--------------------------- MODULE EmailTemplates ---------------------------
(***************************************************************************)
(* The e-mail templates of one company (EmailTemplatesService).  A type has *)
(* a default template; making one the default first takes the mark from    *)
(* the others, in a statement of its own.                                  *)
(*                                                                         *)
(* editor[e] is the handler e runs: its next statement and its variables.  *)
(***************************************************************************)
EXTENDS Integers, Sequences

CONSTANTS
    Editors,        \* handlers in flight
    MaxTemplates    \* bound: templates ever created

ASSUME TemplateBoundAssumption == MaxTemplates \in Nat

VARIABLES
    templates,   \* templates[x]: the row, or NoTemplate
    made,        \* how many have been created
    editor,      \* editor[e]
    disputed     \* history: types that may have two defaults

templateVars == <<templates, made, editor, disputed>>

TemplateIds == 1..MaxTemplates
Types == {"REJECTION", "INTERVIEW_INVITE", "FOLLOW_UP", "OFFER", "CUSTOM"}

\* The templates seedDefaults creates; their names are their indices.
DefaultTemplates ==
    <<[type |-> "REJECTION", isDefault |-> TRUE],
      [type |-> "REJECTION", isDefault |-> FALSE],
      [type |-> "INTERVIEW_INVITE", isDefault |-> TRUE],
      [type |-> "FOLLOW_UP", isDefault |-> TRUE],
      [type |-> "FOLLOW_UP", isDefault |-> FALSE],
      [type |-> "OFFER", isDefault |-> TRUE]>>
Seeds == 1..6

\* A name no seed has is 0.
Template == [name : Seeds \cup {0}, type : Types, isDefault : BOOLEAN]
NoTemplate == [type |-> "none"]
Live == {x \in TemplateIds : templates[x] # NoTemplate}
Defaults(type) == {x \in Live : templates[x].type = type /\ templates[x].isDefault}

\* What update is asked for, "keep" where it is not.
TemplateChanges ==
    [type : Types \cup {"keep"}, isDefault : {"keep", "yes", "no"}, renamed : BOOLEAN]
KeepAll == [type |-> "keep", isDefault |-> "keep", renamed |-> FALSE]

\* id: the template updated, 0 for a new one; type: that of the default to be.
Editor == [at : {"idle", "seek", "clear", "insert", "write"}, id : TemplateIds \cup {0},
           name : Seeds \cup {0}, type : Types, isDefault : BOOLEAN, to : TemplateChanges]
NotEditing == [at |-> "idle", id |-> 0, name |-> 0, type |-> "CUSTOM", isDefault |-> FALSE,
               to |-> KeepAll]

BeginEdit(e, h) == editor[e] = NotEditing /\ editor' = [editor EXCEPT ![e] = h]
EndEdit(e) == editor' = [editor EXCEPT ![e] = NotEditing]

\* create
CreateTemplate(e, type, isDefault) ==
    /\ BeginEdit(e, [NotEditing EXCEPT !.at = IF isDefault THEN "clear" ELSE "insert",
                                       !.type = type, !.isDefault = isDefault])
    /\ UNCHANGED <<templates, made, disputed>>

\* update, the row as read: its type is that of the default unless another is given.
UpdateTemplate(e, x, change) ==
    /\ x \in Live
    /\ BeginEdit(e, [NotEditing EXCEPT
           !.at = IF change.isDefault = "yes" THEN "clear" ELSE "write",
           !.id = x,
           !.type = IF change.type = "keep" THEN templates[x].type ELSE change.type,
           !.isDefault = change.isDefault = "yes",
           !.to = change])
    /\ UNCHANGED <<templates, made, disputed>>

\* The handlers that have cleared a type and not written their default of it.
AboutToSet(type) ==
    {e \in Editors : editor[e].at \in {"insert", "write"} /\ editor[e].isDefault
                     /\ editor[e].type = type}

\* Mutant: the template to be written keeps its mark, and so do the others.
ClearOnlyNew(e) ==
    LET h == editor[e] IN
    /\ h.at = "clear"
    /\ templates' = [x \in TemplateIds |->
                        IF h.id = 0 /\ x \in Defaults(h.type)
                        THEN [templates[x] EXCEPT !.isDefault = FALSE] ELSE templates[x]]
    /\ editor' = [editor EXCEPT ![e].at = IF h.id = 0 THEN "insert" ELSE "write"]
    /\ disputed' = IF AboutToSet(h.type) = {} THEN disputed \ {h.type} ELSE disputed \cup {h.type}
    /\ UNCHANGED made

\* The updateMany of all three handlers.
ClearDefaults(e) ==
    LET h == editor[e] IN
    /\ h.at = "clear"
    /\ templates' = [x \in TemplateIds |->
                        IF x \in Defaults(h.type) \ {h.id}
                        THEN [templates[x] EXCEPT !.isDefault = FALSE] ELSE templates[x]]
    /\ editor' = [editor EXCEPT ![e].at = IF h.id = 0 THEN "insert" ELSE "write"]
    /\ disputed' = IF AboutToSet(h.type) = {} THEN disputed \ {h.type} ELSE disputed \cup {h.type}
    /\ UNCHANGED made

\* The next default template to be looked for.
NextSeed(e, k) ==
    IF k \in Seeds THEN editor' = [editor EXCEPT ![e] = [NotEditing EXCEPT !.at = "seek", !.name = k]]
    ELSE EndEdit(e)

SeedDefaults(e) ==
    /\ BeginEdit(e, [NotEditing EXCEPT !.at = "seek", !.name = 1])
    /\ UNCHANGED <<templates, made, disputed>>

\* One that exists is skipped.
Seek(e) ==
    LET k == editor[e].name
        seed == DefaultTemplates[k]
    IN
    /\ editor[e].at = "seek"
    /\ IF \E x \in Live : templates[x].name = k /\ templates[x].type = seed.type
       THEN NextSeed(e, k + 1)
       ELSE editor' = [editor EXCEPT ![e] = [NotEditing EXCEPT
                          !.at = IF seed.isDefault THEN "clear" ELSE "insert",
                          !.name = k, !.type = seed.type, !.isDefault = seed.isDefault]]
    /\ UNCHANGED <<templates, made, disputed>>

Insert(e) ==
    LET h == editor[e] IN
    /\ h.at = "insert" /\ made < MaxTemplates
    /\ made' = made + 1
    /\ templates' = [templates EXCEPT
           ![made + 1] = [name |-> h.name, type |-> h.type, isDefault |-> h.isDefault]]
    /\ NextSeed(e, IF h.name = 0 THEN 0 ELSE h.name + 1)
    /\ UNCHANGED disputed

\* The row after an update.
Changed(row, change) ==
    [name |-> IF change.renamed THEN 0 ELSE row.name,
     type |-> IF change.type = "keep" THEN row.type ELSE change.type,
     isDefault |-> IF change.isDefault = "keep" THEN row.isDefault ELSE change.isDefault = "yes"]

\* History: a default got a type that was not cleared for it, because it keeps its
\* mark, or because its type is no longer the one read.
Unprepared(h, row, new) ==
    new.isDefault /\ IF h.isDefault THEN h.type # new.type ELSE row.type # new.type

\* The row that was read, whatever has become of it; an update of one that went fails.
Write(e) ==
    LET h == editor[e]
        row == templates[h.id]
        new == Changed(row, h.to)
    IN
    /\ h.at = "write"
    /\ \/ /\ h.id \in Live
          /\ templates' = [templates EXCEPT ![h.id] = new]
          /\ disputed' = IF Unprepared(h, row, new) THEN disputed \cup {new.type} ELSE disputed
       \/ h.id \notin Live /\ UNCHANGED <<templates, disputed>>
    /\ EndEdit(e)
    /\ UNCHANGED made

RemoveTemplate(x) ==
    /\ x \in Live
    /\ templates' = [templates EXCEPT ![x] = NoTemplate]
    /\ UNCHANGED <<made, editor, disputed>>

\* The database fails, or the process stops.
EditFails(e) ==
    /\ editor[e] # NotEditing
    /\ EndEdit(e)
    /\ UNCHANGED <<templates, made, disputed>>

-----------------------------------------------------------------------------

TemplatesInit ==
    /\ templates = [x \in TemplateIds |-> NoTemplate]
    /\ made = 0
    /\ editor = [e \in Editors |-> NotEditing]
    /\ disputed = {}

TemplatesNext ==
    \/ \E e \in Editors :
         \/ \E type \in Types, isDefault \in BOOLEAN : CreateTemplate(e, type, isDefault)
         \/ \E x \in TemplateIds, change \in TemplateChanges : UpdateTemplate(e, x, change)
         \/ SeedDefaults(e)
         \/ Seek(e) \/ ClearDefaults(e) \/ Insert(e) \/ Write(e) \/ EditFails(e)
    \/ \E x \in TemplateIds : RemoveTemplate(x)

TemplatesSpec == TemplatesInit /\ [][TemplatesNext]_templateVars

-----------------------------------------------------------------------------

\* Every variable has its type.
TemplatesTypeOK ==
    /\ templates \in [TemplateIds -> Template \cup {NoTemplate}]
    /\ made \in 0..MaxTemplates
    /\ editor \in [Editors -> Editor]
    /\ disputed \subseteq Types

\* A type has two defaults only if two handlers set one at the same time, or a
\* default was moved to the type without taking the mark from the one there; and a
\* default that is set afterwards with nobody else about repairs it.
SecondDefaultHasCause ==
    \A x, y \in Live :
        /\ templates[x].isDefault /\ templates[y].isDefault
        /\ templates[x].type = templates[y].type
        /\ x # y
        => templates[x].type \in disputed
=============================================================================
