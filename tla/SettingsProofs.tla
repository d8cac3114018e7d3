--------------------------- MODULE SettingsProofs ---------------------------
(***************************************************************************)
(* What holds of the e-mail templates and the permissions of a company for *)
(* any number of handlers in flight.                                       *)
(***************************************************************************)
EXTENDS EmailTemplates, Permissions, TLAPS

-----------------------------------------------------------------------------
(* E-mail templates *)

\* A handler that sets a default, or a type, writes what it cleared.
EditorsOK ==
    \A e \in Editors :
        /\ editor[e].at \in {"clear", "write"} /\ editor[e].id # 0 =>
              (editor[e].isDefault <=> editor[e].to.isDefault = "yes")
        /\ editor[e].at = "clear" => editor[e].isDefault
        /\ editor[e].at = "insert" => editor[e].id = 0
        /\ editor[e].at = "write" => editor[e].id # 0
        /\ editor[e].at = "seek" => editor[e].name \in Seeds

\* What has not been created is not there.
UnmadeAbsent == \A x \in TemplateIds : x > made => templates[x] = NoTemplate

Sets(e, type) ==
    editor[e].at \in {"insert", "write"} /\ editor[e].isDefault /\ editor[e].type = type

\* Between its two statements, a handler that sets a default finds no other one.
Prepared ==
    \A e \in Editors, type \in Types \ disputed :
        Sets(e, type) => \A x \in Defaults(type) : x = editor[e].id

\* Two handlers between these statements dispute the type.
SettersDispute ==
    \A e, f \in Editors, type \in Types :
        Sets(e, type) /\ Sets(f, type) /\ e # f => type \in disputed

OneDefault ==
    \A type \in Types \ disputed : \A x, y \in Defaults(type) : x = y

TemplatesInv ==
    /\ TemplatesTypeOK /\ EditorsOK /\ UnmadeAbsent
    /\ Prepared /\ SettersDispute /\ OneDefault

LEMMA NoTemplateIsNone ==
    /\ NoTemplate \notin Template
    /\ \A row \in Template : row # NoTemplate
BY DEF NoTemplate, Template, Types

LEMMA SeedsAreTyped ==
    \A k \in Seeds : /\ DefaultTemplates[k].type \in Types
                     /\ DefaultTemplates[k].isDefault \in BOOLEAN
<1> TAKE k \in Seeds
<1>1. k \in 1..6
  BY DEF Seeds
<1>2. k = 1 \/ k = 2 \/ k = 3 \/ k = 4 \/ k = 5 \/ k = 6
  BY <1>1
<1>3. /\ DefaultTemplates[1] = [type |-> "REJECTION", isDefault |-> TRUE]
      /\ DefaultTemplates[2] = [type |-> "REJECTION", isDefault |-> FALSE]
      /\ DefaultTemplates[3] = [type |-> "INTERVIEW_INVITE", isDefault |-> TRUE]
      /\ DefaultTemplates[4] = [type |-> "FOLLOW_UP", isDefault |-> TRUE]
      /\ DefaultTemplates[5] = [type |-> "FOLLOW_UP", isDefault |-> FALSE]
      /\ DefaultTemplates[6] = [type |-> "OFFER", isDefault |-> TRUE]
  BY DEF DefaultTemplates
<1>4. \A type \in Types, isDefault \in BOOLEAN :
         [type |-> type, isDefault |-> isDefault] \in [type : Types, isDefault : BOOLEAN]
  OBVIOUS
<1>5. {"REJECTION", "INTERVIEW_INVITE", "FOLLOW_UP", "OFFER"} \subseteq Types
  BY DEF Types
<1>6. DefaultTemplates[k] \in [type : Types, isDefault : BOOLEAN]
  BY <1>2, <1>3, <1>4, <1>5, ZenonT(40)
<1> QED BY <1>6

\* The statements a handler may go on to without having written.
LEMMA QuietStep ==
    ASSUME TemplatesInv, NEW e \in Editors, NEW h \in Editor,
           editor' = [editor EXCEPT ![e] = h],
           h.at \notin {"insert", "write"} \/ ~h.isDefault,
           h.at \in {"clear", "write"} /\ h.id # 0 => (h.isDefault <=> h.to.isDefault = "yes"),
           h.at = "clear" => h.isDefault,
           h.at = "insert" => h.id = 0,
           h.at = "write" => h.id # 0,
           h.at = "seek" => h.name \in Seeds,
           UNCHANGED <<templates, made, disputed>>
    PROVE  TemplatesInv'
<1>1. TemplatesTypeOK'
  BY DEF TemplatesInv, TemplatesTypeOK
<1>2. EditorsOK' /\ UnmadeAbsent'
  BY DEF TemplatesInv, TemplatesTypeOK, EditorsOK, UnmadeAbsent
<1>3. ~\E type \in Types : Sets(e, type)'
  BY DEF TemplatesInv, TemplatesTypeOK, Sets
<1>4. \A f \in Editors \ {e} : editor'[f] = editor[f]
  BY DEF TemplatesInv, TemplatesTypeOK
<1>5. \A f \in Editors \ {e}, type \in Types : Sets(f, type)' <=> Sets(f, type)
  BY <1>4 DEF Sets
<1>6. \A type \in Types : Defaults(type)' = Defaults(type)
  BY DEF Defaults, Live
<1>7. Prepared'
  BY <1>3, <1>4, <1>5, <1>6 DEF TemplatesInv, Prepared
<1>8. SettersDispute'
  BY <1>3, <1>5 DEF TemplatesInv, SettersDispute
<1>9. OneDefault'
  BY <1>6 DEF TemplatesInv, OneDefault
<1> QED BY <1>1, <1>2, <1>7, <1>8, <1>9 DEF TemplatesInv

LEMMA EndIsQuiet ==
    ASSUME TemplatesInv, NEW e \in Editors, EndEdit(e), UNCHANGED <<templates, made, disputed>>
    PROVE  TemplatesInv'
<1>1. NotEditing \in Editor /\ NotEditing.at = "idle"
  BY DEF NotEditing, Editor, KeepAll, TemplateChanges, Types, Seeds, TemplateIds
<1> QED BY <1>1, QuietStep DEF EndEdit

LEMMA CreateTemplateKeeps ==
    ASSUME TemplatesInv, NEW e \in Editors, NEW type \in Types, NEW isDefault \in BOOLEAN,
           CreateTemplate(e, type, isDefault)
    PROVE  TemplatesInv'
<1> DEFINE h == [NotEditing EXCEPT !.at = IF isDefault THEN "clear" ELSE "insert",
                                   !.type = type, !.isDefault = isDefault]
<1>1. /\ h \in Editor /\ h.id = 0 /\ h.isDefault = isDefault
      /\ h.at = IF isDefault THEN "clear" ELSE "insert"
  BY DEF NotEditing, Editor, KeepAll, TemplateChanges, Types, Seeds, TemplateIds
<1>2. editor' = [editor EXCEPT ![e] = h] /\ UNCHANGED <<templates, made, disputed>>
  BY DEF CreateTemplate, BeginEdit
<1> HIDE DEF h
<1> QED BY <1>1, <1>2, QuietStep

LEMMA UpdateTemplateKeeps ==
    ASSUME TemplatesInv, NEW e \in Editors, NEW x \in TemplateIds, NEW change \in TemplateChanges,
           UpdateTemplate(e, x, change)
    PROVE  TemplatesInv'
<1> DEFINE type == IF change.type = "keep" THEN templates[x].type ELSE change.type
           h == [NotEditing EXCEPT
                   !.at = IF change.isDefault = "yes" THEN "clear" ELSE "write",
                   !.id = x,
                   !.type = IF change.type = "keep" THEN templates[x].type ELSE change.type,
                   !.isDefault = change.isDefault = "yes",
                   !.to = change]
<1>1. type \in Types
  <2>1. x \in Live
    BY DEF UpdateTemplate
  <2>2. templates[x] \in Template
    BY <2>1 DEF Live, TemplatesInv, TemplatesTypeOK
  <2> QED BY <2>2 DEF Template, TemplateChanges
<1>2. x # 0 /\ x \in TemplateIds \cup {0}
  BY TemplateBoundAssumption DEF TemplateIds
<1>3. (change.isDefault = "yes") \in BOOLEAN
  OBVIOUS
<1>4. /\ h \in Editor /\ h.id = x /\ h.id # 0 /\ h.to = change
      /\ h.isDefault = (change.isDefault = "yes")
      /\ h.at = IF change.isDefault = "yes" THEN "clear" ELSE "write"
  BY <1>1, <1>2, <1>3 DEF NotEditing, Editor, KeepAll, Seeds
<1>5. editor' = [editor EXCEPT ![e] = h] /\ UNCHANGED <<templates, made, disputed>>
  BY DEF UpdateTemplate, BeginEdit
<1> HIDE DEF h, type
<1> QED BY <1>4, <1>5, QuietStep

LEMMA SeedingIsTyped ==
    ASSUME NEW k \in Seeds
    PROVE  /\ [NotEditing EXCEPT !.at = "seek", !.name = k] \in Editor
           /\ [NotEditing EXCEPT !.at = "seek", !.name = k].at = "seek"
           /\ [NotEditing EXCEPT !.at = "seek", !.name = k].name = k
BY DEF NotEditing, Editor, KeepAll, TemplateChanges, Types, Seeds, TemplateIds

LEMMA NextSeedIsQuiet ==
    ASSUME TemplatesInv, NEW e \in Editors, NEW k, NextSeed(e, k),
           UNCHANGED <<templates, made, disputed>>
    PROVE  TemplatesInv'
<1>1. CASE k \in Seeds
  BY <1>1, SeedingIsTyped, QuietStep DEF NextSeed
<1>2. CASE k \notin Seeds
  BY <1>2, EndIsQuiet DEF NextSeed
<1> QED BY <1>1, <1>2

LEMMA SeekKeeps ==
    ASSUME TemplatesInv, NEW e \in Editors, Seek(e)
    PROVE  TemplatesInv'
<1> DEFINE k == editor[e].name
           seed == DefaultTemplates[k]
           h == [NotEditing EXCEPT !.at = IF seed.isDefault THEN "clear" ELSE "insert",
                                   !.name = k, !.type = seed.type, !.isDefault = seed.isDefault]
<1>1. k \in Seeds /\ UNCHANGED <<templates, made, disputed>>
  BY DEF Seek, TemplatesInv, EditorsOK
<1>2. CASE NextSeed(e, k + 1)
  BY <1>1, <1>2, NextSeedIsQuiet
<1>3. CASE editor' = [editor EXCEPT ![e] = h]
  <2>1. seed.type \in Types /\ seed.isDefault \in BOOLEAN
    BY <1>1, SeedsAreTyped
  <2> HIDE DEF seed, k
  <2>2. /\ h \in Editor /\ h.id = 0 /\ h.isDefault = seed.isDefault
        /\ h.at = IF seed.isDefault THEN "clear" ELSE "insert"
    BY <1>1, <2>1 DEF NotEditing, Editor, KeepAll, TemplateChanges, Types, Seeds, TemplateIds
  <2> HIDE DEF h
  <2> QED BY <1>1, <1>3, <2>1, <2>2, QuietStep
<1> QED BY <1>2, <1>3 DEF Seek

\* Taking the mark from the others leaves at most the template to be written.
LEMMA ClearDefaultsKeeps ==
    ASSUME TemplatesInv, NEW e \in Editors, ClearDefaults(e)
    PROVE  TemplatesInv'
<1> DEFINE h == editor[e]
           next == IF h.id = 0 THEN "insert" ELSE "write"
<1>1. /\ h \in Editor /\ h.at = "clear" /\ h.isDefault /\ h.type \in Types
      /\ editor' = [editor EXCEPT ![e].at = next] /\ made' = made
      /\ disputed' = IF AboutToSet(h.type) = {} THEN disputed \ {h.type} ELSE disputed \cup {h.type}
  BY DEF ClearDefaults, TemplatesInv, TemplatesTypeOK, EditorsOK, Editor
<1>2. \A x \in TemplateIds :
         templates'[x] = IF x \in Defaults(h.type) \ {h.id}
                         THEN [templates[x] EXCEPT !.isDefault = FALSE] ELSE templates[x]
  BY DEF ClearDefaults
<1>3. \A x \in Live : templates[x] \in Template
  BY DEF Live, TemplatesInv, TemplatesTypeOK
<1>4. \A row \in Template : [row EXCEPT !.isDefault = FALSE] \in Template
  BY DEF Template
<1>5. TemplatesTypeOK'
  <2>1. templates' \in [TemplateIds -> Template \cup {NoTemplate}]
    BY <1>2, <1>3, <1>4 DEF ClearDefaults, Defaults, TemplatesInv, TemplatesTypeOK
  <2>2. editor' \in [Editors -> Editor]
    BY <1>1 DEF TemplatesInv, TemplatesTypeOK, Editor
  <2> QED BY <1>1, <2>1, <2>2 DEF TemplatesInv, TemplatesTypeOK
<1>6. /\ editor'[e].at = next /\ editor'[e].id = h.id /\ editor'[e].type = h.type
      /\ editor'[e].isDefault = h.isDefault /\ editor'[e].to = h.to
      /\ \A f \in Editors \ {e} : editor'[f] = editor[f]
  BY <1>1 DEF TemplatesInv, TemplatesTypeOK, Editor
<1>7. EditorsOK' /\ UnmadeAbsent'
  <2>1. EditorsOK'
    BY <1>1, <1>6 DEF TemplatesInv, EditorsOK
  <2>2. \A x \in TemplateIds : templates[x] = NoTemplate => templates'[x] = NoTemplate
    BY <1>2 DEF Defaults, Live
  <2> QED BY <1>1, <2>1, <2>2 DEF TemplatesInv, UnmadeAbsent
<1>8. \A x \in TemplateIds, type \in Types : x \in Defaults(type)' =>
         x \in Defaults(type) /\ (type = h.type => x = h.id)
  BY <1>2, <1>3, <1>4, NoTemplateIsNone DEF Defaults, Live, Template
<1>9. \A f \in Editors \ {e}, type \in Types : Sets(f, type)' <=> Sets(f, type)
  BY <1>6 DEF Sets
<1>10. \A type \in Types : Sets(e, type)' => type = h.type
  BY <1>6 DEF Sets
<1>11. \A f \in Editors : Sets(f, h.type) => h.type \in disputed'
  BY <1>1 DEF Sets, AboutToSet
<1>12. \A type \in Types \ {h.type} : type \in disputed' <=> type \in disputed
  BY <1>1
<1> HIDE DEF h
<1>13. Prepared'
  <2>1. ASSUME NEW f \in Editors, NEW type \in Types \ disputed', Sets(f, type)',
               NEW x \in Defaults(type)'
        PROVE  x = editor'[f].id
    <3>1. x \in TemplateIds
      BY <2>1 DEF Defaults, Live
    <3>2. CASE f = e
      <4>1. type = h.type
        BY <1>6, <2>1, <3>2 DEF Sets
      <4> QED BY <1>6, <1>8, <2>1, <3>1, <3>2, <4>1
    <3>3. CASE f # e
      <4>1. Sets(f, type)
        BY <1>9, <2>1, <3>3
      <4>2. x \in Defaults(type) /\ type \notin disputed
        BY <1>8, <1>11, <1>12, <2>1, <3>1, <4>1
      <4> QED BY <1>6, <2>1, <3>3, <4>1, <4>2 DEF TemplatesInv, Prepared
    <3> QED BY <3>2, <3>3
  <2> QED BY <2>1 DEF Prepared
<1>14. SettersDispute'
  BY <1>9, <1>10, <1>11, <1>12 DEF TemplatesInv, SettersDispute
<1>15. OneDefault'
  <2>1. ASSUME NEW type \in Types \ disputed', NEW x \in Defaults(type)', NEW y \in Defaults(type)'
        PROVE  x = y
    <3>1. x \in TemplateIds /\ y \in TemplateIds
      BY <2>1 DEF Defaults, Live
    <3>2. /\ x \in Defaults(type) /\ y \in Defaults(type)
          /\ type = h.type => x = h.id /\ y = h.id
      BY <1>8, <2>1, <3>1
    <3> QED BY <1>12, <2>1, <3>2 DEF TemplatesInv, OneDefault
  <2> QED BY <2>1 DEF OneDefault
<1> QED BY <1>5, <1>7, <1>13, <1>14, <1>15 DEF TemplatesInv

\* A new template: a default finds no other one of its type.
LEMMA InsertKeeps ==
    ASSUME TemplatesInv, NEW e \in Editors, Insert(e)
    PROVE  TemplatesInv'
<1> DEFINE h == editor[e]
           row == [name |-> h.name, type |-> h.type, isDefault |-> h.isDefault]
           n == made + 1
<1>1. /\ h \in Editor /\ h.at = "insert" /\ h.id = 0 /\ h.type \in Types
      /\ made' = n /\ disputed' = disputed /\ n \in TemplateIds
      /\ templates' = [templates EXCEPT ![n] = row] /\ row \in Template
  BY TemplateBoundAssumption
     DEF Insert, TemplatesInv, TemplatesTypeOK, EditorsOK, Editor, Template, TemplateIds
<1>2. templates[n] = NoTemplate
  BY <1>1, TemplateBoundAssumption DEF TemplatesInv, UnmadeAbsent, TemplatesTypeOK
<1>3. PICK k \in Int : NextSeed(e, k)
  BY <1>1 DEF Insert, Editor, Seeds
<1>4. PICK g \in Editor :
        /\ editor' = [editor EXCEPT ![e] = g]
        /\ g.at \in {"idle", "seek"} /\ (g.at = "seek" => g.name \in Seeds)
  <2>1. CASE k \in Seeds
    BY <1>3, <2>1, SeedingIsTyped DEF NextSeed
  <2>2. CASE k \notin Seeds
    <3>1. NotEditing \in Editor /\ NotEditing.at = "idle"
      BY DEF NotEditing, Editor, KeepAll, TemplateChanges, Types, Seeds, TemplateIds
    <3> QED BY <1>3, <2>2, <3>1 DEF NextSeed, EndEdit
  <2> QED BY <2>1, <2>2
<1>5. editor'[e] = g /\ \A f \in Editors \ {e} : editor'[f] = editor[f]
  BY <1>4 DEF TemplatesInv, TemplatesTypeOK
<1> HIDE DEF row, n
<1>6. TemplatesTypeOK'
  BY <1>1, <1>4, TemplateBoundAssumption DEF TemplatesInv, TemplatesTypeOK, TemplateIds
<1>7. EditorsOK' /\ UnmadeAbsent'
  <2>1. EditorsOK'
    BY <1>4, <1>5 DEF TemplatesInv, EditorsOK
  <2>2. UnmadeAbsent'
    BY <1>1, TemplateBoundAssumption DEF TemplatesInv, TemplatesTypeOK, UnmadeAbsent, TemplateIds, n
  <2> QED BY <2>1, <2>2
<1>8. \A type \in Types, f \in Editors : Sets(f, type)' => f # e /\ Sets(f, type)
  BY <1>4, <1>5 DEF Sets
<1>9. \A x \in TemplateIds : templates'[x] = IF x = n THEN row ELSE templates[x]
  BY <1>1 DEF TemplatesInv, TemplatesTypeOK
<1>10. \A type \in Types, x \in TemplateIds :
         x \in Defaults(type)' <=> \/ x \in Defaults(type)
                                   \/ x = n /\ Sets(e, type)
  <2>1. row # NoTemplate
    BY <1>1, NoTemplateIsNone
  <2> QED BY <1>1, <1>2, <1>9, <2>1 DEF Defaults, Live, Sets, row
<1>11. \A type \in Types \ disputed : Sets(e, type) => Defaults(type) = {}
  <2>1. ASSUME NEW type \in Types \ disputed, Sets(e, type), NEW x \in Defaults(type)
        PROVE  FALSE
    <3>1. x = 0
      BY <1>1, <2>1 DEF TemplatesInv, Prepared
    <3>2. x \in 1..MaxTemplates
      BY <2>1 DEF Defaults, Live, TemplateIds
    <3> QED BY <3>1, <3>2, TemplateBoundAssumption
  <2> QED BY <2>1
<1>12. Prepared'
  <2>1. ASSUME NEW f \in Editors, NEW type \in Types \ disputed', Sets(f, type)',
               NEW x \in Defaults(type)'
        PROVE  x = editor'[f].id
    <3>1. x \in TemplateIds
      BY <2>1 DEF Defaults, Live
    <3>2. f # e /\ Sets(f, type) /\ type \notin disputed
      BY <1>1, <1>8, <2>1
    <3>3. ~Sets(e, type)
      BY <3>2 DEF TemplatesInv, SettersDispute
    <3>4. x \in Defaults(type)
      BY <1>10, <2>1, <3>1, <3>3
    <3> QED BY <1>5, <3>2, <3>4 DEF TemplatesInv, Prepared
  <2> QED BY <2>1 DEF Prepared
<1>13. SettersDispute'
  BY <1>1, <1>8 DEF TemplatesInv, SettersDispute
<1>14. OneDefault'
  <2>1. ASSUME NEW type \in Types \ disputed', NEW x \in Defaults(type)', NEW y \in Defaults(type)'
        PROVE  x = y
    <3>1. x \in TemplateIds /\ y \in TemplateIds /\ type \in Types \ disputed
      BY <1>1, <2>1 DEF Defaults, Live
    <3>2. CASE Sets(e, type)
      BY <1>10, <1>11, <2>1, <3>1, <3>2
    <3>3. CASE ~Sets(e, type)
      BY <1>10, <2>1, <3>1, <3>3 DEF TemplatesInv, OneDefault
    <3> QED BY <3>2, <3>3
  <2> QED BY <2>1 DEF OneDefault
<1> QED BY <1>6, <1>7, <1>12, <1>13, <1>14 DEF TemplatesInv

\* An update: the template becomes a default of a type it prepared, keeps being one,
\* or disputes the type.
LEMMA WriteKeeps ==
    ASSUME TemplatesInv, NEW e \in Editors, Write(e)
    PROVE  TemplatesInv'
<1> DEFINE h == editor[e]
           id == h.id
           row == templates[h.id]
           new == Changed(templates[h.id], h.to)
<1>1. /\ h \in Editor /\ h.at = "write" /\ id # 0 /\ h.to \in TemplateChanges /\ h.type \in Types
      /\ h.isDefault <=> h.to.isDefault = "yes"
      /\ EndEdit(e) /\ made' = made
  BY DEF Write, TemplatesInv, TemplatesTypeOK, EditorsOK, Editor
<1>2. CASE id \notin Live
  BY <1>1, <1>2, EndIsQuiet DEF Write
<1>3. CASE id \in Live
  <2>1. /\ templates' = [templates EXCEPT ![id] = new]
        /\ disputed' = IF Unprepared(h, row, new) THEN disputed \cup {new.type} ELSE disputed
        /\ id \in TemplateIds /\ row \in Template
    BY <1>3 DEF Write, Live, TemplatesInv, TemplatesTypeOK
  <2>2. /\ new \in Template
        /\ new.isDefault /\ ~h.isDefault => row.isDefault
    BY <1>1, <2>1 DEF Changed, Template, TemplateChanges, Seeds
  <2>3. /\ editor' = [editor EXCEPT ![e] = NotEditing]
        /\ NotEditing \in Editor /\ NotEditing.at = "idle"
    BY <1>1 DEF EndEdit, NotEditing, Editor, KeepAll, TemplateChanges, Types, Seeds, TemplateIds
  <2>4. editor'[e] = NotEditing /\ \A f \in Editors \ {e} : editor'[f] = editor[f]
    BY <2>3 DEF TemplatesInv, TemplatesTypeOK
  <2>5. \A type \in Types, f \in Editors : Sets(f, type)' => f # e /\ Sets(f, type)
    BY <2>3, <2>4 DEF Sets
  <2>6. new.type \in Types
    BY <2>2 DEF Template
  <2>7. new.isDefault /\ new.type \notin disputed' =>
           (h.isDefault /\ Sets(e, new.type)) \/ (~h.isDefault /\ id \in Defaults(new.type))
    <3>1. new.isDefault /\ new.type \notin disputed' =>
             IF h.isDefault THEN h.type = new.type ELSE row.type = new.type
      BY <2>1 DEF Unprepared
    <3> QED BY <1>1, <1>3, <2>2, <3>1 DEF Sets, Defaults
  <2> HIDE DEF new, h, id, row
  <2>8. \A x \in TemplateIds : templates'[x] = IF x = id THEN new ELSE templates[x]
    BY <2>1 DEF TemplatesInv, TemplatesTypeOK
  <2>9. \A type \in Types, x \in TemplateIds : x \in Defaults(type)' =>
           \/ x # id /\ x \in Defaults(type)
           \/ x = id /\ new.isDefault /\ new.type = type
    BY <2>8 DEF Defaults, Live
  <2>10. disputed \subseteq disputed'
    BY <2>1
  <2>11. TemplatesTypeOK'
    BY <1>1, <2>1, <2>2, <2>3, <2>6 DEF TemplatesInv, TemplatesTypeOK
  <2>12. EditorsOK' /\ UnmadeAbsent'
    <3>1. EditorsOK'
      BY <2>3, <2>4 DEF TemplatesInv, EditorsOK
    <3>2. UnmadeAbsent'
      BY <1>1, <1>3, <2>8 DEF TemplatesInv, UnmadeAbsent, Live
    <3> QED BY <3>1, <3>2
  \* What a type not in dispute has for defaults: what it had, or the one prepared.
  <2>13. ASSUME NEW type \in Types \ disputed', NEW x \in Defaults(type)'
         PROVE  x \in Defaults(type) \/ (x = id /\ Sets(e, type))
    <3>1. x \in TemplateIds
      BY <2>13 DEF Defaults, Live
    <3> QED BY <2>7, <2>9, <2>13, <3>1
  <2>14. Prepared'
    <3>1. ASSUME NEW f \in Editors, NEW type \in Types \ disputed', Sets(f, type)',
                 NEW x \in Defaults(type)'
          PROVE  x = editor'[f].id
      <4>1. f # e /\ Sets(f, type) /\ type \notin disputed
        BY <2>5, <2>10, <3>1
      <4>2. ~Sets(e, type)
        BY <4>1 DEF TemplatesInv, SettersDispute
      <4>3. x \in Defaults(type)
        BY <2>13, <3>1, <4>2
      <4> QED BY <2>4, <4>1, <4>3 DEF TemplatesInv, Prepared
    <3> QED BY <3>1 DEF Prepared
  <2>15. SettersDispute'
    BY <2>5, <2>10 DEF TemplatesInv, SettersDispute
  <2>16. OneDefault'
    <3>1. ASSUME NEW type \in Types \ disputed', NEW x \in Defaults(type)', NEW y \in Defaults(type)'
          PROVE  x = y
      <4>1. /\ x \in Defaults(type) \/ (x = id /\ Sets(e, type))
            /\ y \in Defaults(type) \/ (y = id /\ Sets(e, type))
            /\ type \in Types \ disputed
        BY <2>10, <2>13, <3>1
      <4>2. CASE Sets(e, type)
        BY <4>1, <4>2 DEF TemplatesInv, Prepared, id, h
      <4>3. CASE ~Sets(e, type)
        BY <4>1, <4>3 DEF TemplatesInv, OneDefault
      <4> QED BY <4>2, <4>3
    <3> QED BY <3>1 DEF OneDefault
  <2> QED BY <2>11, <2>12, <2>14, <2>15, <2>16 DEF TemplatesInv
<1> QED BY <1>2, <1>3

LEMMA RemoveTemplateKeeps ==
    ASSUME TemplatesInv, NEW x \in TemplateIds, RemoveTemplate(x)
    PROVE  TemplatesInv'
<1>1. \A y \in TemplateIds : templates'[y] = IF y = x THEN NoTemplate ELSE templates[y]
  BY DEF RemoveTemplate, TemplatesInv, TemplatesTypeOK
<1>2. UNCHANGED <<made, editor, disputed>>
  BY DEF RemoveTemplate
<1>3. \A type \in Types : Defaults(type)' \subseteq Defaults(type)
  BY <1>1 DEF Defaults, Live
<1>4. \A e \in Editors, type \in Types : Sets(e, type)' <=> Sets(e, type)
  BY <1>2 DEF Sets
<1>5. TemplatesTypeOK' /\ EditorsOK' /\ UnmadeAbsent'
  BY <1>1, <1>2 DEF RemoveTemplate, TemplatesInv, TemplatesTypeOK, EditorsOK, UnmadeAbsent
<1>6. Prepared' /\ SettersDispute' /\ OneDefault'
  BY <1>2, <1>3, <1>4 DEF TemplatesInv, Prepared, SettersDispute, OneDefault
<1> QED BY <1>5, <1>6 DEF TemplatesInv

THEOREM TemplatesInvariant == TemplatesSpec => []TemplatesInv
<1>1. TemplatesInit => TemplatesInv
  <2> SUFFICES ASSUME TemplatesInit PROVE TemplatesInv
    OBVIOUS
  <2>1. NotEditing \in Editor /\ NotEditing.at = "idle"
    BY DEF NotEditing, Editor, KeepAll, TemplateChanges, Types, Seeds, TemplateIds
  <2>2. TemplatesTypeOK
    BY <2>1, TemplateBoundAssumption DEF TemplatesInit, TemplatesTypeOK
  <2>3. EditorsOK /\ UnmadeAbsent
    BY <2>1 DEF TemplatesInit, EditorsOK, UnmadeAbsent
  <2>4. Live = {} /\ ~\E e \in Editors : editor[e].at \in {"insert", "write"}
    BY <2>1 DEF TemplatesInit, Live
  <2> QED BY <2>2, <2>3, <2>4
          DEF TemplatesInv, Prepared, SettersDispute, OneDefault, Defaults, Sets
<1>2. TemplatesInv /\ [TemplatesNext]_templateVars => TemplatesInv'
  <2> SUFFICES ASSUME TemplatesInv, [TemplatesNext]_templateVars PROVE TemplatesInv'
    OBVIOUS
  <2>1. ASSUME NEW e \in Editors, NEW type \in Types, NEW isDefault \in BOOLEAN,
               CreateTemplate(e, type, isDefault)
        PROVE  TemplatesInv'
    BY <2>1, CreateTemplateKeeps
  <2>2. ASSUME NEW e \in Editors, NEW x \in TemplateIds, NEW change \in TemplateChanges,
               UpdateTemplate(e, x, change)
        PROVE  TemplatesInv'
    BY <2>2, UpdateTemplateKeeps
  <2>3. ASSUME NEW e \in Editors, SeedDefaults(e)
        PROVE  TemplatesInv'
    <3>1. 1 \in Seeds
      BY DEF Seeds
    <3> QED BY <2>3, <3>1, SeedingIsTyped, QuietStep DEF SeedDefaults, BeginEdit
  <2>4. ASSUME NEW e \in Editors, Seek(e) PROVE TemplatesInv'
    BY <2>4, SeekKeeps
  <2>5. ASSUME NEW e \in Editors, ClearDefaults(e) PROVE TemplatesInv'
    BY <2>5, ClearDefaultsKeeps
  <2>6. ASSUME NEW e \in Editors, Insert(e) PROVE TemplatesInv'
    BY <2>6, InsertKeeps
  <2>7. ASSUME NEW e \in Editors, Write(e) PROVE TemplatesInv'
    BY <2>7, WriteKeeps
  <2>8. ASSUME NEW e \in Editors, EditFails(e) PROVE TemplatesInv'
    BY <2>8, EndIsQuiet DEF EditFails
  <2>9. ASSUME NEW x \in TemplateIds, RemoveTemplate(x) PROVE TemplatesInv'
    BY <2>9, RemoveTemplateKeeps
  <2>10. CASE UNCHANGED templateVars
    BY <2>10 DEF templateVars, TemplatesInv, TemplatesTypeOK, EditorsOK, UnmadeAbsent, Prepared,
                 SettersDispute, OneDefault, Defaults, Live, Sets
  <2> QED BY <2>1, <2>2, <2>3, <2>4, <2>5, <2>6, <2>7, <2>8, <2>9, <2>10 DEF TemplatesNext
<1> QED BY <1>1, <1>2, PTL DEF TemplatesSpec

\* Templates, handlers and the types in dispute are well typed.
THEOREM TemplatesAreTyped == TemplatesSpec => []TemplatesTypeOK
<1>1. TemplatesInv => TemplatesTypeOK
  BY DEF TemplatesInv
<1> QED BY <1>1, TemplatesInvariant, PTL

\* A second default of a type has a cause, for any number of handlers and templates.
THEOREM SecondDefaultsHaveCauses == TemplatesSpec => []SecondDefaultHasCause
<1>1. TemplatesInv => SecondDefaultHasCause
  <2> SUFFICES ASSUME TemplatesInv, NEW x \in Live, NEW y \in Live,
                      templates[x].isDefault, templates[y].isDefault,
                      templates[x].type = templates[y].type, x # y
               PROVE  templates[x].type \in disputed
    BY DEF SecondDefaultHasCause
  <2>1. templates[x].type \in Types
    BY DEF TemplatesInv, TemplatesTypeOK, Live, Template
  <2> QED BY <2>1 DEF TemplatesInv, OneDefault, Defaults
<1> QED BY <1>1, TemplatesInvariant, PTL

-----------------------------------------------------------------------------
(* Permissions *)

\* The rows are those of the matrix saved last, or none before there is one, unless
\* saves overlapped.
GrantedAsSaved ==
    /\ saved = Unsaved => granted = {} /\ ~mingled
    /\ saved # Unsaved /\ ~mingled => granted = Sanitized(saved)

\* A transaction nobody committed under has seen, and deleted, the rows of now.
WriterOK(h) ==
    /\ h.at \in Writing => h.to = Sanitized(h.asked)
    /\ h.at \in {"lock", "insert", "commit"} /\ ~h.late => h.doomed = granted
    /\ h.at \in {"insert", "commit"} /\ ~h.late => h.gone = granted

\* A reader without an excuse has met one kind of company only: never configured, or
\* always with rows, those of the matrix saved last.
ReaderOK(h) ==
    h.at \in Inquiring =>
        /\ InForce(h.role) \in h.seen
        /\ "mingled" \notin h.why => ~mingled
        /\ "empty" \notin h.why => saved = Unsaved \/ Sanitized(saved) # {}
        /\ h.why = {} =>
              /\ h.at = "count" => saved = Unsaved \/ h.got \in h.seen
              /\ h.at = "list" => saved # Unsaved
              /\ h.at = "answer" => h.got \in h.seen

ClerkOK(h) == WriterOK(h) /\ ReaderOK(h)

MatrixInv ==
    /\ MatrixTypeOK
    /\ GrantedAsSaved
    /\ \A c \in Clerks : ClerkOK(clerk[c])

LEMMA FreeIsOK == Free \in Clerk /\ ClerkOK(Free)
<1>1. (CHOOSE role \in Roles : TRUE) \in Roles
  BY PermissionsAssumption
<1>2. [role \in Roles |-> {}] \in Matrix
  BY DEF Matrix
<1>3. Free \in Clerk
  BY <1>1, <1>2 DEF Free, Clerk, Rows
<1>4. Free.at = "idle"
  BY DEF Free
<1> QED BY <1>3, <1>4 DEF ClerkOK, WriterOK, ReaderOK, Writing, Inquiring

\* What the rows of a matrix say of a role is what the matrix says.
LEMMA RowsSayTheMatrix ==
    ASSUME NEW matrix \in [Roles -> SUBSET Editable], NEW role \in Roles
    PROVE  RowsOf(role, Sanitized(matrix)) = matrix[role]
BY DEF RowsOf, Sanitized, Rows

LEMMA LockedAreIgnored ==
    ASSUME NEW matrix \in Matrix
    PROVE  /\ [role \in Roles |-> matrix[role] \cap Editable] \in [Roles -> SUBSET Editable]
           /\ Sanitized([role \in Roles |-> matrix[role] \cap Editable]) = Sanitized(matrix)
           /\ Sanitized(matrix) \subseteq Rows
BY DEF Matrix, Sanitized, Rows

\* A statement that writes nothing disturbs nobody else.
LEMMA PrivateStep ==
    ASSUME MatrixInv, NEW c \in Clerks, NEW h \in Clerk, ClerkOK(h),
           clerk' = [clerk EXCEPT ![c] = h], UNCHANGED <<granted, saved, mingled>>
    PROVE  MatrixInv'
<1>1. MatrixTypeOK' /\ GrantedAsSaved'
  BY DEF MatrixInv, MatrixTypeOK, GrantedAsSaved, Sanitized
<1>2. \A d \in Clerks : ClerkOK(clerk'[d])
  BY DEF MatrixInv, MatrixTypeOK
<1>3. \A d \in Clerks : ClerkOK(clerk[d])'
  BY <1>2 DEF ClerkOK, WriterOK, ReaderOK, InForce, Sanitized
<1> QED BY <1>1, <1>3 DEF MatrixInv

LEMMA FinishKeeps ==
    ASSUME MatrixInv, NEW c \in Clerks, Finish(c), UNCHANGED <<granted, saved, mingled>>
    PROVE  MatrixInv'
BY FreeIsOK, PrivateStep DEF Finish

\* The excuses of a request that begins now.
LEMMA InquiryFacts ==
    ASSUME MatrixInv, NEW role \in Roles, NEW statement \in Inquiring,
           NEW h, h = Inquiry(role, statement)
    PROVE  /\ h \in Clerk /\ h.at = statement /\ h.role = role
           /\ h.seen = {InForce(role)}
           /\ "mingled" \notin h.why => ~mingled
           /\ "empty" \notin h.why => saved = Unsaved \/ Sanitized(saved) # {}
<1>1. InForce(role) \in SUBSET Editable
  BY PermissionsAssumption DEF InForce, MatrixInv, MatrixTypeOK
<1> DEFINE why == IF saved = Unsaved THEN {} ELSE ExcusesOf(Sanitized(saved), mingled)
<1>2. why \subseteq Excuses
  BY DEF ExcusesOf, Excuses
<1>3. /\ "mingled" \notin why => ~mingled
      /\ "empty" \notin why => saved = Unsaved \/ Sanitized(saved) # {}
  BY DEF ExcusesOf, MatrixInv, GrantedAsSaved, MatrixTypeOK
<1> HIDE DEF why
<1>4. h = [Free EXCEPT !.at = statement, !.role = role, !.seen = {InForce(role)}, !.why = why]
  BY DEF Inquiry, why
<1>5. /\ h.at = statement /\ h.role = role /\ h.seen = {InForce(role)} /\ h.why = why
  BY <1>4 DEF Free
<1>6. h \in Clerk
  <2>1. /\ {InForce(role)} \in SUBSET (SUBSET Editable)
        /\ statement \in {"idle"} \cup Writing \cup Inquiring
        /\ why \in SUBSET Excuses
    BY <1>1, <1>2
  <2>2. Free \in Clerk
    BY FreeIsOK
  <2> HIDE DEF Free
  <2> QED BY <1>4, <2>1, <2>2 DEF Clerk
<1> QED BY <1>3, <1>5, <1>6

\* What getUserPermissions and getMatrix read at once is the matrix saved last.
LEMMA RowsAreInForce ==
    ASSUME MatrixInv, NEW role \in Roles, saved # Unsaved, ~mingled
    PROVE  RowsOf(role, granted) = InForce(role)
<1>1. saved \in [Roles -> SUBSET Editable] /\ granted = Sanitized(saved)
  BY DEF MatrixInv, MatrixTypeOK, GrantedAsSaved
<1> QED BY <1>1, RowsSayTheMatrix DEF InForce

LEMMA ClerkFacts ==
    ASSUME MatrixInv, NEW c \in Clerks
    PROVE  clerk[c] \in Clerk /\ ClerkOK(clerk[c])
BY DEF MatrixInv, MatrixTypeOK

\* The statements of a transaction before its commit.
LEMMA WritesKeep ==
    ASSUME MatrixInv, NEW c \in Clerks,
           \/ \E matrix \in Matrix : SetMatrix(c, matrix)
           \/ DeleteRows(c) \/ LockRows(c) \/ InsertRows(c) \/ SaveFails(c)
    PROVE  MatrixInv'
<1> DEFINE h == clerk[c]
<1>1. h \in Clerk /\ ClerkOK(h) /\ granted \subseteq Rows
  BY ClerkFacts DEF MatrixInv, MatrixTypeOK
<1>2. ASSUME NEW matrix \in Matrix, SetMatrix(c, matrix)
      PROVE  MatrixInv'
  <2> DEFINE g == [Free EXCEPT !.at = "delete", !.to = Sanitized(matrix), !.asked = matrix]
  <2>1. clerk' = [clerk EXCEPT ![c] = g] /\ UNCHANGED <<granted, saved, mingled>>
    BY <1>2 DEF SetMatrix, Receive
  <2>2. g.at = "delete" /\ g.to = Sanitized(matrix) /\ g.asked = matrix
    BY DEF Free
  <2>3. Sanitized(matrix) \in SUBSET Rows /\ "delete" \in {"idle"} \cup Writing \cup Inquiring
    BY DEF Sanitized, Writing
  <2>4. Free \in Clerk
    BY FreeIsOK
  <2>5. g \in Clerk
    <3> HIDE DEF Free
    <3> QED BY <2>3, <2>4 DEF Clerk
  <2> HIDE DEF g
  <2>6. ClerkOK(g)
    BY <2>2 DEF ClerkOK, WriterOK, ReaderOK, Inquiring
  <2> QED BY <2>1, <2>5, <2>6, PrivateStep
<1>3. ASSUME DeleteRows(c)
      PROVE  MatrixInv'
  <2> DEFINE g == [h EXCEPT !.at = "lock", !.doomed = granted, !.late = FALSE]
  <2>1. clerk' = [clerk EXCEPT ![c] = g] /\ UNCHANGED <<granted, saved, mingled>> /\ h.at = "delete"
    BY <1>3 DEF DeleteRows
  <2>2. /\ g.at = "lock" /\ g.doomed = granted /\ g.to = h.to /\ g.asked = h.asked
        /\ g \in Clerk
    BY <1>1 DEF Clerk, Writing
  <2> HIDE DEF g
  <2>3. ClerkOK(g)
    BY <1>1, <2>1, <2>2 DEF ClerkOK, WriterOK, ReaderOK, Inquiring, Writing
  <2> QED BY <2>1, <2>2, <2>3, PrivateStep
<1>4. ASSUME LockRows(c)
      PROVE  MatrixInv'
  <2> DEFINE g == [h EXCEPT !.at = IF h.to = {} THEN "commit" ELSE "insert",
                            !.gone = h.doomed \cap granted]
  <2>1. clerk' = [clerk EXCEPT ![c] = g] /\ UNCHANGED <<granted, saved, mingled>> /\ h.at = "lock"
    BY <1>4 DEF LockRows
  <2>2. /\ g.at \in {"insert", "commit"} /\ g.gone = h.doomed \cap granted
        /\ g.doomed = h.doomed /\ g.to = h.to /\ g.asked = h.asked /\ g.late = h.late
        /\ g \in Clerk
    BY <1>1 DEF Clerk, Writing
  <2> HIDE DEF g
  <2>3. ClerkOK(g)
    BY <1>1, <2>1, <2>2 DEF ClerkOK, WriterOK, ReaderOK, Inquiring, Writing
  <2> QED BY <2>1, <2>2, <2>3, PrivateStep
<1>5. ASSUME InsertRows(c)
      PROVE  MatrixInv'
  <2>1. h.at = "insert" /\ UNCHANGED <<granted, saved, mingled>>
    BY <1>5 DEF InsertRows
  <2>2. Finish(c) \/ clerk' = [clerk EXCEPT ![c] = [h EXCEPT !.at = "commit"]]
    BY <1>5 DEF InsertRows
  <2>3. ASSUME NEW g, g = [h EXCEPT !.at = "commit"]
        PROVE  g \in Clerk /\ ClerkOK(g)
    <3>1. /\ g.at = "commit" /\ g.to = h.to /\ g.asked = h.asked /\ g.doomed = h.doomed
          /\ g.gone = h.gone /\ g.late = h.late
          /\ g \in Clerk
      BY <1>1, <2>3 DEF Clerk, Writing
    <3> QED BY <1>1, <2>1, <3>1 DEF ClerkOK, WriterOK, ReaderOK, Inquiring, Writing
  <2> QED BY <2>1, <2>2, <2>3, FinishKeeps, PrivateStep
<1>6. SaveFails(c) => MatrixInv'
  BY FinishKeeps DEF SaveFails
<1> QED BY <1>2, <1>3, <1>4, <1>5, <1>6

\* The queries of a request that reads the matrix.
LEMMA ReadsKeep ==
    ASSUME MatrixInv, NEW c \in Clerks,
           Inquire(c) \/ CountRows(c) \/ ListRows(c) \/ Answer(c)
    PROVE  MatrixInv'
<1> DEFINE h == clerk[c]
<1>1. h \in Clerk /\ ClerkOK(h) /\ h.role \in Roles
  BY ClerkFacts DEF Clerk
<1>2. \A role \in Roles : RowsOf(role, granted) \in SUBSET Editable
  BY DEF RowsOf
<1>3. \A role \in Roles : DefaultPermissions[role] \in SUBSET Editable
  BY PermissionsAssumption
\* No rows and no excuse: the company was never configured.
<1>4. granted = {} /\ ~mingled /\ (saved = Unsaved \/ Sanitized(saved) # {}) => saved = Unsaved
  BY DEF MatrixInv, GrantedAsSaved
<1>5. granted # {} => saved # Unsaved
  BY DEF MatrixInv, GrantedAsSaved
<1>6. ASSUME NEW role \in Roles, ReadRows(c, role)
      PROVE  MatrixInv'
  <2> DEFINE i == Inquiry(role, "count")
             g == [i EXCEPT !.got = RowsOf(role, granted)]
  <2>1. clerk' = [clerk EXCEPT ![c] = g] /\ UNCHANGED <<granted, saved, mingled>>
    BY <1>6 DEF ReadRows, Receive
  <2>2. /\ g \in Clerk /\ g.at = "count" /\ g.got = RowsOf(role, granted) /\ g.role = role
        /\ g.seen = {InForce(role)}
        /\ "mingled" \notin g.why => ~mingled
        /\ "empty" \notin g.why => saved = Unsaved \/ Sanitized(saved) # {}
    <3>1. "count" \in Inquiring
      BY DEF Inquiring
    <3> HIDE DEF i
    <3>2. /\ i \in Clerk /\ i.at = "count" /\ i.role = role /\ i.seen = {InForce(role)}
          /\ "mingled" \notin i.why => ~mingled
          /\ "empty" \notin i.why => saved = Unsaved \/ Sanitized(saved) # {}
      BY <3>1, InquiryFacts DEF i
    <3> QED BY <1>2, <3>2 DEF Clerk
  <2> HIDE DEF g
  <2>3. ClerkOK(g)
    BY <2>2, RowsAreInForce DEF ClerkOK, WriterOK, ReaderOK, Writing
  <2> QED BY <2>1, <2>2, <2>3, PrivateStep
<1>7. ASSUME NEW role \in Roles, GetMatrix(c, role), granted = {}
      PROVE  MatrixInv'
  <2> DEFINE i == Inquiry(role, "answer")
             g == [i EXCEPT !.got = DefaultPermissions[role]]
  <2>1. clerk' = [clerk EXCEPT ![c] = g] /\ UNCHANGED <<granted, saved, mingled>>
    BY <1>7 DEF GetMatrix, Receive
  <2>2. /\ g \in Clerk /\ g.at = "answer" /\ g.got = DefaultPermissions[role] /\ g.role = role
        /\ g.seen = {InForce(role)}
        /\ "mingled" \notin g.why => ~mingled
        /\ "empty" \notin g.why => saved = Unsaved \/ Sanitized(saved) # {}
    <3>1. "answer" \in Inquiring
      BY DEF Inquiring
    <3> HIDE DEF i
    <3>2. /\ i \in Clerk /\ i.at = "answer" /\ i.role = role /\ i.seen = {InForce(role)}
          /\ "mingled" \notin i.why => ~mingled
          /\ "empty" \notin i.why => saved = Unsaved \/ Sanitized(saved) # {}
      BY <3>1, InquiryFacts DEF i
    <3> QED BY <1>3, <3>2 DEF Clerk
  <2> HIDE DEF g
  <2>3. ClerkOK(g)
    BY <1>4, <1>7, <2>2 DEF ClerkOK, WriterOK, ReaderOK, Writing, InForce
  <2> QED BY <2>1, <2>2, <2>3, PrivateStep
<1>8. ASSUME NEW role \in Roles, GetMatrix(c, role), granted # {}
      PROVE  MatrixInv'
  <2> DEFINE g == Inquiry(role, "list")
  <2>1. clerk' = [clerk EXCEPT ![c] = g] /\ UNCHANGED <<granted, saved, mingled>>
    BY <1>8 DEF GetMatrix, Receive
  <2>2. "list" \in Inquiring
    BY DEF Inquiring
  <2> HIDE DEF g
  <2>3. /\ g \in Clerk /\ g.at = "list" /\ g.role = role
        /\ g.seen = {InForce(role)}
        /\ "mingled" \notin g.why => ~mingled
        /\ "empty" \notin g.why => saved = Unsaved \/ Sanitized(saved) # {}
    BY <2>2, InquiryFacts DEF g
  <2>4. ClerkOK(g)
    BY <1>5, <1>8, <2>3 DEF ClerkOK, WriterOK, ReaderOK, Writing
  <2> QED BY <2>1, <2>3, <2>4, PrivateStep
<1>9. ASSUME CountRows(c)
      PROVE  MatrixInv'
  <2> DEFINE got == IF granted = {} THEN DefaultPermissions[h.role] ELSE h.got
             g == [h EXCEPT !.at = "answer", !.got = got]
  <2>1. clerk' = [clerk EXCEPT ![c] = g] /\ UNCHANGED <<granted, saved, mingled>> /\ h.at = "count"
    BY <1>9 DEF CountRows
  <2>2. got \in SUBSET Editable
    BY <1>1, <1>3 DEF Clerk
  <2>3. h.why = {} => got \in h.seen
    BY <1>1, <1>4, <1>5, <2>1 DEF ClerkOK, ReaderOK, InForce, Inquiring
  <2> HIDE DEF got
  <2>4. /\ g.at = "answer" /\ g.got = got /\ g.role = h.role /\ g.seen = h.seen /\ g.why = h.why
        /\ g \in Clerk
    BY <1>1, <2>2 DEF Clerk, Inquiring
  <2> HIDE DEF g
  <2>5. ClerkOK(g)
    BY <1>1, <2>1, <2>3, <2>4 DEF ClerkOK, WriterOK, ReaderOK, Writing, Inquiring
  <2> QED BY <2>1, <2>4, <2>5, PrivateStep
<1>10. ASSUME ListRows(c)
       PROVE  MatrixInv'
  <2> DEFINE g == [h EXCEPT !.at = "answer", !.got = RowsOf(h.role, granted)]
  <2>1. clerk' = [clerk EXCEPT ![c] = g] /\ UNCHANGED <<granted, saved, mingled>> /\ h.at = "list"
    BY <1>10 DEF ListRows
  <2>2. /\ g.at = "answer" /\ g.got = RowsOf(h.role, granted) /\ g.role = h.role
        /\ g.seen = h.seen /\ g.why = h.why
        /\ g \in Clerk
    BY <1>1, <1>2 DEF Clerk, Inquiring
  <2> HIDE DEF g
  <2>3. h.why = {} => RowsOf(h.role, granted) \in h.seen
    BY <1>1, <2>1, RowsAreInForce DEF ClerkOK, ReaderOK, Inquiring
  <2>4. ClerkOK(g)
    BY <1>1, <2>1, <2>2, <2>3 DEF ClerkOK, WriterOK, ReaderOK, Writing, Inquiring
  <2> QED BY <2>1, <2>2, <2>4, PrivateStep
<1>11. Answer(c) => MatrixInv'
  BY FinishKeeps DEF Answer
<1> QED BY <1>6, <1>7, <1>8, <1>9, <1>10, <1>11 DEF Inquire

\* A commit puts its matrix in force, and tells every transaction and reader there is.
LEMMA CommitKeeps ==
    ASSUME MatrixInv, NEW c \in Clerks, Commit(c)
    PROVE  MatrixInv'
<1> DEFINE h == clerk[c]
<1>1. /\ h \in Clerk /\ ClerkOK(h) /\ h.at = "commit"
      /\ granted' = (granted \ h.gone) \cup h.to
      /\ saved' = [role \in Roles |-> h.asked[role] \cap Editable]
      /\ mingled' = h.late
      /\ clerk' = [d \in Clerks |-> IF d = c THEN Free ELSE Meanwhile(clerk[d], h)]
  BY ClerkFacts DEF Commit
<1>2. h.asked \in Matrix /\ h.late \in BOOLEAN /\ h.to = Sanitized(h.asked)
  BY <1>1 DEF Clerk, ClerkOK, WriterOK, Writing
<1>3. /\ saved' \in [Roles -> SUBSET Editable] /\ saved' # Unsaved
      /\ Sanitized(saved') = h.to /\ h.to \subseteq Rows
  BY <1>1, <1>2, LockedAreIgnored, PermissionsAssumption
<1>4. ~h.late => granted' = h.to
  BY <1>1 DEF ClerkOK, WriterOK, Writing
<1>5. GrantedAsSaved'
  BY <1>1, <1>3, <1>4 DEF GrantedAsSaved, Sanitized
<1>6. granted # {} => saved # Unsaved
  BY DEF MatrixInv, GrantedAsSaved
<1>7. ASSUME NEW d \in Clerks, d # c, clerk[d].at \in Inquiring
      PROVE  clerk'[d] \in Clerk /\ ClerkOK(clerk[d])'
  <2> DEFINE g == clerk[d]
             more == ExcusesOf(h.to, h.late) \cup IF granted = {} THEN {"first"} ELSE {}
             now == h.asked[g.role] \cap Editable
             new == [g EXCEPT !.seen = @ \cup {now}, !.why = @ \cup more]
  <2>1. clerk'[d] = new
    BY <1>1, <1>7 DEF Meanwhile
  <2>2. g \in Clerk /\ ClerkOK(g) /\ g.role \in Roles
    BY ClerkFacts DEF Clerk
  <2>3. /\ more \subseteq Excuses
        /\ "mingled" \notin more => ~h.late
        /\ "empty" \notin more => h.to # {}
        /\ "first" \notin more => granted # {}
    BY DEF ExcusesOf, Excuses
  <2>4. now \in SUBSET Editable /\ now = saved'[g.role]
    BY <1>1, <2>2
  <2> HIDE DEF more, now
  <2>5. /\ new.at = g.at /\ new.got = g.got /\ new.role = g.role
        /\ new.seen = g.seen \cup {now} /\ new.why = g.why \cup more
        /\ new \in Clerk
    BY <2>2, <2>3, <2>4 DEF Clerk
  <2> HIDE DEF new
  <2>6. WriterOK(clerk[d])'
    BY <1>7, <2>1, <2>5 DEF WriterOK, Writing, Inquiring
  <2>7. ReaderOK(clerk[d])'
    <3>1. \A role : InForce(role)' = saved'[role]
      BY <1>3 DEF InForce
    <3>2. new.why = {} => granted # {} /\ g.why = {}
      BY <2>3, <2>5
    <3>3. new.why = {} =>
             /\ g.at = "count" => g.got \in g.seen
             /\ g.at = "answer" => g.got \in g.seen
      BY <1>6, <1>7, <2>2, <3>2 DEF ClerkOK, ReaderOK
    <3>4. /\ "mingled" \notin new.why => ~mingled'
          /\ "empty" \notin new.why => Sanitized(saved)' # {}
      BY <1>1, <1>3, <2>3, <2>5 DEF Sanitized
    <3>5. clerk'[d].role = g.role /\ InForce(clerk[d].role)' = now
      BY <2>1, <2>4, <2>5, <3>1
    <3> QED BY <1>3, <2>1, <2>5, <3>3, <3>4, <3>5 DEF ReaderOK
  <2> QED BY <2>1, <2>5, <2>6, <2>7 DEF ClerkOK
<1>8. ASSUME NEW d \in Clerks, d # c, clerk[d].at \notin Inquiring
      PROVE  clerk'[d] \in Clerk /\ ClerkOK(clerk[d])'
  <2>1. clerk[d] \in Clerk /\ ClerkOK(clerk[d])
    BY ClerkFacts
  <2>2. /\ clerk'[d].at = clerk[d].at /\ clerk'[d].to = clerk[d].to
        /\ clerk'[d].asked = clerk[d].asked
        /\ clerk[d].at \in Writing => clerk'[d].late
        /\ clerk'[d] \in Clerk
    BY <1>1, <1>8, <2>1 DEF Meanwhile, Clerk
  <2>3. Sanitized(clerk[d].asked)' = Sanitized(clerk[d].asked)
    BY <2>2 DEF Sanitized
  <2> QED BY <1>8, <2>1, <2>2, <2>3 DEF ClerkOK, WriterOK, ReaderOK, Writing
<1>9. clerk'[c] \in Clerk /\ ClerkOK(clerk[c])'
  <2>1. clerk'[c] = Free /\ Free \in Clerk
    BY <1>1, FreeIsOK
  <2>2. Free.at = "idle"
    BY DEF Free
  <2> QED BY <2>1, <2>2 DEF ClerkOK, WriterOK, ReaderOK, Writing, Inquiring
<1>10. \A d \in Clerks : clerk'[d] \in Clerk /\ ClerkOK(clerk[d])'
  BY <1>7, <1>8, <1>9
<1>11. MatrixTypeOK'
  <2>1. granted' \subseteq Rows
    BY <1>1, <1>3 DEF MatrixInv, MatrixTypeOK
  <2>2. clerk' \in [Clerks -> Clerk]
    BY <1>1, <1>10
  <2> QED BY <1>1, <1>2, <1>3, <2>1, <2>2 DEF MatrixTypeOK
<1> QED BY <1>5, <1>10, <1>11 DEF MatrixInv

THEOREM MatrixInvariant == MatrixSpec => []MatrixInv
<1>1. MatrixInit => MatrixInv
  <2> SUFFICES ASSUME MatrixInit PROVE MatrixInv
    OBVIOUS
  <2>1. MatrixTypeOK
    BY FreeIsOK DEF MatrixInit, MatrixTypeOK
  <2>2. GrantedAsSaved
    BY DEF MatrixInit, GrantedAsSaved
  <2> QED BY <2>1, <2>2, FreeIsOK DEF MatrixInit, MatrixInv
<1>2. MatrixInv /\ [MatrixNext]_matrixVars => MatrixInv'
  <2> SUFFICES ASSUME MatrixInv, [MatrixNext]_matrixVars PROVE MatrixInv'
    OBVIOUS
  <2>1. CASE MatrixNext
    BY <2>1, WritesKeep, ReadsKeep, CommitKeeps DEF MatrixNext, MatrixStep
  <2>2. CASE UNCHANGED matrixVars
    BY <2>2 DEF matrixVars, MatrixInv, MatrixTypeOK, GrantedAsSaved, Sanitized, ClerkOK, WriterOK,
                ReaderOK, InForce
  <2> QED BY <2>1, <2>2
<1> QED BY <1>1, <1>2, PTL DEF MatrixSpec

\* Rows, requests and their histories are well typed.
THEOREM MatrixIsTyped == MatrixSpec => []MatrixTypeOK
<1>1. MatrixInv => MatrixTypeOK
  BY DEF MatrixInv
<1> QED BY <1>1, MatrixInvariant, PTL

\* Any number of requests act with permissions that were in force, whatever the other
\* requests save, but for the named excuses.
THEOREM GrantsAreInForce == MatrixSpec => []GrantsWereInForce
<1>1. MatrixInv => GrantsWereInForce
  BY DEF MatrixInv, ClerkOK, ReaderOK, GrantsWereInForce, Inquiring
<1> QED BY <1>1, MatrixInvariant, PTL
=============================================================================
