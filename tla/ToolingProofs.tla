---------------------------- MODULE ToolingProofs ----------------------------
(***************************************************************************)
(* The proofs about what stands around the analyzer's rules: the debt      *)
(* ledger (LedgersSettle), the hook (HooksStayFaithful) and the layout     *)
(* check with scripts/verify (GreenMeansTreesRan).  What is said of a      *)
(* ledger, or of the hooks, is said of every instance of it: of is the     *)
(* record of its constants, of which only DebtAssumption and               *)
(* HookAssumption are used.                                                *)
(***************************************************************************)
EXTENDS MCTooling, FiniteSetTheorems, TLAPS

-------------------------------------------------------------------------------
(* The ledger: what the check finds, and what a command names of it.       *)

LEMMA FoundIs ==
    ASSUME NEW of, NEW tree, NEW scope, NEW v
    PROVE  v \in Debt(of)!Found(tree, scope) <=>
             \/ \E f \in scope : ~tree.files[f].parses /\ v = Debt(of)!Finding(f, 1, "TB043")
             \/ \E f \in scope, l \in Debt(of)!Lines, c \in of.codes :
                    c \in Debt(of)!Faults(tree, f, l) /\ v = Debt(of)!Finding(f, l, c)
<1> DEFINE OnALine == {q \in scope \X Debt(of)!Lines \X of.codes : q[3] \in Debt(of)!Faults(tree, q[1], q[2])}
<1>1. v \in {Debt(of)!Finding(f, 1, "TB043") : f \in {g \in scope : ~tree.files[g].parses}}
        <=> \E f \in scope : ~tree.files[f].parses /\ v = Debt(of)!Finding(f, 1, "TB043")
  OBVIOUS
<1>2. v \in {Debt(of)!Finding(p[1], p[2], p[3]) : p \in OnALine}
        <=> \E f \in scope, l \in Debt(of)!Lines, c \in of.codes :
                c \in Debt(of)!Faults(tree, f, l) /\ v = Debt(of)!Finding(f, l, c)
  <2>1. ASSUME NEW f \in scope, NEW l \in Debt(of)!Lines, NEW c \in of.codes, c \in Debt(of)!Faults(tree, f, l)
        PROVE  <<f, l, c>> \in OnALine /\ <<f, l, c>>[1] = f /\ <<f, l, c>>[2] = l /\ <<f, l, c>>[3] = c
    BY <2>1
  <2>2. ASSUME NEW p \in OnALine
        PROVE  p[1] \in scope /\ p[2] \in Debt(of)!Lines /\ p[3] \in of.codes /\ p[3] \in Debt(of)!Faults(tree, p[1], p[2])
    OBVIOUS
  <2> HIDE DEF OnALine
  <2>3. ASSUME NEW p \in OnALine, v = Debt(of)!Finding(p[1], p[2], p[3])
        PROVE  \E f \in scope, l \in Debt(of)!Lines, c \in of.codes :
                   c \in Debt(of)!Faults(tree, f, l) /\ v = Debt(of)!Finding(f, l, c)
    BY <2>2, <2>3
  <2>4. ASSUME NEW f \in scope, NEW l \in Debt(of)!Lines, NEW c \in of.codes,
               c \in Debt(of)!Faults(tree, f, l), v = Debt(of)!Finding(f, l, c)
        PROVE  \E p \in OnALine : v = Debt(of)!Finding(p[1], p[2], p[3])
    <3>1. PICK p : p = <<f, l, c>>
      OBVIOUS
    <3>2. p \in OnALine /\ p[1] = f /\ p[2] = l /\ p[3] = c
      BY <2>1, <2>4, <3>1
    <3> QED
      BY <2>4, <3>2
  <2> QED
    BY <2>3, <2>4
<1> QED
  BY <1>1, <1>2 DEF Debt!Found

LEMMA FindingsDiffer ==
    ASSUME NEW of, NEW f, NEW l, NEW c, NEW g, NEW m, NEW d, Debt(of)!Finding(f, l, c) = Debt(of)!Finding(g, m, d)
    PROVE  f = g /\ l = m /\ c = d
BY DEF Debt!Finding

(* The findings that a command names are those of the line that nothing    *)
(* hides, in a tree that is declared.                                      *)
LEMMA NamedIs ==
    ASSUME NEW of, Debt(of)!DebtAssumption, NEW tree,
           NEW f \in Debt(of)!Files, NEW l \in Debt(of)!Lines, NEW c
    PROVE  c \in Debt(of)!Named(Debt(of)!Violations(tree, Debt(of)!Files), f, l) <=>
             /\ tree.declared.app /\ c \in of.codes /\ c \in Debt(of)!Faults(tree, f, l)
             /\ ~Debt(of)!Hidden(tree, Debt(of)!Finding(f, l, c))
<1> DEFINE here == Debt(of)!Finding(f, l, c)
           found == Debt(of)!Violations(tree, Debt(of)!Files)
<1>1. here.path = f /\ here.line = l /\ here.code = c
  BY DEF Debt!Finding
<1>2. ASSUME c \in Debt(of)!Named(found, f, l)
      PROVE  c \notin Debt(of)!Unmarkable /\ here \in found
  <2>1. PICK w \in found : w.path = f /\ w.line = l /\ w.code \notin Debt(of)!Unmarkable /\ c = w.code
    BY <1>2 DEF Debt!Named
  <2>2. PICK g, m, d : w = Debt(of)!Finding(g, m, d)
    <3>1. CASE ~tree.declared.app
      BY <2>1, <3>1 DEF Debt!Violations
    <3>2. CASE w \in Debt(of)!Found(tree, Debt(of)!Files)
      BY <3>2, FoundIs
    <3>3. CASE w \in Debt(of)!Unused(tree, Debt(of)!Files)
      BY <3>3 DEF Debt!Unused
    <3>4. CASE w \in Debt(of)!Dead(tree, Debt(of)!Files)
      BY <3>4 DEF Debt!Dead
    <3> QED
      BY <2>1, <3>1, <3>2, <3>3, <3>4 DEF Debt!Violations
  <2> QED
    BY <2>1, <2>2 DEF Debt!Finding
<1>3. ASSUME here \in found, c \notin Debt(of)!Unmarkable
      PROVE  tree.declared.app /\ c \in of.codes /\ c \in Debt(of)!Faults(tree, f, l) /\ ~Debt(of)!Hidden(tree, here)
  <2>1. tree.declared.app
    BY <1>1, <1>3 DEF Debt!Violations, Debt!Unmarkable, Debt!Finding
  <2>2. here \notin Debt(of)!Unused(tree, Debt(of)!Files) /\ here \notin Debt(of)!Dead(tree, Debt(of)!Files)
    BY <1>1, <1>3 DEF Debt!Unused, Debt!Dead, Debt!Unmarkable, Debt!Finding
  <2>3. here \in Debt(of)!Found(tree, Debt(of)!Files) /\ ~Debt(of)!Hidden(tree, here)
    BY <1>3, <2>1, <2>2 DEF Debt!Violations
  <2>4. PICK g \in Debt(of)!Files, m \in Debt(of)!Lines, d \in of.codes :
            d \in Debt(of)!Faults(tree, g, m) /\ here = Debt(of)!Finding(g, m, d)
    <3>1. \A g : here # Debt(of)!Finding(g, 1, "TB043")
      BY <1>3, FindingsDiffer DEF Debt!Unmarkable
    <3> QED
      BY <2>3, <3>1, FoundIs
  <2> QED
    BY <2>1, <2>3, <2>4, FindingsDiffer
<1>4. ASSUME tree.declared.app, c \in of.codes, c \in Debt(of)!Faults(tree, f, l), ~Debt(of)!Hidden(tree, here)
      PROVE  c \in Debt(of)!Named(found, f, l)
  <2>1. here \in Debt(of)!Found(tree, Debt(of)!Files)
    BY <1>4, FoundIs
  <2>2. here \in found
    BY <1>4, <2>1 DEF Debt!Violations
  <2>3. c \notin Debt(of)!Unmarkable
    BY <1>4 DEF Debt!DebtAssumption, Debt!Unmarkable
  <2> HIDE DEF here, found
  <2> QED
    BY <1>1, <2>2, <2>3 DEF Debt!Named
<1> QED
  BY <1>2, <1>3, <1>4

-------------------------------------------------------------------------------
(* What the rewritings make of a tree.                                     *)

(* A finding of the file f is hidden by what stands in f.                  *)
LEMMA HiddenHere ==
    ASSUME NEW of, NEW one, NEW other, NEW v, v.path \in Debt(of)!Files,
           one.files[v.path].parses = other.files[v.path].parses,
           \A l \in Debt(of)!Lines : one.files[v.path].rows[l].mark = other.files[v.path].rows[l].mark,
           Debt(of)!Hidden(one, v)
    PROVE  Debt(of)!Hidden(other, v)
BY DEF Debt!Hidden, Debt!Markers

(* The codes that a command names on a line.                               *)
NamedAt(of, tree, f, l) == Debt(of)!Named(Debt(of)!Violations(tree, Debt(of)!Files), f, l)

LEMMA MarksAreMarks ==
    ASSUME NEW of, Debt(of)!DebtAssumption, NEW row \in Debt(of)!RowType, NEW codes \in SUBSET of.codes
    PROVE  /\ Debt(of)!Marked(row, codes) \in Debt(of)!RowType
           /\ Debt(of)!Marked(row, codes).faults = row.faults
           /\ Debt(of)!Marked(row, codes).seat = row.seat
<1>1. row.mark.codes \subseteq of.codes
  BY DEF Debt!RowType, Debt!Marks, Debt!NoMark
<1>2. [scope |-> "line", form |-> "parsed", codes |-> row.mark.codes \cup codes] \in Debt(of)!Marks
  BY <1>1 DEF Debt!Marks
<1> QED
  BY <1>2 DEF Debt!Marked, Debt!RowType

LEMMA RowsAreRewritten ==
    ASSUME NEW of, NEW file \in Debt(of)!FileType, NEW rows \in [Debt(of)!Lines -> Debt(of)!RowType]
    PROVE  /\ [file EXCEPT !.rows = rows] \in Debt(of)!FileType
           /\ [file EXCEPT !.rows = rows].parses = file.parses
           /\ [file EXCEPT !.rows = rows].rows = rows
BY DEF Debt!FileType

LEMMA MarkingIs ==
    ASSUME NEW of, Debt(of)!DebtAssumption, NEW tree \in Debt(of)!Trees
    PROVE  /\ Debt(of)!Marking(tree) \in [Debt(of)!Files -> Debt(of)!FileType]
           /\ \A f \in Debt(of)!Files :
                /\ Debt(of)!Marking(tree)[f].parses = tree.files[f].parses
                /\ \A l \in Debt(of)!Lines :
                     /\ NamedAt(of, tree, f, l) \subseteq of.codes
                     /\ Debt(of)!Marking(tree)[f].rows[l]
                          = Debt(of)!Marked(tree.files[f].rows[l], NamedAt(of, tree, f, l))
                     /\ Debt(of)!Marking(tree)[f].rows[l].faults = tree.files[f].rows[l].faults
<1>1. \A f \in Debt(of)!Files, l \in Debt(of)!Lines : NamedAt(of, tree, f, l) \subseteq of.codes
  BY NamedIs DEF NamedAt
<1>2. ASSUME NEW f \in Debt(of)!Files
      PROVE  /\ tree.files[f] \in Debt(of)!FileType
             /\ Debt(of)!Marking(tree)[f] = [tree.files[f] EXCEPT !.rows =
                    [l \in Debt(of)!Lines |-> Debt(of)!Marked(tree.files[f].rows[l], NamedAt(of, tree, f, l))]]
  BY DEF Debt!Trees, Debt!Marking, NamedAt
<1>3. ASSUME NEW f \in Debt(of)!Files, NEW l \in Debt(of)!Lines
      PROVE  /\ Debt(of)!Marked(tree.files[f].rows[l], NamedAt(of, tree, f, l)) \in Debt(of)!RowType
             /\ Debt(of)!Marked(tree.files[f].rows[l], NamedAt(of, tree, f, l)).faults = tree.files[f].rows[l].faults
  <2>1. tree.files[f].rows[l] \in Debt(of)!RowType
    BY <1>2 DEF Debt!FileType
  <2> QED
    BY <1>1, <2>1, MarksAreMarks
<1>4. ASSUME NEW f \in Debt(of)!Files
      PROVE  /\ Debt(of)!Marking(tree)[f] \in Debt(of)!FileType
             /\ Debt(of)!Marking(tree)[f].parses = tree.files[f].parses
             /\ \A l \in Debt(of)!Lines : Debt(of)!Marking(tree)[f].rows[l]
                    = Debt(of)!Marked(tree.files[f].rows[l], NamedAt(of, tree, f, l))
  <2> DEFINE rows == [l \in Debt(of)!Lines |-> Debt(of)!Marked(tree.files[f].rows[l], NamedAt(of, tree, f, l))]
  <2>1. rows \in [Debt(of)!Lines -> Debt(of)!RowType]
    BY <1>3
  <2>2. Debt(of)!Marking(tree)[f] = [tree.files[f] EXCEPT !.rows = rows] /\ tree.files[f] \in Debt(of)!FileType
    BY <1>2
  <2>3. \A l \in Debt(of)!Lines : rows[l] = Debt(of)!Marked(tree.files[f].rows[l], NamedAt(of, tree, f, l))
    OBVIOUS
  <2> HIDE DEF rows
  <2>4. /\ Debt(of)!Marking(tree)[f] \in Debt(of)!FileType
        /\ Debt(of)!Marking(tree)[f].parses = tree.files[f].parses
        /\ Debt(of)!Marking(tree)[f].rows = rows
    BY <2>1, <2>2, RowsAreRewritten
  <2> QED
    BY <2>3, <2>4
<1>5. Debt(of)!Marking(tree) \in [Debt(of)!Files -> Debt(of)!FileType]
  BY <1>4 DEF Debt!Marking
<1> QED
  BY <1>1, <1>3, <1>4, <1>5

LEMMA RenamedIs ==
    ASSUME NEW of, NEW f, NEW l, NEW row \in Debt(of)!RowType, NEW codes
    PROVE  /\ Debt(of)!Renamed(f, l, row, codes) \in Debt(of)!RowType
           /\ Debt(of)!Renamed(f, l, row, codes).mark = row.mark
           /\ \A c : c \in Debt(of)!Renamed(f, l, row, codes).faults <=>
                c \in row.faults /\ (<<f, l>> \in of.taken \/ c \notin codes \/ c \notin of.renameable)
BY DEF Debt!Renamed, Debt!RowType

(* What a rename leaves of the faults of a line.                           *)
Stays(of, tree, f, l, c) ==
    c \in tree.files[f].rows[l].faults
    /\ (<<f, l>> \in of.taken \/ c \notin NamedAt(of, tree, f, l) \/ c \notin of.renameable)

LEMMA RenamingIs ==
    ASSUME NEW of, Debt(of)!DebtAssumption, NEW tree \in Debt(of)!Trees
    PROVE  /\ Debt(of)!Renaming(tree) \in [Debt(of)!Files -> Debt(of)!FileType]
           /\ \A f \in Debt(of)!Files :
                /\ Debt(of)!Renaming(tree)[f].parses = tree.files[f].parses
                /\ \A l \in Debt(of)!Lines :
                     /\ Debt(of)!Renaming(tree)[f].rows[l].mark = tree.files[f].rows[l].mark
                     /\ \A c : c \in Debt(of)!Renaming(tree)[f].rows[l].faults <=> Stays(of, tree, f, l, c)
<1>1. ASSUME NEW f \in Debt(of)!Files
      PROVE  /\ tree.files[f] \in Debt(of)!FileType
             /\ Debt(of)!Renaming(tree)[f] = [tree.files[f] EXCEPT !.rows =
                    [l \in Debt(of)!Lines |-> Debt(of)!Renamed(f, l, tree.files[f].rows[l], NamedAt(of, tree, f, l))]]
  BY DEF Debt!Trees, Debt!Renaming, NamedAt
<1>2. ASSUME NEW f \in Debt(of)!Files, NEW l \in Debt(of)!Lines
      PROVE  LET row == Debt(of)!Renamed(f, l, tree.files[f].rows[l], NamedAt(of, tree, f, l))
             IN  /\ row \in Debt(of)!RowType /\ row.mark = tree.files[f].rows[l].mark
                 /\ \A c : c \in row.faults <=> Stays(of, tree, f, l, c)
  <2>1. tree.files[f].rows[l] \in Debt(of)!RowType
    BY <1>1 DEF Debt!FileType
  <2> QED
    BY <2>1, RenamedIs DEF Stays
<1>3. ASSUME NEW f \in Debt(of)!Files
      PROVE  /\ Debt(of)!Renaming(tree)[f] \in Debt(of)!FileType
             /\ Debt(of)!Renaming(tree)[f].parses = tree.files[f].parses
             /\ \A l \in Debt(of)!Lines : Debt(of)!Renaming(tree)[f].rows[l]
                    = Debt(of)!Renamed(f, l, tree.files[f].rows[l], NamedAt(of, tree, f, l))
  <2> DEFINE rows == [l \in Debt(of)!Lines |-> Debt(of)!Renamed(f, l, tree.files[f].rows[l], NamedAt(of, tree, f, l))]
  <2>1. rows \in [Debt(of)!Lines -> Debt(of)!RowType]
    BY <1>2
  <2>2. Debt(of)!Renaming(tree)[f] = [tree.files[f] EXCEPT !.rows = rows] /\ tree.files[f] \in Debt(of)!FileType
    BY <1>1
  <2>3. \A l \in Debt(of)!Lines : rows[l] = Debt(of)!Renamed(f, l, tree.files[f].rows[l], NamedAt(of, tree, f, l))
    OBVIOUS
  <2> HIDE DEF rows
  <2>4. /\ Debt(of)!Renaming(tree)[f] \in Debt(of)!FileType
        /\ Debt(of)!Renaming(tree)[f].parses = tree.files[f].parses
        /\ Debt(of)!Renaming(tree)[f].rows = rows
    BY <2>1, <2>2, RowsAreRewritten
  <2> QED
    BY <2>3, <2>4
<1>4. Debt(of)!Renaming(tree) \in [Debt(of)!Files -> Debt(of)!FileType]
  BY <1>3 DEF Debt!Renaming
<1>5. ASSUME NEW f \in Debt(of)!Files, NEW l \in Debt(of)!Lines
      PROVE  /\ Debt(of)!Renaming(tree)[f].rows[l].mark = tree.files[f].rows[l].mark
             /\ \A c : c \in Debt(of)!Renaming(tree)[f].rows[l].faults <=> Stays(of, tree, f, l, c)
  BY <1>2, <1>3
<1> QED
  BY <1>3, <1>4, <1>5

-------------------------------------------------------------------------------
(* What the check says of one file, of a tree that was marked and of one   *)
(* that was renamed.                                                       *)

(* In each of these D is a tree of which the files that may be written are *)
(* rewritten and the others, the links, are as they were.                  *)
Rewritten(of, tree, D, files) ==
    /\ D.declared = tree.declared
    /\ \A f \in Debt(of)!Files : D.files[f] = IF f \in of.links THEN tree.files[f] ELSE files[f]

(* Whether other files parse is not touched.                               *)
LEMMA FaultsStay ==
    ASSUME NEW of, NEW tree, NEW D, NEW f \in Debt(of)!Files, NEW l, NEW c,
           \A g \in Debt(of)!Files : D.files[g].parses = tree.files[g].parses
    PROVE  c \in Debt(of)!Faults(D, f, l) <=>
             /\ c \in D.files[f].rows[l].faults
             /\ tree.files[f].parses
             /\ \A g \in Debt(of)!Files : <<f, c, g>> \in of.leans => tree.files[g].parses
BY DEF Debt!Faults

LEMMA FaultsAre ==
    ASSUME NEW of, NEW tree, NEW f \in Debt(of)!Files, NEW l, NEW c
    PROVE  c \in Debt(of)!Faults(tree, f, l) <=>
             /\ c \in tree.files[f].rows[l].faults
             /\ tree.files[f].parses
             /\ \A g \in Debt(of)!Files : <<f, c, g>> \in of.leans => tree.files[g].parses
BY DEF Debt!Faults

(* A marked line's findings are hidden, if it takes a marker; and what was *)
(* hidden stays so.                                                        *)
LEMMA MarkingHides ==
    ASSUME NEW of, Debt(of)!DebtAssumption, NEW tree \in Debt(of)!Trees, NEW D,
           NEW f \in Debt(of)!Files, NEW l \in Debt(of)!Lines, NEW c \in of.codes,
           D.files[f] = Debt(of)!Marking(tree)[f], c \in Debt(of)!Faults(tree, f, l),
           \/ Debt(of)!Hidden(tree, Debt(of)!Finding(f, l, c))
           \/ tree.declared.app /\ Debt(of)!TakesMark(tree.files[f].rows[l])
    PROVE  Debt(of)!Hidden(D, Debt(of)!Finding(f, l, c))
<1> DEFINE v == Debt(of)!Finding(f, l, c)
           old(m) == tree.files[f].rows[m]
           new(m) == D.files[f].rows[m]
<1>1. v.path = f /\ v.line = l /\ v.code = c
  BY DEF Debt!Finding
<1>2. /\ D.files[f].parses /\ tree.files[f].parses
      /\ \A m \in Debt(of)!Lines : new(m) = Debt(of)!Marked(old(m), NamedAt(of, tree, f, m)) /\ old(m) \in Debt(of)!RowType
  <2>1. tree.files[f].parses
    BY FaultsAre
  <2>2. tree.files[f] \in Debt(of)!FileType
    BY DEF Debt!Trees
  <2> QED
    BY <2>1, <2>2, MarkingIs DEF Debt!FileType
<1> HIDE DEF v, old, new
<1>3. ASSUME NEW m \in Debt(of)!Lines, Debt(of)!Hides(new(m).mark, m, v), new(m).mark.scope # "none"
      PROVE  Debt(of)!Hidden(D, v)
  BY <1>1, <1>2, <1>3 DEF Debt!Hidden, Debt!Markers, new
<1>4. ASSUME c \in NamedAt(of, tree, f, l), Debt(of)!TakesMark(old(l))
      PROVE  Debt(of)!Hidden(D, v)
  <2>1. new(l).mark = [scope |-> "line", form |-> "parsed", codes |-> old(l).mark.codes \cup NamedAt(of, tree, f, l)]
    BY <1>2, <1>4 DEF Debt!Marked, Debt!RowType
  <2>2. Debt(of)!Hides(new(l).mark, l, v)
    BY <1>1, <1>4, <2>1 DEF Debt!Hides
  <2> QED
    BY <1>3, <2>1, <2>2
<1>5. ASSUME Debt(of)!Hidden(tree, v)
      PROVE  Debt(of)!Hidden(D, v)
  <2>1. PICK m \in Debt(of)!Lines : old(m).mark.scope # "none" /\ Debt(of)!Hides(old(m).mark, m, v)
    BY <1>1, <1>5 DEF Debt!Hidden, Debt!Markers, old
  <2>2. CASE new(m) = old(m)
    BY <1>3, <2>1, <2>2
  <2>3. CASE new(m) # old(m)
    <3>1. /\ NamedAt(of, tree, f, m) # {} /\ Debt(of)!TakesMark(old(m))
          /\ new(m).mark = [scope |-> "line", form |-> "parsed", codes |-> old(m).mark.codes \cup NamedAt(of, tree, f, m)]
      BY <1>2, <2>3 DEF Debt!Marked, Debt!RowType
    <3>2. m = l /\ (old(m).mark.codes # {} => c \in old(m).mark.codes)
      BY <1>1, <2>1, <3>1 DEF Debt!Hides, Debt!TakesMark
    <3>3. old(m).mark.codes # {}
      <4>1. PICK d \in NamedAt(of, tree, f, m) : TRUE
        BY <3>1
      <4>2. ~Debt(of)!Hidden(tree, Debt(of)!Finding(f, m, d))
        BY NamedIs DEF NamedAt
      <4>3. SUFFICES ASSUME old(m).mark.codes = {} PROVE FALSE
        OBVIOUS
      <4>4. Debt(of)!Hides(old(m).mark, m, Debt(of)!Finding(f, m, d))
        BY <2>1, <3>1, <4>3 DEF Debt!Hides, Debt!TakesMark, Debt!Finding
      <4> QED
        BY <1>2, <2>1, <4>2, <4>4 DEF Debt!Hidden, Debt!Markers, Debt!Finding, old
    <3>4. Debt(of)!Hides(new(m).mark, m, v)
      BY <1>1, <3>1, <3>2, <3>3 DEF Debt!Hides
    <3> QED
      BY <1>3, <3>1, <3>4
  <2> QED
    BY <2>2, <2>3
<1>6. CASE ~Debt(of)!Hidden(tree, v)
  <2>1. c \in NamedAt(of, tree, f, l) /\ Debt(of)!TakesMark(old(l))
    BY <1>6, NamedIs DEF NamedAt, v, old
  <2> QED
    BY <1>4, <2>1 DEF v
<1> QED
  BY <1>5, <1>6 DEF v

(* A finding of the rules on a line, of those that are found.              *)
LEMMA FoundOnALine ==
    ASSUME NEW of, Debt(of)!DebtAssumption, NEW tree, NEW v \in Debt(of)!Found(tree, Debt(of)!Files),
           v.code \notin Debt(of)!Unmarkable \/ Debt(of)!Hidden(tree, v)
    PROVE  \E f \in Debt(of)!Files, l \in Debt(of)!Lines, c \in of.codes :
               c \in Debt(of)!Faults(tree, f, l) /\ v = Debt(of)!Finding(f, l, c)
<1>1. ASSUME NEW f \in Debt(of)!Files, ~tree.files[f].parses, v = Debt(of)!Finding(f, 1, "TB043")
      PROVE  FALSE
  BY <1>1 DEF Debt!Finding, Debt!Unmarkable, Debt!Hidden, Debt!Markers
<1> QED
  BY <1>1, FoundIs

LEMMA DeadIs ==
    ASSUME NEW of, NEW tree, NEW scope, NEW v
    PROVE  v \in Debt(of)!Dead(tree, scope) <=>
             \E f \in scope, l \in Debt(of)!Lines :
                 /\ v = Debt(of)!Finding(f, l, "TB090") /\ l \in Debt(of)!Markers(tree, f)
                 /\ \A w \in Debt(of)!Found(tree, scope) :
                        w.path = f => ~Debt(of)!Hides(tree.files[f].rows[l].mark, l, w)
<1> DEFINE Idle(f, l) ==
               /\ l \in Debt(of)!Markers(tree, f)
               /\ \A w \in Debt(of)!Found(tree, scope) :
                      w.path = f => ~Debt(of)!Hides(tree.files[f].rows[l].mark, l, w)
           Marks == {q \in scope \X Debt(of)!Lines : Idle(q[1], q[2])}
<1>1. Debt(of)!Dead(tree, scope) = {Debt(of)!Finding(p[1], p[2], "TB090") : p \in Marks}
  BY DEF Debt!Dead
<1>2. ASSUME NEW f \in scope, NEW l \in Debt(of)!Lines, Idle(f, l), v = Debt(of)!Finding(f, l, "TB090")
      PROVE  \E p \in Marks : v = Debt(of)!Finding(p[1], p[2], "TB090")
  <2> HIDE DEF Idle
  <2>1. PICK p : p = <<f, l>>
    OBVIOUS
  <2>2. p \in Marks /\ p[1] = f /\ p[2] = l
    BY <1>2, <2>1
  <2> QED
    BY <1>2, <2>2
<1>3. ASSUME NEW p \in Marks
      PROVE  p[1] \in scope /\ p[2] \in Debt(of)!Lines /\ Idle(p[1], p[2])
  <2> HIDE DEF Idle
  <2> QED
    OBVIOUS
<1>4. v \in Debt(of)!Dead(tree, scope)
        <=> \E f \in scope, l \in Debt(of)!Lines : v = Debt(of)!Finding(f, l, "TB090") /\ Idle(f, l)
  <2> HIDE DEF Idle, Marks
  <2> QED
    BY <1>1, <1>2, <1>3
<1> QED
  BY <1>4

LEMMA FilesAreMany ==
    ASSUME NEW of, Debt(of)!DebtAssumption, NEW f \in Debt(of)!Files
    PROVE  {f} # Debt(of)!Files /\ Debt(of)!Root \notin Debt(of)!Files
<1>1. 1 \in Debt(of)!Files /\ 2 \in Debt(of)!Files
  BY DEF Debt!DebtAssumption, Debt!Files
<1>2. 0 \notin Debt(of)!Files
  BY DEF Debt!Files
<1> QED
  BY <1>1, <1>2 DEF Debt!Root

LEMMA ScopedIsOfTheWhole ==
    ASSUME NEW of, Debt(of)!DebtAssumption, NEW tree, tree.declared.app, NEW f \in Debt(of)!Files
    PROVE  Debt(of)!Violations(tree, {f}) = {v \in Debt(of)!Violations(tree, Debt(of)!Files) : v.path = f}
<1>1. ASSUME NEW g, NEW l, NEW c
      PROVE  Debt(of)!Finding(g, l, c).path = g
  BY DEF Debt!Finding
<1>2. ASSUME NEW v
      PROVE  v \in Debt(of)!Found(tree, {f}) <=> v \in Debt(of)!Found(tree, Debt(of)!Files) /\ v.path = f
  <2>1. ASSUME NEW g \in Debt(of)!Files, v = Debt(of)!Finding(g, 1, "TB043") \/ \E l, c : v = Debt(of)!Finding(g, l, c)
        PROVE  v.path = g
    BY <1>1, <2>1
  <2>2. CASE v \in Debt(of)!Found(tree, {f})
    BY <2>1, <2>2, FoundIs
  <2>3. CASE v \in Debt(of)!Found(tree, Debt(of)!Files) /\ v.path = f
    BY <2>1, <2>3, FoundIs
  <2> QED
    BY <2>2, <2>3
<1>3. ASSUME NEW v
      PROVE  v \in Debt(of)!Dead(tree, {f}) <=> v \in Debt(of)!Dead(tree, Debt(of)!Files) /\ v.path = f
  <2>1. CASE v \in Debt(of)!Dead(tree, {f})
    <3>1. PICK l \in Debt(of)!Lines :
                 /\ v = Debt(of)!Finding(f, l, "TB090") /\ l \in Debt(of)!Markers(tree, f)
                 /\ \A w \in Debt(of)!Found(tree, {f}) :
                        w.path = f => ~Debt(of)!Hides(tree.files[f].rows[l].mark, l, w)
      BY <2>1, DeadIs
    <3>2. \A w \in Debt(of)!Found(tree, Debt(of)!Files) :
              w.path = f => ~Debt(of)!Hides(tree.files[f].rows[l].mark, l, w)
      BY <1>2, <3>1
    <3> QED
      BY <1>1, <3>1, <3>2, DeadIs
  <2>2. CASE v \in Debt(of)!Dead(tree, Debt(of)!Files) /\ v.path = f
    <3>1. PICK g \in Debt(of)!Files : \E l \in Debt(of)!Lines :
                 /\ v = Debt(of)!Finding(g, l, "TB090") /\ l \in Debt(of)!Markers(tree, g)
                 /\ \A w \in Debt(of)!Found(tree, Debt(of)!Files) :
                        w.path = g => ~Debt(of)!Hides(tree.files[g].rows[l].mark, l, w)
      BY <2>2, DeadIs
    <3>2. g = f
      BY <1>1, <2>2, <3>1
    <3>3. PICK l \in Debt(of)!Lines :
                 /\ v = Debt(of)!Finding(f, l, "TB090") /\ l \in Debt(of)!Markers(tree, f)
                 /\ \A w \in Debt(of)!Found(tree, Debt(of)!Files) :
                        w.path = f => ~Debt(of)!Hides(tree.files[f].rows[l].mark, l, w)
      BY <3>1, <3>2
    <3>4. \A w \in Debt(of)!Found(tree, {f}) : w.path = f => ~Debt(of)!Hides(tree.files[f].rows[l].mark, l, w)
      BY <1>2, <3>3
    <3>5. f \in {f}
      OBVIOUS
    <3>6. \E e \in {f}, m \in Debt(of)!Lines :
              /\ v = Debt(of)!Finding(e, m, "TB090") /\ m \in Debt(of)!Markers(tree, e)
              /\ \A w \in Debt(of)!Found(tree, {f}) :
                     w.path = e => ~Debt(of)!Hides(tree.files[e].rows[m].mark, m, w)
      BY <3>3, <3>4, <3>5
    <3>7. v \in Debt(of)!Dead(tree, {f})
      BY <3>6, DeadIs
    <3> QED
      BY <3>7, <1>1, <2>2
  <2> QED
    BY <2>1, <2>2
<1>4. Debt(of)!Unused(tree, {f}) = {} /\ \A v \in Debt(of)!Unused(tree, Debt(of)!Files) : v.path # f
  BY <1>1, FilesAreMany DEF Debt!Unused
<1> QED
  BY <1>2, <1>3, <1>4 DEF Debt!Violations

(* Marking uncovers nothing, and what remains cannot be marked.            *)
LEMMA MarkingKeeps ==
    ASSUME NEW of, Debt(of)!DebtAssumption, NEW tree \in Debt(of)!Trees,
           NEW v \in Debt(of)!Found(tree, Debt(of)!Files), Debt(of)!Hidden(tree, v)
    PROVE  Debt(of)!Hidden([tree EXCEPT !.files = Debt(of)!Marking(tree)], v)
<1> DEFINE D == [tree EXCEPT !.files = Debt(of)!Marking(tree)]
<1>1. D.files = Debt(of)!Marking(tree)
  BY DEF Debt!Trees
<1> HIDE DEF D
<1>2. PICK f \in Debt(of)!Files, l \in Debt(of)!Lines, c \in of.codes :
           c \in Debt(of)!Faults(tree, f, l) /\ v = Debt(of)!Finding(f, l, c)
  BY FoundOnALine
<1>3. Debt(of)!Hidden(D, v)
  BY <1>1, <1>2, MarkingHides
<1> QED
  BY <1>3 DEF D

LEMMA MarkingLeaves ==
    ASSUME NEW of, Debt(of)!DebtAssumption, NEW tree \in Debt(of)!Trees, NEW D,
           Rewritten(of, tree, D, Debt(of)!Marking(tree)), D.declared.app,
           NEW f \in Debt(of)!Files, NEW l \in Debt(of)!Lines, NEW c \in of.codes,
           f \notin of.links, c \in Debt(of)!Faults(D, f, l),
           ~Debt(of)!Hidden(D, Debt(of)!Finding(f, l, c))
    PROVE  D.files[f].rows[l] = tree.files[f].rows[l] /\ ~Debt(of)!TakesMark(D.files[f].rows[l])
<1>1. \A g \in Debt(of)!Files : D.files[g].parses = tree.files[g].parses
  BY MarkingIs DEF Rewritten
<1>2. D.files[f] = Debt(of)!Marking(tree)[f] /\ tree.declared.app
  BY DEF Rewritten
<1>3. D.files[f].rows[l] = Debt(of)!Marked(tree.files[f].rows[l], NamedAt(of, tree, f, l))
      /\ D.files[f].rows[l].faults = tree.files[f].rows[l].faults
  BY <1>2, MarkingIs
<1>4. c \in Debt(of)!Faults(tree, f, l)
  <2>1. /\ c \in D.files[f].rows[l].faults /\ tree.files[f].parses
        /\ \A g \in Debt(of)!Files : <<f, c, g>> \in of.leans => tree.files[g].parses
    BY <1>1, FaultsStay
  <2> QED
    BY <1>3, <2>1, FaultsAre
<1>5. ~Debt(of)!TakesMark(tree.files[f].rows[l])
  BY <1>2, <1>4, MarkingHides
<1> QED
  BY <1>3, <1>5 DEF Debt!Marked

SettledMarks(of, tree) ==
    \A v \in Debt(of)!Violations(tree, Debt(of)!Files) :
        \/ v.code \in Debt(of)!Unmarkable
        \/ v.path \in of.links
        \/ LET row == tree.files[v.path].rows[v.line] IN
           row.seat = "shut" \/ row.mark.scope = "file" \/ row.mark.form = "malformed"

(* What remains of a tree, but for the codes that nothing marks.           *)
LEMMA RemainsOnALine ==
    ASSUME NEW of, Debt(of)!DebtAssumption, NEW tree,
           NEW v \in Debt(of)!Violations(tree, Debt(of)!Files), v.code \notin Debt(of)!Unmarkable
    PROVE  /\ tree.declared.app
           /\ \E f \in Debt(of)!Files, l \in Debt(of)!Lines, c \in of.codes :
                 /\ c \in Debt(of)!Faults(tree, f, l) /\ v = Debt(of)!Finding(f, l, c)
                 /\ ~Debt(of)!Hidden(tree, v)
<1>1. tree.declared.app
  BY DEF Debt!Violations, Debt!Finding, Debt!Unmarkable
<1>2. v \notin Debt(of)!Unused(tree, Debt(of)!Files)
  BY DEF Debt!Unused, Debt!Finding, Debt!Unmarkable
<1>3. v \notin Debt(of)!Dead(tree, Debt(of)!Files)
  BY DeadIs DEF Debt!Finding, Debt!Unmarkable
<1>4. v \in Debt(of)!Found(tree, Debt(of)!Files) /\ ~Debt(of)!Hidden(tree, v)
  BY <1>1, <1>2, <1>3 DEF Debt!Violations
<1> QED
  BY <1>1, <1>4, FoundOnALine

LEMMA MarkedSettles ==
    ASSUME NEW of, Debt(of)!DebtAssumption, NEW tree \in Debt(of)!Trees, NEW D,
           Rewritten(of, tree, D, Debt(of)!Marking(tree))
    PROVE  SettledMarks(of, D)
<1> SUFFICES ASSUME NEW v \in Debt(of)!Violations(D, Debt(of)!Files),
                    v.code \notin Debt(of)!Unmarkable, v.path \notin of.links
             PROVE  LET row == D.files[v.path].rows[v.line] IN
                    row.seat = "shut" \/ row.mark.scope = "file" \/ row.mark.form = "malformed"
  BY DEF SettledMarks
<1>1. D.declared.app
  BY RemainsOnALine
<1>2. PICK f \in Debt(of)!Files, l \in Debt(of)!Lines, c \in of.codes :
          /\ c \in Debt(of)!Faults(D, f, l) /\ v = Debt(of)!Finding(f, l, c) /\ ~Debt(of)!Hidden(D, v)
  BY RemainsOnALine
<1>3. v.path = f /\ v.line = l
  BY <1>2 DEF Debt!Finding
<1>4. D.files[f].rows[l] = tree.files[f].rows[l] /\ ~Debt(of)!TakesMark(D.files[f].rows[l])
  BY <1>1, <1>2, <1>3, MarkingLeaves
<1>5. tree.files[f].rows[l] \in Debt(of)!RowType
  BY DEF Debt!Trees, Debt!FileType
<1>6. D.files[f].rows[l].seat \in {"open", "shut"} /\ D.files[f].rows[l].mark.form \in {"parsed", "malformed"}
  BY <1>4, <1>5 DEF Debt!RowType, Debt!Marks, Debt!NoMark
<1> QED
  BY <1>3, <1>4, <1>6 DEF Debt!TakesMark

LEMMA MarkingTwiceIsOnce ==
    ASSUME NEW of, Debt(of)!DebtAssumption, NEW tree \in Debt(of)!Trees
    PROVE  Debt(of)!Marking([tree EXCEPT !.files = Debt(of)!Marking(tree)]) = Debt(of)!Marking(tree)
<1> DEFINE D == [tree EXCEPT !.files = Debt(of)!Marking(tree)]
<1>1. D \in Debt(of)!Trees /\ D.files = Debt(of)!Marking(tree) /\ D.declared = tree.declared
  BY MarkingIs DEF Debt!Trees
<1> HIDE DEF D
<1>2. ASSUME NEW f \in Debt(of)!Files, NEW l \in Debt(of)!Lines
      PROVE  Debt(of)!Marked(D.files[f].rows[l], NamedAt(of, D, f, l)) = D.files[f].rows[l]
  <2>1. CASE NamedAt(of, D, f, l) = {}
    BY <2>1 DEF Debt!Marked
  <2>2. CASE NamedAt(of, D, f, l) # {}
    <3>1. PICK c \in NamedAt(of, D, f, l) : TRUE
      BY <2>2
    <3>2. /\ D.declared.app /\ c \in of.codes /\ c \in Debt(of)!Faults(D, f, l)
          /\ ~Debt(of)!Hidden(D, Debt(of)!Finding(f, l, c))
      BY NamedIs DEF NamedAt
    <3>3. \A g \in Debt(of)!Files : D.files[g].parses = tree.files[g].parses
      BY <1>1, MarkingIs
    <3>4. D.files[f].rows[l].faults = tree.files[f].rows[l].faults
          /\ D.files[f].rows[l] = Debt(of)!Marked(tree.files[f].rows[l], NamedAt(of, tree, f, l))
      BY <1>1, MarkingIs
    <3>5. c \in Debt(of)!Faults(tree, f, l)
      <4>1. /\ c \in D.files[f].rows[l].faults /\ tree.files[f].parses
            /\ \A g \in Debt(of)!Files : <<f, c, g>> \in of.leans => tree.files[g].parses
        BY <3>2, <3>3, FaultsStay
      <4> QED
        BY <3>4, <4>1, FaultsAre
    <3>6. ~Debt(of)!TakesMark(tree.files[f].rows[l])
      BY <1>1, <3>2, <3>5, MarkingHides
    <3> QED
      BY <3>4, <3>6 DEF Debt!Marked
  <2> QED
    BY <2>1, <2>2
<1>3. \A f \in Debt(of)!Files : D.files[f] \in Debt(of)!FileType
  BY <1>1 DEF Debt!Trees
<1>4. ASSUME NEW f \in Debt(of)!Files
      PROVE  Debt(of)!Marking(D)[f] = D.files[f]
  <2>1. [l \in Debt(of)!Lines |-> Debt(of)!Marked(D.files[f].rows[l], NamedAt(of, D, f, l))] = D.files[f].rows
    BY <1>2, <1>3 DEF Debt!FileType
  <2>2. Debt(of)!Marking(D)[f] = [D.files[f] EXCEPT !.rows = D.files[f].rows]
    BY <2>1 DEF Debt!Marking, NamedAt
  <2> QED
    BY <1>3, <2>2 DEF Debt!FileType
<1>5. D.files \in [Debt(of)!Files -> Debt(of)!FileType] /\ Debt(of)!Marking(D) \in [Debt(of)!Files -> Debt(of)!FileType]
  BY <1>1, MarkingIs DEF Debt!Trees
<1>6. Debt(of)!Marking(D) = D.files
  BY <1>4, <1>5
<1> QED
  BY <1>1, <1>6 DEF D

LEMMA MarksAreEarned ==
    ASSUME NEW of, Debt(of)!DebtAssumption, NEW tree \in Debt(of)!Trees,
           NEW f \in Debt(of)!Files, NEW l \in Debt(of)!Lines
    PROVE  Debt(of)!Marking(tree)[f].rows[l].mark.codes
               \subseteq Debt(of)!Marking(tree)[f].rows[l].faults \cup tree.files[f].rows[l].mark.codes
<1>1. \A c \in NamedAt(of, tree, f, l) : c \in tree.files[f].rows[l].faults
  BY NamedIs, FaultsAre DEF NamedAt
<1>2. tree.files[f].rows[l] \in Debt(of)!RowType
  BY DEF Debt!Trees, Debt!FileType
<1>3. /\ Debt(of)!Marking(tree)[f].rows[l].faults = tree.files[f].rows[l].faults
      /\ Debt(of)!Marking(tree)[f].rows[l] = Debt(of)!Marked(tree.files[f].rows[l], NamedAt(of, tree, f, l))
  BY MarkingIs
<1>4. Debt(of)!Marking(tree)[f].rows[l].mark.codes
          \subseteq tree.files[f].rows[l].mark.codes \cup NamedAt(of, tree, f, l)
  <2> DEFINE row == tree.files[f].rows[l]
             codes == NamedAt(of, tree, f, l)
  <2>1. row \in Debt(of)!RowType /\ Debt(of)!Marking(tree)[f].rows[l] = Debt(of)!Marked(row, codes)
    BY <1>2, <1>3
  <2> HIDE DEF row, codes
  <2>2. Debt(of)!Marked(row, codes).mark.codes \subseteq row.mark.codes \cup codes
    BY <2>1 DEF Debt!Marked, Debt!RowType
  <2> QED
    BY <2>1, <2>2 DEF row, codes
<1> QED
  BY <1>1, <1>3, <1>4

(* Renaming kills no marker, and leaves only what it could not reach.      *)
SettledNames(of, tree) ==
    \A v \in Debt(of)!Violations(tree, Debt(of)!Files) :
        v.code \in of.renameable => v.path \in of.links \/ <<v.path, v.line>> \in of.taken

LEMMA RenamedSettles ==
    ASSUME NEW of, Debt(of)!DebtAssumption, NEW tree \in Debt(of)!Trees, NEW D,
           Rewritten(of, tree, D, Debt(of)!Renaming(tree))
    PROVE  SettledNames(of, D)
<1> SUFFICES ASSUME NEW v \in Debt(of)!Violations(D, Debt(of)!Files), v.code \in of.renameable,
                    v.path \notin of.links, <<v.path, v.line>> \notin of.taken
             PROVE  FALSE
  BY DEF SettledNames
<1>1. v.code \notin Debt(of)!Unmarkable
  BY DEF Debt!DebtAssumption, Debt!Unmarkable
<1>2. D.declared.app
  BY <1>1, RemainsOnALine
<1>3. PICK f \in Debt(of)!Files, l \in Debt(of)!Lines, c \in of.codes :
          /\ c \in Debt(of)!Faults(D, f, l) /\ v = Debt(of)!Finding(f, l, c) /\ ~Debt(of)!Hidden(D, v)
  BY <1>1, RemainsOnALine
<1>4. v.path = f /\ v.line = l /\ v.code = c
  BY <1>3 DEF Debt!Finding
<1>5. \A g \in Debt(of)!Files : D.files[g].parses = tree.files[g].parses
  BY RenamingIs DEF Rewritten
<1>6. D.files[f] = Debt(of)!Renaming(tree)[f] /\ tree.declared.app
  BY <1>2, <1>4 DEF Rewritten
<1>7. \A m \in Debt(of)!Lines : D.files[f].rows[m].mark = tree.files[f].rows[m].mark
  BY <1>6, RenamingIs
<1>8. Stays(of, tree, f, l, c)
  <2>1. c \in D.files[f].rows[l].faults
    BY <1>3, FaultsAre
  <2>2. c \in Debt(of)!Renaming(tree)[f].rows[l].faults
    BY <1>6, <2>1
  <2> QED
    BY <2>2, RenamingIs
<1>9. c \in Debt(of)!Faults(tree, f, l)
  BY <1>3, <1>5, <1>8, FaultsStay, FaultsAre DEF Stays
<1>10. Debt(of)!Hidden(tree, v)
  BY <1>3, <1>4, <1>6, <1>8, <1>9, NamedIs DEF Stays, NamedAt
<1> QED
  BY <1>3, <1>4, <1>5, <1>7, <1>10, HiddenHere

LEMMA RenamingKillsNone ==
    ASSUME NEW of, Debt(of)!DebtAssumption, NEW tree \in Debt(of)!Trees
    PROVE  Debt(of)!Dead([tree EXCEPT !.files = Debt(of)!Renaming(tree)], Debt(of)!Files)
               \subseteq Debt(of)!Dead(tree, Debt(of)!Files)
<1> DEFINE D == [tree EXCEPT !.files = Debt(of)!Renaming(tree)]
<1>1. D.files = Debt(of)!Renaming(tree)
  BY DEF Debt!Trees
<1> HIDE DEF D
<1> SUFFICES ASSUME NEW v \in Debt(of)!Dead(D, Debt(of)!Files)
             PROVE  v \in Debt(of)!Dead(tree, Debt(of)!Files)
  BY DEF D
<1>2. PICK f \in Debt(of)!Files, l \in Debt(of)!Lines :
          /\ v = Debt(of)!Finding(f, l, "TB090") /\ l \in Debt(of)!Markers(D, f)
          /\ \A w \in Debt(of)!Found(D, Debt(of)!Files) :
                 w.path = f => ~Debt(of)!Hides(D.files[f].rows[l].mark, l, w)
  BY DeadIs
<1>3. /\ \A g \in Debt(of)!Files : D.files[g].parses = tree.files[g].parses
      /\ \A m \in Debt(of)!Lines : D.files[f].rows[m].mark = tree.files[f].rows[m].mark
  BY <1>1, RenamingIs
<1>4. l \in Debt(of)!Markers(tree, f)
  BY <1>2, <1>3 DEF Debt!Markers
<1>5. ASSUME NEW w \in Debt(of)!Found(tree, Debt(of)!Files), w.path = f,
             Debt(of)!Hides(tree.files[f].rows[l].mark, l, w)
      PROVE  FALSE
  <2>1. Debt(of)!Hidden(tree, w)
    BY <1>4, <1>5 DEF Debt!Hidden
  <2>2. PICK g \in Debt(of)!Files, m \in Debt(of)!Lines, c \in of.codes :
            c \in Debt(of)!Faults(tree, g, m) /\ w = Debt(of)!Finding(g, m, c)
    BY <2>1, FoundOnALine
  <2>3. g = f
    BY <1>5, <2>2 DEF Debt!Finding
  <2>4. c \notin NamedAt(of, tree, f, m)
    BY <2>1, <2>2, <2>3, NamedIs DEF NamedAt
  <2>5. Stays(of, tree, f, m, c)
    BY <2>2, <2>3, <2>4, FaultsAre DEF Stays
  <2>6. c \in D.files[f].rows[m].faults
    BY <1>1, <2>5, RenamingIs
  <2>7. c \in Debt(of)!Faults(D, f, m)
    <3>1. /\ tree.files[f].parses
          /\ \A h \in Debt(of)!Files : <<f, c, h>> \in of.leans => tree.files[h].parses
      BY <2>2, <2>3, FaultsAre
    <3> QED
      BY <1>3, <2>6, <3>1, FaultsStay
  <2>8. w \in Debt(of)!Found(D, Debt(of)!Files)
    BY <2>2, <2>3, <2>7, FoundIs
  <2> QED
    BY <1>2, <1>3, <1>5, <2>8
<1> QED
  BY <1>2, <1>4, <1>5, DeadIs

-------------------------------------------------------------------------------
(* The commands.  Beside the shape of a run: whoever was left alone since   *)
(* it began holds what it read as it is, has written what it computed to   *)
(* the files before the next one, and answers for the tree there is.       *)

Idles == [op : {"none"}, phase : {"idle"}, at : {1}, calm : BOOLEAN]

Reads(of) ==
    [op : Debt(of)!Ops, phase : {"read", "reread"}, at : 1 .. of.files + 1, calm : BOOLEAN,
     read : Debt(of)!Trees]

Rewrites(of) ==
    [op : Debt(of)!Ops, phase : {"write"}, at : 1 .. of.files + 1, calm : BOOLEAN,
     read : Debt(of)!Trees, text : [Debt(of)!Files -> Debt(of)!FileType]]

Answers(of) ==
    [op : Debt(of)!Ops, phase : {"done"}, at : {1}, calm : BOOLEAN, remaining : {run.remaining}]

(* The tree of which a command settled what it can settle.                 *)
Settled(of, op, tree) == IF op = "mark" THEN SettledMarks(of, tree) ELSE SettledNames(of, tree)

(* The files before at are written, unless they are links.                 *)
WrittenTo(of, at, now, read, text) ==
    /\ now.declared = read.declared
    /\ \A f \in Debt(of)!Files :
          now.files[f] = IF f < at /\ f \notin of.links THEN text[f] ELSE read.files[f]

LedgerShape(of) ==
    /\ disk \in Debt(of)!Trees
    /\ ledgerEdits \in 0 .. of.edits /\ runs \in 0 .. of.runs
    /\ run \in Idles \cup Reads(of) \cup Rewrites(of) \cup Answers(of)
    /\ run.phase = "write" => run.text = Debt(of)!Rewriting(run.op, run.read)

LedgerCalm(of) ==
    run.calm =>
        /\ run.phase \in {"read", "reread"} => run.read = disk
        /\ run.phase = "write" => WrittenTo(of, run.at, disk, run.read, run.text)
        /\ run.phase \in {"reread", "done"} => Settled(of, run.op, disk)
        /\ run.phase = "done" => run.remaining = Debt(of)!Violations(disk, Debt(of)!Files)

LedgerInv(of) == LedgerShape(of) /\ LedgerCalm(of)

LEMMA LedgerStarts ==
    ASSUME NEW of, Debt(of)!DebtAssumption, Debt(of)!Init
    PROVE  LedgerInv(of)
<1>1. run = [op |-> "none", phase |-> "idle", at |-> 1, calm |-> TRUE] /\ run \in Idles
  BY DEF Debt!Init, Debt!Nobody, Idles
<1> QED
  BY <1>1 DEF Debt!Init, Debt!DebtAssumption, LedgerInv, LedgerShape, LedgerCalm

(* What a rewriting makes of a tree are texts.                             *)
LEMMA TextsAreTexts ==
    ASSUME NEW of, Debt(of)!DebtAssumption, NEW tree \in Debt(of)!Trees, NEW op
    PROVE  Debt(of)!Rewriting(op, tree) \in [Debt(of)!Files -> Debt(of)!FileType]
BY MarkingIs, RenamingIs DEF Debt!Rewriting

LEMMA WrittenSettles ==
    ASSUME NEW of, Debt(of)!DebtAssumption, NEW tree \in Debt(of)!Trees, NEW op \in Debt(of)!Ops, NEW D,
           Rewritten(of, tree, D, Debt(of)!Rewriting(op, tree))
    PROVE  Settled(of, op, D)
<1>1. CASE op = "mark"
  BY <1>1, MarkedSettles DEF Settled, Debt!Rewriting
<1>2. CASE op = "rename"
  BY <1>2, RenamedSettles DEF Settled, Debt!Rewriting
<1> QED
  BY <1>1, <1>2 DEF Debt!Ops

LEMMA FileIsReplaced ==
    ASSUME NEW of, NEW tree \in Debt(of)!Trees, NEW f \in Debt(of)!Files, NEW file \in Debt(of)!FileType
    PROVE  /\ [tree EXCEPT !.files[f] = file] \in Debt(of)!Trees
           /\ [tree EXCEPT !.files[f] = file].declared = tree.declared
           /\ \A g \in Debt(of)!Files :
                 [tree EXCEPT !.files[f] = file].files[g] = IF g = f THEN file ELSE tree.files[g]
BY DEF Debt!Trees

LEMMA FileIsThere ==
    ASSUME NEW of, NEW tree \in Debt(of)!Trees, NEW f \in Debt(of)!Files
    PROVE  [tree EXCEPT !.files[f] = tree.files[f]] = tree
BY DEF Debt!Trees

LEMMA BeginSettles ==
    ASSUME NEW of, Debt(of)!DebtAssumption, LedgerInv(of), NEW op \in Debt(of)!Ops, Debt(of)!Begin(op)
    PROVE  LedgerInv(of)'
<1>1. run' \in Reads(of) /\ run'.phase = "read" /\ run'.read = disk'
  BY DEF Debt!Begin, Debt!DebtAssumption, Reads, LedgerInv, LedgerShape
<1>2. runs' \in 0 .. of.runs
  BY DEF Debt!Begin, Debt!DebtAssumption, LedgerInv, LedgerShape
<1> QED
  BY <1>1, <1>2 DEF Debt!Begin, LedgerInv, LedgerShape, LedgerCalm

LEMMA ReadFileSettles ==
    ASSUME NEW of, Debt(of)!DebtAssumption, LedgerInv(of), Debt(of)!ReadFile
    PROVE  LedgerInv(of)'
<1>1. run \in Reads(of) /\ run.at \in Debt(of)!Files /\ run.at + 1 \in 1 .. of.files + 1
  BY DEF Debt!ReadFile, Debt!DebtAssumption, Debt!Files, LedgerInv, LedgerShape, Idles, Reads, Rewrites, Answers
<1> DEFINE read == [run.read EXCEPT !.files[run.at] = disk.files[run.at]]
<1>2. disk.files[run.at] \in Debt(of)!FileType /\ run.read \in Debt(of)!Trees /\ disk \in Debt(of)!Trees
  BY <1>1 DEF LedgerInv, LedgerShape, Reads, Debt!Trees
<1>3. read \in Debt(of)!Trees /\ (run.read = disk => read = disk)
  BY <1>1, <1>2, FileIsReplaced, FileIsThere
<1>4. run' = [run EXCEPT !.read = read, !.at = run.at + 1]
  BY <1>1 DEF Debt!ReadFile, Reads
<1> HIDE DEF read
<1>5. /\ run' \in Reads(of) /\ run'.phase = run.phase /\ run'.op = run.op /\ run'.calm = run.calm /\ run'.read = read
      /\ run.phase \in {"read", "reread"}
  BY <1>1, <1>3, <1>4 DEF Reads
<1> QED
  BY <1>3, <1>5 DEF Debt!ReadFile, LedgerInv, LedgerShape, LedgerCalm

LEMMA RewriteSettles ==
    ASSUME NEW of, Debt(of)!DebtAssumption, LedgerInv(of), Debt(of)!Rewrite
    PROVE  LedgerInv(of)'
<1>1. run \in Reads(of)
  BY DEF Debt!Rewrite, LedgerInv, LedgerShape, Idles, Reads, Rewrites, Answers
<1>2. Debt(of)!Rewriting(run.op, run.read) \in [Debt(of)!Files -> Debt(of)!FileType]
  BY <1>1, TextsAreTexts DEF Reads
<1> DEFINE text == Debt(of)!Rewriting(run.op, run.read)
<1>3. run' = [op |-> run.op, phase |-> "write", at |-> 1, calm |-> run.calm, read |-> run.read, text |-> text]
  BY DEF Debt!Rewrite
<1> HIDE DEF text
<1>4. /\ run' \in Rewrites(of) /\ run'.phase = "write" /\ run'.at = 1 /\ run'.op = run.op
      /\ run'.read = run.read /\ run'.text = text /\ run'.calm = run.calm
  BY <1>1, <1>2, <1>3 DEF Reads, Rewrites, Debt!DebtAssumption, text
<1>5. run.calm => WrittenTo(of, 1, disk, run.read, text)
  BY DEF Debt!Rewrite, LedgerInv, LedgerCalm, WrittenTo, Debt!Files
<1> QED
  BY <1>4, <1>5 DEF Debt!Rewrite, LedgerInv, LedgerShape, LedgerCalm, text

LEMMA WriteFileSettles ==
    ASSUME NEW of, Debt(of)!DebtAssumption, LedgerInv(of), Debt(of)!WriteFile
    PROVE  LedgerInv(of)'
<1>1. run \in Rewrites(of) /\ run.at \in Debt(of)!Files /\ run.at + 1 \in 1 .. of.files + 1
  BY DEF Debt!WriteFile, Debt!DebtAssumption, Debt!Files, LedgerInv, LedgerShape, Idles, Reads, Rewrites, Answers
<1>2. /\ run.text[run.at] \in Debt(of)!FileType /\ disk \in Debt(of)!Trees /\ run.read \in Debt(of)!Trees
      /\ run.text = Debt(of)!Rewriting(run.op, run.read) /\ run.phase = "write"
  BY <1>1 DEF LedgerInv, LedgerShape, Rewrites
<1>3. /\ run' \in Rewrites(of) /\ run'.phase = "write" /\ run'.at = run.at + 1 /\ run'.op = run.op
      /\ run'.read = run.read /\ run'.text = run.text /\ run'.calm = run.calm
  BY <1>1 DEF Debt!WriteFile, Rewrites
<1>4. disk' \in Debt(of)!Trees
  BY <1>1, <1>2, FileIsReplaced DEF Debt!WriteFile
<1>5. ASSUME run.calm
      PROVE  WrittenTo(of, run.at + 1, disk', run.read, run.text)
  <2>1. WrittenTo(of, run.at, disk, run.read, run.text)
    BY <1>2, <1>5 DEF LedgerInv, LedgerCalm
  <2>2. /\ disk'.declared = disk.declared
        /\ \A f \in Debt(of)!Files :
              disk'.files[f] = IF f = run.at /\ Debt(of)!Writes(f) THEN run.text[f] ELSE disk.files[f]
    BY <1>1, <1>2, FileIsReplaced DEF Debt!WriteFile
  <2>3. ASSUME NEW f \in Debt(of)!Files
        PROVE  disk'.files[f] = IF f < run.at + 1 /\ f \notin of.links THEN run.text[f] ELSE run.read.files[f]
    <3>1. CASE f = run.at
      BY <1>1, <2>1, <2>2, <3>1 DEF WrittenTo, Debt!Writes, Debt!Files
    <3>2. CASE f # run.at
      <4>1. f < run.at + 1 <=> f < run.at
        BY <1>1, <3>2 DEF Debt!Files
      <4> QED
        BY <2>1, <2>2, <3>2, <4>1 DEF WrittenTo
    <3> QED
      BY <3>1, <3>2
  <2> QED
    BY <2>1, <2>2, <2>3 DEF WrittenTo
<1> QED
  BY <1>2, <1>3, <1>4, <1>5 DEF Debt!WriteFile, LedgerInv, LedgerShape, LedgerCalm

LEMMA ReadAgainSettles ==
    ASSUME NEW of, Debt(of)!DebtAssumption, LedgerInv(of), Debt(of)!ReadAgain
    PROVE  LedgerInv(of)'
<1>1. run \in Rewrites(of) /\ run.at > of.files
  BY DEF Debt!ReadAgain, LedgerInv, LedgerShape, Idles, Reads, Rewrites, Answers
<1>2. /\ run'.phase = "reread" /\ run'.at = 1 /\ run'.op = run.op /\ run'.calm = run.calm /\ run'.read = disk
      /\ run' \in Reads(of) /\ disk' = disk
  BY <1>1 DEF Debt!ReadAgain, Debt!DebtAssumption, LedgerInv, LedgerShape, Reads, Rewrites
<1>3. ASSUME run.calm
      PROVE  Settled(of, run.op, disk)
  <2>1. \A f \in Debt(of)!Files : f < run.at
    BY <1>1 DEF Debt!Files, Rewrites, Debt!DebtAssumption
  <2>2. WrittenTo(of, run.at, disk, run.read, run.text) /\ run.text = Debt(of)!Rewriting(run.op, run.read)
    BY <1>3 DEF Debt!ReadAgain, LedgerInv, LedgerCalm, LedgerShape
  <2>3. Rewritten(of, run.read, disk, Debt(of)!Rewriting(run.op, run.read))
    BY <2>1, <2>2 DEF WrittenTo, Rewritten
  <2> QED
    BY <1>1, <2>3, WrittenSettles DEF Rewrites
<1> QED
  BY <1>2, <1>3 DEF Debt!ReadAgain, LedgerInv, LedgerShape, LedgerCalm

LEMMA AnswerSettles ==
    ASSUME NEW of, Debt(of)!DebtAssumption, LedgerInv(of), Debt(of)!Answer
    PROVE  LedgerInv(of)'
<1>1. run \in Reads(of) /\ run.phase = "reread"
  BY DEF Debt!Answer, LedgerInv, LedgerShape, Idles, Reads, Rewrites, Answers
<1> DEFINE found == Debt(of)!Violations(run.read, Debt(of)!Files)
<1>2. run' = [op |-> run.op, phase |-> "done", at |-> 1, calm |-> run.calm, remaining |-> found] /\ disk' = disk
  BY DEF Debt!Answer
<1>3. run.calm => found = Debt(of)!Violations(disk, Debt(of)!Files) /\ Settled(of, run.op, disk)
  BY <1>1 DEF LedgerInv, LedgerCalm
<1> HIDE DEF found
<1>4. run' \in Answers(of)' /\ run'.phase = "done" /\ run'.op = run.op /\ run'.calm = run.calm /\ run'.remaining = found
  BY <1>1, <1>2 DEF Answers, Reads, Debt!Ops
<1> QED
  BY <1>2, <1>3, <1>4 DEF Debt!Answer, LedgerInv, LedgerShape, LedgerCalm

LEMMA LeaveSettles ==
    ASSUME NEW of, Debt(of)!DebtAssumption, LedgerInv(of), Debt(of)!Leave
    PROVE  LedgerInv(of)'
<1>1. run' = [op |-> "none", phase |-> "idle", at |-> 1, calm |-> TRUE] /\ run' \in Idles
  BY DEF Debt!Leave, Debt!Nobody, Idles
<1> QED
  BY <1>1 DEF Debt!Leave, LedgerInv, LedgerShape, LedgerCalm

(* Somebody's edit leaves a tree, and the command no longer calm.          *)
LEMMA EditSettles ==
    ASSUME NEW of, Debt(of)!DebtAssumption, LedgerInv(of), NEW tree \in Debt(of)!Trees, Debt(of)!Edited(tree)
    PROVE  LedgerInv(of)' /\ ledgerEdits' # ledgerEdits
<1>1. ledgerEdits' \in 0 .. of.edits /\ ledgerEdits' # ledgerEdits
  BY DEF Debt!Edited, Debt!DebtAssumption, LedgerInv, LedgerShape
<1>2. disk' \in Debt(of)!Trees /\ runs' \in 0 .. of.runs
  BY DEF Debt!Edited, LedgerInv, LedgerShape
<1>3. run' = [run EXCEPT !.calm = FALSE]
  BY DEF Debt!Edited
<1>4. /\ ~run'.calm /\ run' \in Idles \cup Reads(of) \cup Rewrites(of) \cup Answers(of)'
      /\ run'.phase = "write" => run'.text = run.text /\ run'.op = run.op /\ run'.read = run.read /\ run.phase = "write"
  <2>1. CASE run \in Idles
    BY <1>3, <2>1 DEF Idles
  <2>2. CASE run \in Reads(of)
    BY <1>3, <2>2 DEF Reads
  <2>3. CASE run \in Rewrites(of)
    BY <1>3, <2>3 DEF Rewrites
  <2>4. CASE run \in Answers(of)
    BY <1>3, <2>4 DEF Answers
  <2> QED
    BY <2>1, <2>2, <2>3, <2>4 DEF LedgerInv, LedgerShape
<1> QED
  BY <1>1, <1>2, <1>4 DEF LedgerInv, LedgerShape, LedgerCalm

LEMMA EditsAreTrees ==
    ASSUME NEW of, Debt(of)!DebtAssumption, LedgerInv(of),
           \/ \E f \in Debt(of)!Files, l \in Debt(of)!Lines : Debt(of)!EditLine(f, l)
           \/ \E f \in Debt(of)!Files : Debt(of)!EditSyntax(f) \/ Debt(of)!EditUse(f)
           \/ Debt(of)!EditDeclaration
    PROVE  \E tree \in Debt(of)!Trees : Debt(of)!Edited(tree)
<1>1. disk \in Debt(of)!Trees
  BY DEF LedgerInv, LedgerShape
<1>2. ASSUME NEW f \in Debt(of)!Files, NEW l \in Debt(of)!Lines, Debt(of)!EditLine(f, l)
      PROVE  \E tree \in Debt(of)!Trees : Debt(of)!Edited(tree)
  <2>1. PICK row \in of.rows : Debt(of)!Edited([disk EXCEPT !.files[f].rows[l] = row])
    BY <1>2 DEF Debt!EditLine
  <2>2. row \in Debt(of)!RowType
    BY DEF Debt!DebtAssumption
  <2>3. [disk EXCEPT !.files[f].rows[l] = row] \in Debt(of)!Trees
    BY <1>1, <2>2 DEF Debt!Trees, Debt!FileType
  <2> QED
    BY <2>1, <2>3
<1>3. ASSUME NEW f \in Debt(of)!Files, Debt(of)!EditSyntax(f)
      PROVE  \E tree \in Debt(of)!Trees : Debt(of)!Edited(tree)
  <2>1. [disk EXCEPT !.files[f].parses = ~@] \in Debt(of)!Trees
    BY <1>1 DEF Debt!Trees, Debt!FileType
  <2> QED
    BY <1>3, <2>1 DEF Debt!EditSyntax
<1>4. ASSUME NEW f \in Debt(of)!Files, Debt(of)!EditUse(f)
      PROVE  \E tree \in Debt(of)!Trees : Debt(of)!Edited(tree)
  <2>1. [disk EXCEPT !.files[f].uses = ~@] \in Debt(of)!Trees
    BY <1>1 DEF Debt!Trees, Debt!FileType
  <2> QED
    BY <1>4, <2>1 DEF Debt!EditUse
<1>5. ASSUME Debt(of)!EditDeclaration
      PROVE  \E tree \in Debt(of)!Trees : Debt(of)!Edited(tree)
  <2>1. PICK d \in Debt(of)!Declarations : Debt(of)!Edited([disk EXCEPT !.declared = d])
    BY <1>5 DEF Debt!EditDeclaration
  <2>2. [disk EXCEPT !.declared = d] \in Debt(of)!Trees
    BY <1>1 DEF Debt!Trees
  <2> QED
    BY <2>1, <2>2
<1> QED
  BY <1>2, <1>3, <1>4, <1>5

LEMMA LedgerStays ==
    ASSUME NEW of, Debt(of)!DebtAssumption, LedgerInv(of), UNCHANGED ledgerVars
    PROVE  LedgerInv(of)'
BY DEF ledgerVars, LedgerInv, LedgerShape, LedgerCalm, Answers

LEMMA LedgerMoves ==
    ASSUME NEW of, Debt(of)!DebtAssumption, LedgerInv(of), Debt(of)!Next
    PROVE  LedgerInv(of)'
<1>1. ASSUME NEW op \in Debt(of)!Ops, Debt(of)!Begin(op)
      PROVE  LedgerInv(of)'
  BY <1>1, BeginSettles
<1>2. ASSUME \/ \E f \in Debt(of)!Files, l \in Debt(of)!Lines : Debt(of)!EditLine(f, l)
             \/ \E f \in Debt(of)!Files : Debt(of)!EditSyntax(f) \/ Debt(of)!EditUse(f)
             \/ Debt(of)!EditDeclaration
      PROVE  LedgerInv(of)'
  BY <1>2, EditsAreTrees, EditSettles
<1> QED
  BY <1>1, <1>2, ReadFileSettles, RewriteSettles, WriteFileSettles, ReadAgainSettles, AnswerSettles,
     LeaveSettles DEF Debt!Next

(* What the invariant says of a state.                                     *)
LEMMA LedgerSays ==
    ASSUME NEW of, Debt(of)!DebtAssumption, LedgerInv(of)
    PROVE  /\ Debt(of)!TypeOK /\ Debt(of)!ScopedAgrees
           /\ Debt(of)!MarkingSettles /\ Debt(of)!MarkingIsIdempotent /\ Debt(of)!MarkingKeepsWhatIsHidden
           /\ Debt(of)!RenamingSettles /\ Debt(of)!RenamingKillsNoMarker
<1>1. Debt(of)!TypeOK
  <2>1. CASE run \in Idles
    BY <2>1 DEF LedgerInv, LedgerShape, Debt!TypeOK, Idles, Debt!DebtAssumption
  <2>2. CASE run \in Reads(of)
    BY <2>2 DEF LedgerInv, LedgerShape, Debt!TypeOK, Reads
  <2>3. CASE run \in Rewrites(of)
    BY <2>3 DEF LedgerInv, LedgerShape, Debt!TypeOK, Rewrites
  <2>4. CASE run \in Answers(of)
    BY <2>4 DEF LedgerInv, LedgerShape, Debt!TypeOK, Answers, Debt!DebtAssumption
  <2> QED
    BY <2>1, <2>2, <2>3, <2>4 DEF LedgerInv, LedgerShape
<1>2. Debt(of)!ScopedAgrees
  BY ScopedIsOfTheWhole DEF Debt!ScopedAgrees
<1>3. Debt(of)!MarkingSettles
  BY DEF Debt!MarkingSettles, LedgerInv, LedgerCalm, Settled, SettledMarks
<1>4. Debt(of)!RenamingSettles
  BY DEF Debt!RenamingSettles, LedgerInv, LedgerCalm, Settled, SettledNames
<1>5. run.phase = "write" => run.read \in Debt(of)!Trees /\ run.text = Debt(of)!Rewriting(run.op, run.read)
  BY <1>1 DEF LedgerInv, LedgerShape, Debt!TypeOK
<1>6. Debt(of)!MarkingIsIdempotent
  BY <1>5, MarkingTwiceIsOnce DEF Debt!MarkingIsIdempotent, Debt!Rewriting
<1>7. Debt(of)!MarkingKeepsWhatIsHidden
  BY <1>5, MarkingKeeps DEF Debt!MarkingKeepsWhatIsHidden, Debt!Rewriting
<1>8. Debt(of)!RenamingKillsNoMarker
  BY <1>5, RenamingKillsNone DEF Debt!RenamingKillsNoMarker, Debt!Rewriting
<1> QED
  BY <1>1, <1>2, <1>3, <1>4, <1>6, <1>7, <1>8

(* And of a step: the disk changes under a command when the command writes *)
(* what it computed, or when somebody edits.                               *)
LEMMA MarksLandWhereEarned ==
    ASSUME NEW of, Debt(of)!DebtAssumption, LedgerInv(of), Debt(of)!Next
    PROVE  Debt(of)!MarksLand
<1> SUFFICES ASSUME run.phase = "write", run.op = "mark", disk' # disk, ledgerEdits' = ledgerEdits,
                    NEW l \in Debt(of)!Lines
             PROVE  disk'.files[run.at].rows[l].mark.codes
                        \subseteq disk'.files[run.at].rows[l].faults \cup run.read.files[run.at].rows[l].mark.codes
  BY DEF Debt!MarksLand
<1>1. ~\E tree \in Debt(of)!Trees : Debt(of)!Edited(tree)
  BY EditSettles
<1>2. Debt(of)!WriteFile
  BY <1>1, EditsAreTrees DEF Debt!Next, Debt!Begin, Debt!ReadFile, Debt!Rewrite, Debt!ReadAgain, Debt!Answer,
     Debt!Leave
<1>3. /\ run.at \in Debt(of)!Files /\ disk \in Debt(of)!Trees /\ run.read \in Debt(of)!Trees
      /\ run.text = Debt(of)!Marking(run.read) /\ disk' = [disk EXCEPT !.files[run.at] = run.text[run.at]]
  BY <1>2, LedgerSays DEF Debt!WriteFile, Debt!TypeOK, LedgerInv, LedgerShape, Debt!Rewriting
<1>4. disk'.files[run.at] = Debt(of)!Marking(run.read)[run.at]
  <2>1. run.text[run.at] \in Debt(of)!FileType
    BY <1>3, MarkingIs
  <2> QED
    BY <1>3, <2>1, FileIsReplaced
<1> QED
  BY <1>3, <1>4, MarksAreEarned

(* The part that moves, and the ledgers that do.                           *)
LedgersInv ==
    /\ part = "ledger" => LedgerInv(Long)
    /\ part = "twice" => LedgerInv(Twins)

LEMMA LedgersStart == PartInit => LedgersInv
<1>1. Debt(Long)!DebtAssumption /\ Debt(Twins)!DebtAssumption
  BY LedgersAreTexts
<1> QED
  BY <1>1, LedgerStarts DEF PartInit, LedgersInv

LEMMA LedgersMove ==
    ASSUME LedgersInv, [PartNext]_partVars
    PROVE  /\ LedgersInv'
           /\ part = "twice" /\ ~UNCHANGED ledgerVars => Debt(Twins)!MarksLand
<1>1. Debt(Long)!DebtAssumption /\ Debt(Twins)!DebtAssumption
  BY LedgersAreTexts
<1>2. CASE part = "ledger" /\ Debt(Long)!Next /\ part' = part
  BY <1>1, <1>2, LedgerMoves DEF LedgersInv
<1>3. CASE part = "twice" /\ Debt(Twins)!Next /\ part' = part
  BY <1>1, <1>3, LedgerMoves, MarksLandWhereEarned DEF LedgersInv
<1>4. CASE UNCHANGED ledgerVars /\ part' = part
  BY <1>1, <1>4, LedgerStays DEF LedgersInv
<1>5. CASE part \notin {"ledger", "twice"} /\ part' = part
  BY <1>5 DEF LedgersInv
<1> QED
  BY <1>2, <1>3, <1>4, <1>5 DEF PartNext, partVars

(* The ledger settles: for every tree, any number of files and lines,      *)
(* whatever the rules, links and taken names are, and however the editor   *)
(* and the commands interleave (mark_debt, apply_renames, check_file).     *)
THEOREM LedgersSettle == PartSpec => LedgerSettles
<1>1. Debt(Long)!DebtAssumption /\ Debt(Twins)!DebtAssumption
  BY LedgersAreTexts
<1>2. PartSpec => []LedgersInv
  <2>1. PartInit => LedgersInv
    BY LedgersStart
  <2>2. LedgersInv /\ [PartNext]_partVars => LedgersInv'
    BY LedgersMove
  <2> QED
    BY <2>1, <2>2, PTL DEF PartSpec
<1>3. LedgersInv => (part = "ledger" =>
            /\ Debt(Long)!TypeOK
            /\ Debt(Long)!ScopedAgrees
            /\ Debt(Long)!MarkingSettles
            /\ Debt(Long)!MarkingIsIdempotent
            /\ Debt(Long)!MarkingKeepsWhatIsHidden)
  BY <1>1, LedgerSays DEF LedgersInv
<1>4. LedgersInv => (part = "twice" =>
            /\ Debt(Twins)!MarkingSettles
            /\ Debt(Twins)!RenamingSettles
            /\ Debt(Twins)!RenamingKillsNoMarker)
  BY <1>1, LedgerSays DEF LedgersInv
<1>5. LedgersInv /\ [PartNext]_partVars => [part = "twice" => Debt(Twins)!MarksLand]_ledgerVars
  BY LedgersMove
<1> QED
  BY <1>2, <1>3, <1>4, <1>5, PTL DEF PartSpec, LedgerSettles

-------------------------------------------------------------------------------
(* The lines of a file of the hooks, in order.                             *)

(* What an instance counts with is what is counted with here.              *)
LEMMA CountsAlike ==
    ASSUME NEW of, NEW S
    PROVE  Hooks(of)!Cardinality(S) = Cardinality(S)
BY Zenon DEF Hooks!Cardinality, Cardinality

(* The k-th line is there: each line has its own number of lines above it. *)
LEMMA LinesAreRanked ==
    ASSUME NEW of, NEW file, Len(file) \in Nat
    PROVE  /\ Cardinality(Hooks(of)!Lines(file)) \in Nat
           /\ \A k \in 1 .. Cardinality(Hooks(of)!Lines(file)) :
                 \E i \in Hooks(of)!Lines(file) : Cardinality(Hooks(of)!Above(file, i)) + 1 = k
<1> DEFINE lines == Hooks(of)!Lines(file)
           above(i) == Hooks(of)!Above(file, i)
           n == Cardinality(lines)
           rank == [i \in lines |-> Cardinality(above(i)) + 1]
<1>1. lines \subseteq 1 .. Len(file) /\ \A i, j : j \in above(i) <=> j \in lines /\ j < i
  BY DEF Hooks!Lines, Hooks!Above
<1>2. IsFiniteSet(1 .. Len(file))
  BY FS_Interval
<1> HIDE DEF lines, above
<1>3. IsFiniteSet(lines) /\ n \in Nat
  BY <1>1, <1>2, FS_Subset, FS_CardinalityType
<1>4. ASSUME NEW i \in lines
      PROVE  IsFiniteSet(above(i)) /\ Cardinality(above(i)) \in Nat /\ Cardinality(above(i)) + 1 \in 1 .. n
  <2>1. above(i) \subseteq lines \ {i}
    BY <1>1
  <2>2. IsFiniteSet(lines \ {i}) /\ Cardinality(lines \ {i}) = n - 1
    BY <1>3, FS_RemoveElement
  <2>3. IsFiniteSet(above(i)) /\ Cardinality(above(i)) <= n - 1
    BY <2>1, <2>2, FS_Subset
  <2>4. Cardinality(above(i)) \in Nat
    BY <2>3, FS_CardinalityType
  <2> QED
    BY <1>3, <2>3, <2>4
<1>5. ASSUME NEW i \in lines, NEW j \in lines, i < j
      PROVE  Cardinality(above(i)) # Cardinality(above(j))
  <2>0. i \in Int /\ j \in Int /\ i < j
    BY <1>1, <1>5
  <2>1. above(i) \cup {i} \subseteq above(j) /\ i \notin above(i)
    <3>1. ASSUME NEW m \in above(i)
          PROVE  m \in above(j)
      <4>1. m \in lines /\ m < i
        BY <1>1
      <4>2. m \in Int
        BY <1>1, <4>1
      <4>3. m < j
        BY <2>0, <4>1, <4>2
      <4> QED
        BY <1>1, <4>1, <4>3
    <3>2. \A m \in above(i) : m \in above(j)
      BY <3>1
    <3>3. i \in above(j) /\ i \notin above(i)
      BY <1>1, <2>0
    <3> QED
      BY <3>2, <3>3
  <2>2. Cardinality(above(i) \cup {i}) = Cardinality(above(i)) + 1
    BY <1>4, <2>1, FS_AddElement
  <2>3. Cardinality(above(i) \cup {i}) <= Cardinality(above(j))
    BY <1>4, <2>1, FS_Subset
  <2> QED
    BY <1>4, <2>2, <2>3
<1>6. rank \in [lines -> 1 .. n] /\ \A i \in lines : rank[i] = Cardinality(above(i)) + 1
  BY <1>4
<1> HIDE DEF rank
<1>7. ASSUME NEW i \in lines, NEW j \in lines, rank[i] = rank[j]
      PROVE  i = j
  <2>1. i \in Int /\ j \in Int
    BY <1>1
  <2>2. Cardinality(above(i)) = Cardinality(above(j))
    BY <1>4, <1>6, <1>7
  <2> QED
    BY <1>5, <2>1, <2>2
<1>8. rank \in Injection(lines, 1 .. n)
  BY <1>6, <1>7 DEF Injection, IsInjective
<1>9. IsFiniteSet(1 .. n) /\ Cardinality(1 .. n) = n
  BY <1>3, FS_Interval
<1>10. rank \in Surjection(lines, 1 .. n)
  BY <1>8, <1>9, FS_Injection DEF n
<1>11. \A k \in 1 .. n : \E i \in lines : rank[i] = k
  BY <1>10 DEF Surjection
<1> QED
  BY <1>3, <1>6, <1>11 DEF lines, above

LEMMA RecordsAreOfLines ==
    ASSUME NEW of, NEW file, Len(file) \in Nat
    PROVE  \E line \in [1 .. Cardinality(Hooks(of)!Lines(file)) -> Hooks(of)!Lines(file)] :
              /\ Hooks(of)!Records(file) = [k \in 1 .. Cardinality(Hooks(of)!Lines(file)) |-> file[line[k]].by]
              /\ \A k \in 1 .. Cardinality(Hooks(of)!Lines(file)) :
                    Cardinality(Hooks(of)!Above(file, line[k])) + 1 = k
<1> DEFINE lines == Hooks(of)!Lines(file)
           n == Cardinality(lines)
           at(k) == CHOOSE i \in lines : Cardinality(Hooks(of)!Above(file, i)) + 1 = k
           line == [k \in 1 .. n |-> at(k)]
<1>1. Hooks(of)!Records(file) = [k \in 1 .. n |-> file[at(k)].by]
  BY Zenon DEF Hooks!Records, Hooks!Cardinality, Cardinality
<1>2. \A k \in 1 .. n : at(k) \in lines /\ Cardinality(Hooks(of)!Above(file, at(k))) + 1 = k
  BY LinesAreRanked
<1> HIDE DEF at, lines, n
<1>3. line \in [1 .. n -> lines] /\ \A k \in 1 .. n : line[k] = at(k)
  BY <1>2
<1> HIDE DEF line
<1>4. [k \in 1 .. n |-> file[at(k)].by] = [k \in 1 .. n |-> file[line[k]].by]
  BY <1>3
<1>5. Hooks(of)!Records(file) = [k \in 1 .. n |-> file[line[k]].by]
  BY <1>1, <1>4
<1>6. \A k \in 1 .. n : Cardinality(Hooks(of)!Above(file, line[k])) + 1 = k
  BY <1>2, <1>3
<1> QED
  BY <1>3, <1>5, <1>6 DEF lines, n

LEMMA RecordsAreOfPieces ==
    ASSUME NEW of, NEW file, Len(file) \in Nat
    PROVE  /\ Hooks(of)!Records(file) \in Seq({file[i].by : i \in 1 .. Len(file)})
           /\ Len(Hooks(of)!Records(file)) = Cardinality(Hooks(of)!Lines(file))
<1> DEFINE n == Cardinality(Hooks(of)!Lines(file))
<1>1. PICK line \in [1 .. n -> Hooks(of)!Lines(file)] :
          Hooks(of)!Records(file) = [k \in 1 .. n |-> file[line[k]].by]
  BY RecordsAreOfLines
<1>2. n \in Nat
  BY LinesAreRanked
<1>3. Hooks(of)!Lines(file) \subseteq 1 .. Len(file)
  BY DEF Hooks!Lines
<1> HIDE DEF n
<1>4. Hooks(of)!Records(file) \in [1 .. n -> {file[i].by : i \in 1 .. Len(file)}]
  BY <1>1, <1>3
<1>5. Hooks(of)!Records(file) \in Seq({file[i].by : i \in 1 .. Len(file)}) /\ Len(Hooks(of)!Records(file)) = n
  BY <1>2, <1>4
<1> QED
  BY <1>5 DEF n

LEMMA RecordIs ==
    ASSUME NEW of, NEW file, Len(file) \in Nat, NEW k \in 1 .. Len(Hooks(of)!Records(file))
    PROVE  \E i \in Hooks(of)!Lines(file) :
              Cardinality(Hooks(of)!Above(file, i)) + 1 = k /\ Hooks(of)!Records(file)[k] = file[i].by
<1> DEFINE n == Cardinality(Hooks(of)!Lines(file))
<1>1. PICK line \in [1 .. n -> Hooks(of)!Lines(file)] :
          /\ Hooks(of)!Records(file) = [m \in 1 .. n |-> file[line[m]].by]
          /\ \A m \in 1 .. n : Cardinality(Hooks(of)!Above(file, line[m])) + 1 = m
  BY RecordsAreOfLines
<1>2. k \in 1 .. n
  BY RecordsAreOfPieces
<1> HIDE DEF n
<1>3. line[k] \in Hooks(of)!Lines(file) /\ Hooks(of)!Records(file)[k] = file[line[k]].by
      /\ Cardinality(Hooks(of)!Above(file, line[k])) + 1 = k
  BY <1>1, <1>2
<1> QED
  BY <1>3

(* The records of h in a file.                                             *)
LinesBy(of, file, h) == {k \in 1 .. Len(Hooks(of)!Records(file)) : Hooks(of)!Records(file)[k] = h}

(* A file that holds one piece of h that can begin a line has at most one  *)
(* line of h.                                                              *)
LEMMA OnePieceOneLine ==
    ASSUME NEW of, NEW file, Len(file) \in Nat, NEW h,
           \A i, j \in 1 .. Len(file) :
               file[i].by = h /\ file[j].by = h /\ file[i].part # "tail" /\ file[j].part # "tail" => i = j
    PROVE  /\ Cardinality(LinesBy(of, file, h)) \in {0, 1}
           /\ LinesBy(of, file, h) # {} => Cardinality(LinesBy(of, file, h)) = 1
<1> DEFINE of_h == LinesBy(of, file, h)
<1>1. ASSUME NEW k \in of_h, NEW m \in of_h
      PROVE  k = m
  <2>0. /\ k \in 1 .. Len(Hooks(of)!Records(file)) /\ Hooks(of)!Records(file)[k] = h
        /\ m \in 1 .. Len(Hooks(of)!Records(file)) /\ Hooks(of)!Records(file)[m] = h
    BY DEF of_h, LinesBy
  <2>1. PICK i \in Hooks(of)!Lines(file) : Cardinality(Hooks(of)!Above(file, i)) + 1 = k /\ file[i].by = h
    BY <2>0, RecordIs
  <2>2. PICK j \in Hooks(of)!Lines(file) : Cardinality(Hooks(of)!Above(file, j)) + 1 = m /\ file[j].by = h
    BY <2>0, RecordIs
  <2>3. i \in 1 .. Len(file) /\ j \in 1 .. Len(file) /\ file[i].part # "tail" /\ file[j].part # "tail"
    BY DEF Hooks!Lines, Hooks!Readable
  <2>4. i = j
    BY <2>1, <2>2, <2>3
  <2> QED
    BY <2>1, <2>2, <2>4
<1> HIDE DEF of_h
<1>2. CASE of_h = {}
  BY <1>2, FS_EmptySet DEF of_h
<1>3. CASE of_h # {}
  <2>1. PICK k \in of_h : of_h = {k}
    BY <1>1, <1>3
  <2> QED
    BY <2>1, FS_Singleton DEF of_h
<1> QED
  BY <1>2, <1>3

LEMMA CountUpTo ==
    ASSUME NEW n \in Nat
    PROVE  Cardinality(1 .. n) = n
BY FS_Interval

(* A file of whole pieces has a record for each.                           *)
LEMMA WholeRecords ==
    ASSUME NEW of, NEW file, Len(file) \in Nat, \A i \in 1 .. Len(file) : file[i].part = "whole"
    PROVE  /\ Len(Hooks(of)!Records(file)) = Len(file)
           /\ \A k \in 1 .. Len(file) : Hooks(of)!Records(file)[k] = file[k].by
<1>1. Hooks(of)!Lines(file) = 1 .. Len(file)
  BY DEF Hooks!Lines, Hooks!Readable, Hooks!StartsLine
<1>2. Len(Hooks(of)!Records(file)) = Len(file)
  BY <1>1, CountUpTo, RecordsAreOfPieces
<1>3. ASSUME NEW i \in 1 .. Len(file)
      PROVE  Cardinality(Hooks(of)!Above(file, i)) + 1 = i
  <2>1. Hooks(of)!Above(file, i) = 1 .. i - 1
    BY <1>1 DEF Hooks!Above
  <2>2. i - 1 \in Nat
    OBVIOUS
  <2>3. Cardinality(1 .. i - 1) = i - 1
    BY <2>2, CountUpTo
  <2> QED
    BY <2>1, <2>3
<1>4. ASSUME NEW k \in 1 .. Len(file)
      PROVE  Hooks(of)!Records(file)[k] = file[k].by
  <2>1. PICK i \in 1 .. Len(file) :
            Cardinality(Hooks(of)!Above(file, i)) + 1 = k /\ Hooks(of)!Records(file)[k] = file[i].by
    BY <1>1, <1>2, RecordIs
  <2> QED
    BY <1>3, <2>1
<1> QED
  BY <1>2, <1>4

-------------------------------------------------------------------------------
(* The hooks.  Beside the types: a hook says nothing before its worker has *)
(* answered, and never more than the answer and its mode allow; the log    *)
(* holds at most one piece of a hook that can begin a line, none before it *)
(* came to the log; where write calls append all of it, every piece is     *)
(* whole; and where, besides, no week passes, the session's file is what   *)
(* was recorded.                                                           *)

Unlogged == {"waits", "guide", "analyze", "log"}
Logged == {"look", "prune", "answer", "ended"}
Points == Unlogged \cup Logged \cup {"append", "appendRest", "logRest", "killed"}

Pieces(of, from) == [by : from, part : {"whole", "head", "tail"}]

Holds(of) ==
    [pc : Points, mode : Hooks(of)!Modes \cup {"none"}, guidance : Seq(of.loaders), recent : Seq(of.loaders),
     placement : Hooks(of)!Placements, status : {"ok", "error", "timeout", "disabled"},
     said : {"nothing", "advice", "feedback"}, findings : BOOLEAN, stale : BOOLEAN, open : BOOLEAN]

HookTypes(of) ==
    /\ conf \in Hooks(of)!Modes
    /\ session \in [exists : BOOLEAN, pieces : Seq(Pieces(of, of.loaders)), old : BOOLEAN]
    /\ log \in Seq(Pieces(of, of.writers))
    /\ hook \in [Hooks(of)!Hooks -> Holds(of)]
    /\ worker \in [of.writers -> {"none", "running", "gone"}]
    /\ recorded \in Seq(of.loaders) /\ pauses \in Nat

SessionIsHeld(of) ==
    /\ session.old => session.exists
    /\ \A h \in Hooks(of)!Hooks : hook[h].open => session.exists /\ h \in of.loaders

(* What the hook k may say.                                                *)
Minds(k) ==
    /\ k.status # "ok" => k.said = "nothing"
    /\ k.said = "feedback" => k.placement = "governed" /\ k.findings /\ k.mode = "feedback"
    /\ k.pc \in {"waits", "guide", "analyze"} => k.said = "nothing" /\ k.status = "ok"
    /\ k.pc = "waits" => k.mode = "none"

EachMinds(of) == \A h \in of.writers : Minds(hook[h])

OncePerHook(of) ==
    /\ \A i, j \in 1 .. Len(log) :
          log[i].by = log[j].by /\ log[i].part # "tail" /\ log[j].part # "tail" => i = j
    /\ \A h \in of.writers : hook[h].pc \in Unlogged => \A i \in 1 .. Len(log) : log[i].by # h

WholeFiles(of) ==
    ~of.partial =>
        /\ \A i \in 1 .. Len(log) : log[i].part = "whole"
        /\ \A i \in 1 .. Len(session.pieces) : session.pieces[i].part = "whole"
        /\ \A h \in Hooks(of)!Hooks : hook[h].pc \notin {"appendRest", "logRest"}
        /\ \A h \in of.writers : hook[h].pc \in Logged => \E i \in 1 .. Len(log) : log[i].by = h

Kept(of) == ~of.partial /\ of.pauses = 0

AllIsKept(of) ==
    Kept(of) =>
        /\ pauses = 0 /\ ~session.old
        /\ Len(recorded) = Len(session.pieces)
        /\ \A i \in 1 .. Len(recorded) : recorded[i] = session.pieces[i].by
        /\ \A h \in Hooks(of)!Hooks :
              ~hook[h].stale /\ (hook[h].pc = "append" => hook[h].open) /\ hook[h].recent = hook[h].guidance

HookInv(of) ==
    HookTypes(of) /\ SessionIsHeld(of) /\ EachMinds(of) /\ OncePerHook(of) /\ WholeFiles(of) /\ AllIsKept(of)

LEMMA HooksStart ==
    ASSUME NEW of, Hooks(of)!HookAssumption, Hooks(of)!Init
    PROVE  HookInv(of)
<1>1. \A h \in Hooks(of)!Hooks : hook[h] = Hooks(of)!Start
  BY DEF Hooks!Init
<1>2. Hooks(of)!Start \in Holds(of) /\ Minds(Hooks(of)!Start)
  BY DEF Hooks!Start, Holds, Points, Unlogged, Hooks!Placements, Minds
<1>3. HookTypes(of)
  BY <1>2 DEF Hooks!Init, Hooks!Absent, HookTypes
<1>4. SessionIsHeld(of)
  BY <1>1 DEF Hooks!Init, Hooks!Absent, Hooks!Start, SessionIsHeld
<1>5. EachMinds(of)
  BY <1>1, <1>2 DEF EachMinds, Hooks!Hooks
<1>6. OncePerHook(of)
  BY DEF Hooks!Init, OncePerHook
<1>7. WholeFiles(of)
  BY <1>1 DEF Hooks!Init, Hooks!Absent, Hooks!Start, Hooks!Hooks, WholeFiles, Logged
<1>8. AllIsKept(of)
  BY <1>1 DEF Hooks!Init, Hooks!Absent, Hooks!Start, AllIsKept
<1> QED
  BY <1>3, <1>4, <1>5, <1>6, <1>7, <1>8 DEF HookInv

-------------------------------------------------------------------------------
(* A step of one hook that leaves the files alone.                         *)

LEMMA HookTurns ==
    ASSUME NEW of, HookTypes(of), NEW h \in Hooks(of)!Hooks, NEW new \in Holds(of),
           hook' = [hook EXCEPT ![h] = new]
    PROVE  /\ hook' \in [Hooks(of)!Hooks -> Holds(of)] /\ hook'[h] = new
           /\ \A k \in Hooks(of)!Hooks : k # h => hook'[k] = hook[k]
BY DEF HookTypes

(* What new must keep of what the hook held.                               *)
Follows(of, h, new) ==
    /\ new \in Holds(of)
    /\ new.open => hook[h].open
    /\ h \in of.writers => Minds(new)
    /\ new.pc \in Unlogged => hook[h].pc \in Unlogged
    /\ ~of.partial /\ h \in of.writers /\ new.pc \in Logged => hook[h].pc \in Logged
    /\ new.pc \notin {"append", "appendRest", "logRest"}
    /\ Kept(of) => ~new.stale /\ new.recent = new.guidance

LEMMA HookAdvances ==
    ASSUME NEW of, HookInv(of), NEW h \in Hooks(of)!Hooks, NEW new, Follows(of, h, new),
           hook' = [hook EXCEPT ![h] = new], UNCHANGED <<conf, session, log, recorded, pauses>>,
           worker' \in [of.writers -> {"none", "running", "gone"}]
    PROVE  HookInv(of)'
<1>1. /\ hook' \in [Hooks(of)!Hooks -> Holds(of)] /\ hook'[h] = new
      /\ \A k \in Hooks(of)!Hooks : k # h => hook'[k] = hook[k]
  BY HookTurns DEF HookInv, Follows
<1>2. HookTypes(of)'
  BY <1>1 DEF HookInv, HookTypes
<1>3. SessionIsHeld(of)'
  BY <1>1 DEF HookInv, SessionIsHeld, Follows
<1>4. EachMinds(of)'
  BY <1>1 DEF HookInv, EachMinds, Follows, Hooks!Hooks
<1>5. OncePerHook(of)'
  BY <1>1 DEF HookInv, OncePerHook, Follows, Hooks!Hooks
<1>6. WholeFiles(of)'
  BY <1>1 DEF HookInv, WholeFiles, Follows, Hooks!Hooks
<1>7. AllIsKept(of)'
  BY <1>1 DEF HookInv, AllIsKept, Follows, Kept
<1> QED
  BY <1>2, <1>3, <1>4, <1>5, <1>6, <1>7 DEF HookInv

LEMMA HookHolds ==
    ASSUME NEW of, HookInv(of), NEW h \in Hooks(of)!Hooks
    PROVE  /\ hook[h] \in Holds(of) /\ (h \in of.writers => Minds(hook[h]))
           /\ Kept(of) => ~hook[h].stale /\ hook[h].recent = hook[h].guidance
BY DEF HookInv, HookTypes, EachMinds, AllIsKept

LEMMA ReadConfKeeps ==
    ASSUME NEW of, HookInv(of), NEW h \in of.writers, Hooks(of)!ReadConf(h)
    PROVE  HookInv(of)'
<1> DEFINE new == [hook[h] EXCEPT !.pc = "guide", !.mode = conf]
<1>1. h \in Hooks(of)!Hooks /\ hook[h] \in Holds(of) /\ Minds(hook[h]) /\ hook[h].pc = "waits"
  BY HookHolds DEF Hooks!Hooks, Hooks!ReadConf, Hooks!At
<1>2. hook' = [hook EXCEPT ![h] = new]
  BY <1>1 DEF Hooks!ReadConf, HookInv, HookTypes
<1>3. Follows(of, h, new)
  <2>1. new \in Holds(of)
    BY <1>1 DEF Holds, Points, Unlogged, HookInv, HookTypes
  <2> QED
    BY <1>1, <2>1, HookHolds DEF Follows, Minds, Holds, Unlogged, Logged
<1> HIDE DEF new
<1> QED
  BY <1>1, <1>2, <1>3, HookAdvances DEF Hooks!ReadConf, HookInv, HookTypes

LEMMA ReadGuidanceKeeps ==
    ASSUME NEW of, HookInv(of), NEW h \in of.writers, Hooks(of)!ReadGuidance(h)
    PROVE  HookInv(of)'
<1>1. h \in Hooks(of)!Hooks /\ hook[h] \in Holds(of) /\ Minds(hook[h]) /\ hook[h].pc = "guide"
  BY HookHolds DEF Hooks!Hooks, Hooks!ReadGuidance, Hooks!At
<1>2. session.pieces \in Seq(Pieces(of, of.loaders)) /\ recorded \in Seq(of.loaders)
  BY DEF HookInv, HookTypes
<1>3. Hooks(of)!Records(session.pieces) \in Seq(of.loaders)
  <2>0. \A i \in 1 .. Len(session.pieces) : session.pieces[i] \in Pieces(of, of.loaders)
    BY <1>2
  <2>1. {session.pieces[i].by : i \in 1 .. Len(session.pieces)} \subseteq of.loaders
    BY <2>0 DEF Pieces
  <2>2. Hooks(of)!Records(session.pieces) \in Seq({session.pieces[i].by : i \in 1 .. Len(session.pieces)})
    BY <1>2, RecordsAreOfPieces
  <2> QED
    BY <2>1, <2>2
<1>4. Kept(of) => recorded = Hooks(of)!Records(session.pieces)
  <2> SUFFICES ASSUME Kept(of) PROVE recorded = Hooks(of)!Records(session.pieces)
    OBVIOUS
  <2>1. /\ Len(recorded) = Len(session.pieces)
        /\ \A i \in 1 .. Len(recorded) : recorded[i] = session.pieces[i].by
    BY DEF HookInv, AllIsKept
  <2>2. \A i \in 1 .. Len(session.pieces) : session.pieces[i].part = "whole"
    BY DEF HookInv, WholeFiles, Kept
  <2>3. Len(session.pieces) \in Nat
    BY <1>2
  <2>4. /\ Len(Hooks(of)!Records(session.pieces)) = Len(session.pieces)
        /\ \A k \in 1 .. Len(session.pieces) :
              Hooks(of)!Records(session.pieces)[k] = session.pieces[k].by
    BY <2>2, <2>3, WholeRecords
  <2> QED
    BY <1>2, <1>3, <2>1, <2>4
<1> DEFINE records == Hooks(of)!Records(session.pieces)
<1>5. PICK inTree \in BOOLEAN : \E analyzed \in BOOLEAN :
          /\ hook' = [hook EXCEPT
                ![h].guidance = records, ![h].recent = recorded,
                ![h].placement = IF inTree THEN "unknown" ELSE "outside",
                ![h].status = IF hook[h].mode = "disabled" THEN "disabled" ELSE "ok",
                ![h].pc = IF analyzed THEN "analyze" ELSE "log"]
          /\ worker' = IF analyzed THEN [worker EXCEPT ![h] = "running"] ELSE worker
          /\ analyzed => hook[h].mode # "disabled"
  BY DEF Hooks!ReadGuidance
<1>6. PICK analyzed \in BOOLEAN :
          /\ hook' = [hook EXCEPT
                ![h].guidance = records, ![h].recent = recorded,
                ![h].placement = IF inTree THEN "unknown" ELSE "outside",
                ![h].status = IF hook[h].mode = "disabled" THEN "disabled" ELSE "ok",
                ![h].pc = IF analyzed THEN "analyze" ELSE "log"]
          /\ worker' = IF analyzed THEN [worker EXCEPT ![h] = "running"] ELSE worker
          /\ analyzed => hook[h].mode # "disabled"
  BY <1>5
<1> HIDE DEF records
<1> DEFINE new ==
        [hook[h] EXCEPT !.guidance = records, !.recent = recorded,
            !.placement = IF inTree THEN "unknown" ELSE "outside",
            !.status = IF hook[h].mode = "disabled" THEN "disabled" ELSE "ok",
            !.pc = IF analyzed THEN "analyze" ELSE "log"]
<1>7. hook' = [hook EXCEPT ![h] = new]
  BY <1>1, <1>6 DEF HookInv, HookTypes
<1>8. Follows(of, h, new)
  <2>1. new \in Holds(of)
    <3>1. records \in Seq(of.loaders) /\ recorded \in Seq(of.loaders)
      BY <1>2, <1>3 DEF records
    <3>2. {"analyze", "log"} \subseteq Points /\ {"unknown", "outside"} \subseteq Hooks(of)!Placements
      BY DEF Points, Unlogged, Hooks!Placements
    <3>3. new.pc \in Points /\ new.placement \in Hooks(of)!Placements /\ new.status \in {"ok", "disabled"}
      BY <1>1, <3>2 DEF Holds
    <3> QED
      BY <1>1, <3>1, <3>2 DEF Holds
  <2>2. Minds(new)
    BY <1>1, <1>6 DEF Minds, Holds
  <2>3. new.recent = recorded /\ new.guidance = records /\ new.stale = hook[h].stale /\ new.open = hook[h].open
        /\ new.pc \in {"analyze", "log"}
    BY <1>1 DEF Holds
  <2> HIDE DEF new
  <2> QED
    BY <1>1, <1>4, <2>1, <2>2, <2>3, HookHolds DEF Follows, Unlogged, Logged, records
<1>9. worker' \in [of.writers -> {"none", "running", "gone"}]
  BY <1>6 DEF HookInv, HookTypes
<1> HIDE DEF new
<1> QED
  BY <1>1, <1>7, <1>8, <1>9, HookAdvances DEF Hooks!ReadGuidance

(* What a worker answers, and what the hook is to say of it.               *)
LEMMA AnswersAreMinded ==
    ASSUME NEW of, NEW mode, NEW a \in Hooks(of)!CheckWrite(mode)
    PROVE  /\ a.placement \in Hooks(of)!Placements /\ a.findings \in BOOLEAN
           /\ a.said \in {"nothing", "advice", "feedback"}
           /\ a.said = "feedback" => a.placement = "governed" /\ a.findings /\ mode = "feedback"
<1>1. PICK b \in Hooks(of)!Answers :
          a = [placement |-> b.placement, findings |-> b.findings,
               said |-> Hooks(of)!Said(mode, b.placement, b.findings)]
  BY DEF Hooks!CheckWrite
<1>2. b.placement \in Hooks(of)!Placements /\ b.findings \in BOOLEAN
  BY DEF Hooks!Answers
<1> QED
  BY <1>1, <1>2 DEF Hooks!Said

LEMMA WorkerAnswersKeeps ==
    ASSUME NEW of, HookInv(of), NEW h \in of.writers, Hooks(of)!WorkerAnswers(h)
    PROVE  HookInv(of)'
<1>1. h \in Hooks(of)!Hooks /\ hook[h] \in Holds(of) /\ Minds(hook[h]) /\ hook[h].pc = "analyze"
  BY HookHolds DEF Hooks!Hooks, Hooks!WorkerAnswers, Hooks!At
<1>2. PICK a \in Hooks(of)!CheckWrite(hook[h].mode) :
          hook' = [hook EXCEPT ![h].pc = "log", ![h].placement = a.placement,
                       ![h].findings = a.findings, ![h].said = a.said]
  BY DEF Hooks!WorkerAnswers
<1> DEFINE new == [hook[h] EXCEPT !.pc = "log", !.placement = a.placement, !.findings = a.findings, !.said = a.said]
<1>3. hook' = [hook EXCEPT ![h] = new]
  BY <1>1, <1>2 DEF HookInv, HookTypes
<1>4. Follows(of, h, new)
  <2>1. new \in Holds(of)
    BY <1>1, AnswersAreMinded DEF Holds, Points, Unlogged
  <2>2. Minds(new)
    BY <1>1, AnswersAreMinded DEF Minds, Holds
  <2> QED
    BY <1>1, <2>1, <2>2, HookHolds DEF Follows, Holds, Unlogged, Logged
<1> HIDE DEF new
<1>5. worker' \in [of.writers -> {"none", "running", "gone"}]
  BY DEF Hooks!WorkerAnswers, HookInv, HookTypes
<1> QED
  BY <1>1, <1>3, <1>4, <1>5, HookAdvances DEF Hooks!WorkerAnswers

(* The worker fails, or its budget is spent.                               *)
LEMMA WorkerGivesUpKeeps ==
    ASSUME NEW of, HookInv(of), NEW h \in of.writers, Hooks(of)!WorkerFails(h) \/ Hooks(of)!Timeout(h)
    PROVE  HookInv(of)'
<1>1. h \in Hooks(of)!Hooks /\ hook[h] \in Holds(of) /\ Minds(hook[h]) /\ hook[h].pc = "analyze"
  BY HookHolds DEF Hooks!Hooks, Hooks!WorkerFails, Hooks!Timeout, Hooks!At
<1>2. PICK status \in {"error", "timeout"} : hook' = [hook EXCEPT ![h].pc = "log", ![h].status = status]
  BY DEF Hooks!WorkerFails, Hooks!Timeout
<1> DEFINE new == [hook[h] EXCEPT !.pc = "log", !.status = status]
<1>3. hook' = [hook EXCEPT ![h] = new]
  BY <1>1, <1>2 DEF HookInv, HookTypes
<1>4. Follows(of, h, new)
  <2>1. new \in Holds(of)
    BY <1>1 DEF Holds, Points, Unlogged
  <2>2. Minds(new)
    BY <1>1 DEF Minds, Holds
  <2> QED
    BY <1>1, <2>1, <2>2, HookHolds DEF Follows, Holds, Unlogged, Logged
<1> HIDE DEF new
<1>5. worker' \in [of.writers -> {"none", "running", "gone"}]
  BY DEF Hooks!WorkerFails, Hooks!Timeout, HookInv, HookTypes
<1> QED
  BY <1>1, <1>3, <1>4, <1>5, HookAdvances DEF Hooks!WorkerFails, Hooks!Timeout

LEMMA LookAtSessionKeeps ==
    ASSUME NEW of, HookInv(of), NEW h \in of.writers, Hooks(of)!LookAtSession(h)
    PROVE  HookInv(of)'
<1>1. h \in Hooks(of)!Hooks /\ hook[h] \in Holds(of) /\ Minds(hook[h]) /\ hook[h].pc = "look"
  BY HookHolds DEF Hooks!Hooks, Hooks!LookAtSession, Hooks!At
<1> DEFINE stale == session.exists /\ session.old
           new == [hook[h] EXCEPT !.pc = "prune", !.stale = stale]
<1>2. stale \in BOOLEAN /\ (Kept(of) => ~stale)
  BY DEF HookInv, AllIsKept
<1>3. hook' = [hook EXCEPT ![h] = new]
  BY <1>1 DEF Hooks!LookAtSession, HookInv, HookTypes
<1> HIDE DEF stale
<1>4. Follows(of, h, new)
  <2>1. new \in Holds(of)
    BY <1>1, <1>2 DEF Holds, Points, Logged
  <2>2. Minds(new)
    BY <1>1 DEF Minds, Holds
  <2> QED
    BY <1>1, <1>2, <2>1, <2>2, HookHolds DEF Follows, Holds, Unlogged, Logged
<1> HIDE DEF new
<1> QED
  BY <1>1, <1>3, <1>4, HookAdvances DEF Hooks!LookAtSession, HookInv, HookTypes

LEMMA AnswerKeeps ==
    ASSUME NEW of, HookInv(of), NEW h \in of.writers, Hooks(of)!Answer(h)
    PROVE  HookInv(of)'
<1>1. h \in Hooks(of)!Hooks /\ hook[h] \in Holds(of) /\ Minds(hook[h]) /\ hook[h].pc = "answer"
  BY HookHolds DEF Hooks!Hooks, Hooks!Answer, Hooks!At
<1> DEFINE new == [hook[h] EXCEPT !.pc = "ended"]
<1>2. hook' = [hook EXCEPT ![h] = new]
  BY <1>1 DEF Hooks!Answer, HookInv, HookTypes
<1>3. Follows(of, h, new)
  <2>1. new \in Holds(of) /\ Minds(new)
    BY <1>1 DEF Holds, Points, Logged, Minds
  <2> QED
    BY <1>1, <2>1, HookHolds DEF Follows, Holds, Unlogged, Logged
<1> HIDE DEF new
<1> QED
  BY <1>1, <1>2, <1>3, HookAdvances DEF Hooks!Answer, HookInv, HookTypes

LEMMA KillKeeps ==
    ASSUME NEW of, HookInv(of), NEW h \in Hooks(of)!Hooks, Hooks(of)!Kill(h)
    PROVE  HookInv(of)'
<1>1. hook[h] \in Holds(of) /\ (h \in of.writers => Minds(hook[h]))
  BY HookHolds
<1> DEFINE new == [hook[h] EXCEPT !.pc = "killed", !.open = FALSE]
<1>2. hook' = [hook EXCEPT ![h] = new]
  BY <1>1 DEF Hooks!Kill, HookInv, HookTypes
<1>3. Follows(of, h, new)
  <2>1. new \in Holds(of) /\ (h \in of.writers => Minds(new))
    BY <1>1 DEF Holds, Points, Minds
  <2> QED
    BY <1>1, <2>1, HookHolds DEF Follows, Holds, Unlogged, Logged
<1> HIDE DEF new
<1> QED
  BY <1>2, <1>3, HookAdvances DEF Hooks!Kill, HookInv, HookTypes

-------------------------------------------------------------------------------
(* The steps that write to the files.                                      *)

(* A hook appends to the log.                                              *)
LEMMA LogGrows ==
    ASSUME NEW of, HookInv(of), NEW h \in of.writers, NEW new \in Holds(of), hook' = [hook EXCEPT ![h] = new],
           NEW bit \in {"whole", "head", "tail"}, log' = Append(log, Hooks(of)!Piece(h, bit)),
           UNCHANGED <<conf, session, worker, recorded, pauses>>,
           bit # "tail" => hook[h].pc = "log", new.pc \in {"look", "logRest"},
           ~of.partial => bit = "whole" /\ new.pc = "look",
           Minds(new), ~new.open, Kept(of) => ~new.stale /\ new.recent = new.guidance
    PROVE  HookInv(of)'
<1> DEFINE piece == Hooks(of)!Piece(h, bit)
<1>1. h \in Hooks(of)!Hooks /\ piece \in Pieces(of, of.writers) /\ piece.by = h /\ piece.part = bit
  BY DEF Hooks!Hooks, Hooks!Piece, Pieces
<1>2. /\ hook' \in [Hooks(of)!Hooks -> Holds(of)] /\ hook'[h] = new
      /\ \A k \in Hooks(of)!Hooks : k # h => hook'[k] = hook[k]
  BY <1>1, HookTurns DEF HookInv
<1>3. log \in Seq(Pieces(of, of.writers))
  BY DEF HookInv, HookTypes
<1> HIDE DEF piece
<1>4. /\ log' \in Seq(Pieces(of, of.writers)) /\ Len(log') = Len(log) + 1 /\ Len(log) \in Nat
      /\ \A i \in 1 .. Len(log) : log'[i] = log[i]
      /\ log'[Len(log) + 1] = piece
  BY <1>1, <1>3 DEF piece
<1>5. HookTypes(of)'
  BY <1>2, <1>4 DEF HookInv, HookTypes
<1>6. SessionIsHeld(of)'
  BY <1>2 DEF HookInv, SessionIsHeld
<1>7. EachMinds(of)'
  BY <1>2 DEF HookInv, EachMinds, Hooks!Hooks
<1>8. ASSUME NEW i \in 1 .. Len(log')
      PROVE  i \in 1 .. Len(log) \/ i = Len(log) + 1
  BY <1>4
<1>9. OncePerHook(of)'
  <2>1. ASSUME NEW i \in 1 .. Len(log'), NEW j \in 1 .. Len(log'), log'[i].by = log'[j].by,
               log'[i].part # "tail", log'[j].part # "tail"
        PROVE  i = j
    <3>1. hook[h].pc \in Unlogged /\ bit # "tail" => \A m \in 1 .. Len(log) : log[m].by # h
      BY DEF HookInv, OncePerHook
    <3>2. bit # "tail" => hook[h].pc \in Unlogged
      BY DEF Unlogged
    <3>3. CASE i \in 1 .. Len(log) /\ j \in 1 .. Len(log)
      BY <1>4, <2>1, <3>3 DEF HookInv, OncePerHook
    <3>4. CASE i = Len(log) + 1 /\ j \in 1 .. Len(log)
      BY <1>1, <1>4, <2>1, <3>1, <3>2, <3>4
    <3>5. CASE j = Len(log) + 1 /\ i \in 1 .. Len(log)
      BY <1>1, <1>4, <2>1, <3>1, <3>2, <3>5
    <3> QED
      BY <1>8, <3>3, <3>4, <3>5
  <2>2. ASSUME NEW k \in of.writers, hook'[k].pc \in Unlogged, NEW i \in 1 .. Len(log')
        PROVE  log'[i].by # k
    <3>1. k # h /\ k \in Hooks(of)!Hooks
      BY <1>2, <2>2 DEF Unlogged, Hooks!Hooks
    <3>2. hook[k].pc \in Unlogged
      BY <1>2, <2>2, <3>1
    <3>3. CASE i \in 1 .. Len(log)
      BY <1>4, <3>2, <3>3 DEF HookInv, OncePerHook
    <3>4. CASE i = Len(log) + 1
      BY <1>1, <1>4, <3>1, <3>4
    <3> QED
      BY <1>8, <3>3, <3>4
  <2> QED
    BY <2>1, <2>2 DEF OncePerHook
<1>10. WholeFiles(of)'
  <2> SUFFICES ASSUME ~of.partial PROVE WholeFiles(of)'
    BY DEF WholeFiles
  <2>1. ASSUME NEW i \in 1 .. Len(log')
        PROVE  log'[i].part = "whole"
    BY <1>1, <1>4, <1>8 DEF HookInv, WholeFiles
  <2>2. ASSUME NEW k \in of.writers, hook'[k].pc \in Logged
        PROVE  \E i \in 1 .. Len(log') : log'[i].by = k
    <3>1. CASE k = h
      BY <1>1, <1>4, <3>1
    <3>2. CASE k # h
      <4>1. hook[k].pc \in Logged
        BY <1>2, <2>2, <3>2 DEF Hooks!Hooks
      <4>2. PICK i \in 1 .. Len(log) : log[i].by = k
        BY <4>1 DEF HookInv, WholeFiles
      <4> QED
        BY <1>4, <4>2
    <3> QED
      BY <3>1, <3>2
  <2>3. \A k \in Hooks(of)!Hooks : hook'[k].pc \notin {"appendRest", "logRest"}
    BY <1>2 DEF HookInv, WholeFiles
  <2> QED
    BY <2>1, <2>2, <2>3 DEF HookInv, WholeFiles
<1>11. AllIsKept(of)'
  BY <1>2 DEF HookInv, AllIsKept, Kept
<1> QED
  BY <1>5, <1>6, <1>7, <1>9, <1>10, <1>11 DEF HookInv

LEMMA WritersAreNotLoaders ==
    ASSUME NEW of, Hooks(of)!HookAssumption, HookInv(of), NEW h \in of.writers
    PROVE  ~hook[h].open
BY DEF Hooks!HookAssumption, HookInv, SessionIsHeld, Hooks!Hooks

LEMMA AppendLineKeeps ==
    ASSUME NEW of, Hooks(of)!HookAssumption, HookInv(of), NEW h \in of.writers, Hooks(of)!AppendLine(h)
    PROVE  HookInv(of)'
<1>1. h \in Hooks(of)!Hooks /\ hook[h] \in Holds(of) /\ Minds(hook[h]) /\ hook[h].pc = "log" /\ ~hook[h].open
  BY HookHolds, WritersAreNotLoaders DEF Hooks!Hooks, Hooks!AppendLine, Hooks!At
<1>2. PICK bit \in {"whole", "head", "nothing"} :
          /\ log' = IF bit = "nothing" THEN log ELSE Append(log, Hooks(of)!Piece(h, bit))
          /\ hook' = [hook EXCEPT ![h].pc = IF bit = "head" THEN "logRest" ELSE "look"]
          /\ bit # "whole" => of.partial
  BY DEF Hooks!AppendLine
<1> DEFINE pc2 == IF bit = "head" THEN "logRest" ELSE "look"
           new == [hook[h] EXCEPT !.pc = pc2]
<1>3. hook' = [hook EXCEPT ![h] = new]
  BY <1>1, <1>2 DEF HookInv, HookTypes
<1>4. /\ new \in Holds(of) /\ Minds(new) /\ new.pc \in {"look", "logRest"} /\ ~new.open
      /\ (~of.partial => new.pc = "look") /\ (Kept(of) => ~new.stale /\ new.recent = new.guidance)
      /\ bit = "nothing" => new.pc = "look"
  BY <1>1, <1>2, HookHolds DEF Holds, Points, Logged, Minds
<1> HIDE DEF new
<1>5. CASE bit = "nothing"
  <2>1. of.partial /\ log' = log
    BY <1>2, <1>5
  <2>2. Follows(of, h, new)
    BY <1>4, <1>5, <2>1 DEF Follows, Unlogged
  <2> QED
    BY <1>1, <1>3, <2>1, <2>2, HookAdvances DEF Hooks!AppendLine, HookInv, HookTypes
<1>6. CASE bit # "nothing"
  BY <1>1, <1>2, <1>3, <1>4, <1>6, LogGrows DEF Hooks!AppendLine
<1> QED
  BY <1>5, <1>6

LEMMA AppendLineRestKeeps ==
    ASSUME NEW of, Hooks(of)!HookAssumption, HookInv(of), NEW h \in of.writers, Hooks(of)!AppendLineRest(h)
    PROVE  HookInv(of)'
<1>1. h \in Hooks(of)!Hooks /\ hook[h] \in Holds(of) /\ Minds(hook[h]) /\ hook[h].pc = "logRest" /\ ~hook[h].open
  BY HookHolds, WritersAreNotLoaders DEF Hooks!Hooks, Hooks!AppendLineRest, Hooks!At
<1>2. of.partial
  BY <1>1 DEF HookInv, WholeFiles, Hooks!HookAssumption
<1> DEFINE new == [hook[h] EXCEPT !.pc = "look"]
<1>3. hook' = [hook EXCEPT ![h] = new]
  BY <1>1 DEF Hooks!AppendLineRest, HookInv, HookTypes
<1>4. /\ new \in Holds(of) /\ Minds(new) /\ new.pc = "look" /\ ~new.open
      /\ Kept(of) => ~new.stale /\ new.recent = new.guidance
  BY <1>1, HookHolds DEF Holds, Points, Logged, Minds
<1> HIDE DEF new
<1>5. Follows(of, h, new)
  BY <1>2, <1>4 DEF Follows, Unlogged
<1>6. CASE log' = log
  BY <1>1, <1>3, <1>5, <1>6, HookAdvances DEF Hooks!AppendLineRest, HookInv, HookTypes
<1>7. CASE log' = Append(log, Hooks(of)!Piece(h, "tail"))
  BY <1>2, <1>3, <1>4, <1>7, LogGrows DEF Hooks!AppendLineRest
<1> QED
  BY <1>6, <1>7 DEF Hooks!AppendLineRest

(* A loader opens the session's file ...                                   *)
LEMMA OpenSessionKeeps ==
    ASSUME NEW of, Hooks(of)!HookAssumption, HookInv(of), NEW h \in of.loaders, Hooks(of)!OpenSession(h)
    PROVE  HookInv(of)'
<1>1. h \in Hooks(of)!Hooks /\ hook[h] \in Holds(of) /\ hook[h].pc = "waits" /\ h \notin of.writers
  BY HookHolds DEF Hooks!Hooks, Hooks!OpenSession, Hooks!At, Hooks!HookAssumption
<1>2. CASE of.partial /\ UNCHANGED session /\ hook' = [hook EXCEPT ![h].pc = "ended", ![h].open = FALSE]
  <2> DEFINE new == [hook[h] EXCEPT !.pc = "ended", !.open = FALSE]
  <2>1. hook' = [hook EXCEPT ![h] = new]
    BY <1>2, <1>1 DEF HookInv, HookTypes
  <2>2. /\ new \in Holds(of) /\ new.pc = "ended" /\ ~new.open
        /\ Kept(of) => ~new.stale /\ new.recent = new.guidance
    BY <1>1, HookHolds DEF Holds, Points, Logged
  <2> HIDE DEF new
  <2>3. Follows(of, h, new)
    BY <1>1, <2>2 DEF Follows, Unlogged
  <2> QED
    BY <1>1, <1>2, <2>1, <2>3, HookAdvances DEF Hooks!OpenSession, HookInv, HookTypes
<1>3. CASE /\ hook' = [hook EXCEPT ![h].pc = "append", ![h].open = TRUE]
            /\ session' = [session EXCEPT !.exists = TRUE]
  <2> DEFINE new == [hook[h] EXCEPT !.pc = "append", !.open = TRUE]
  <2>2. hook' = [hook EXCEPT ![h] = new]
    BY <1>1, <1>3 DEF HookInv, HookTypes
  <2>3. /\ new \in Holds(of) /\ new.pc = "append" /\ new.open
        /\ Kept(of) => ~new.stale /\ new.recent = new.guidance
    BY <1>1, HookHolds DEF Holds, Points
  <2> HIDE DEF new
  <2>4. /\ hook' \in [Hooks(of)!Hooks -> Holds(of)] /\ hook'[h] = new
        /\ \A k \in Hooks(of)!Hooks : k # h => hook'[k] = hook[k]
    BY <1>1, <2>2, <2>3, HookTurns DEF HookInv
  <2>5. /\ session' \in [exists : BOOLEAN, pieces : Seq(Pieces(of, of.loaders)), old : BOOLEAN]
        /\ session'.exists /\ session'.pieces = session.pieces /\ session'.old = session.old
    BY <1>3 DEF HookInv, HookTypes
  <2>6. UNCHANGED <<conf, log, worker, recorded, pauses>>
    BY DEF Hooks!OpenSession
  <2>7. HookTypes(of)'
    BY <2>4, <2>5, <2>6 DEF HookInv, HookTypes
  <2>8. SessionIsHeld(of)'
    BY <2>4, <2>5 DEF HookInv, SessionIsHeld
  <2>9. EachMinds(of)'
    BY <1>1, <2>4 DEF HookInv, EachMinds, Hooks!Hooks
  <2>10. OncePerHook(of)'
    BY <1>1, <2>4, <2>6 DEF HookInv, OncePerHook, Hooks!Hooks
  <2>11. WholeFiles(of)'
    BY <1>1, <2>3, <2>4, <2>5, <2>6 DEF HookInv, WholeFiles, Hooks!Hooks
  <2>12. AllIsKept(of)'
    BY <2>3, <2>4, <2>5, <2>6 DEF HookInv, AllIsKept, Kept
  <2> QED
    BY <2>7, <2>8, <2>9, <2>10, <2>11, <2>12 DEF HookInv
<1> QED
  BY <1>2, <1>3 DEF Hooks!OpenSession

(* ... and writes to it, or to a file that was unlinked since.             *)
LEMMA SessionGrows ==
    ASSUME NEW of, Hooks(of)!HookAssumption, HookInv(of), NEW h \in of.loaders, NEW new \in Holds(of),
           hook' = [hook EXCEPT ![h] = new], NEW bit \in {"whole", "head", "tail"}, Hooks(of)!Reaches(h, bit),
           UNCHANGED <<conf, log, worker, pauses>>, recorded' \in {recorded, Append(recorded, h)},
           new.open => hook[h].open, new.pc \in {"ended", "appendRest"},
           ~of.partial => bit = "whole" /\ hook[h].pc = "append" /\ new.pc = "ended"
                          /\ recorded' = Append(recorded, h),
           Kept(of) => ~new.stale /\ new.recent = new.guidance
    PROVE  HookInv(of)'
<1> DEFINE piece == Hooks(of)!Piece(h, bit)
<1>1. /\ h \in Hooks(of)!Hooks /\ h \notin of.writers
      /\ piece \in Pieces(of, of.loaders) /\ piece.by = h /\ piece.part = bit
  BY DEF Hooks!Hooks, Hooks!Piece, Pieces, Hooks!HookAssumption
<1>2. /\ hook' \in [Hooks(of)!Hooks -> Holds(of)] /\ hook'[h] = new
      /\ \A k \in Hooks(of)!Hooks : k # h => hook'[k] = hook[k]
  BY <1>1, HookTurns DEF HookInv
<1>3. /\ session \in [exists : BOOLEAN, pieces : Seq(Pieces(of, of.loaders)), old : BOOLEAN]
      /\ recorded \in Seq(of.loaders)
      /\ hook[h].open => session.exists
  BY <1>1 DEF HookInv, HookTypes, SessionIsHeld
<1> HIDE DEF piece
<1>4. session' = IF hook[h].open THEN [session EXCEPT !.pieces = Append(session.pieces, piece), !.old = FALSE] ELSE session
  BY <1>3 DEF Hooks!Reaches, piece
<1>5. /\ session' \in [exists : BOOLEAN, pieces : Seq(Pieces(of, of.loaders)), old : BOOLEAN]
      /\ session'.exists = session.exists /\ (session'.old => session.old)
      /\ session'.pieces = IF hook[h].open THEN Append(session.pieces, piece) ELSE session.pieces
  <2> DEFINE more == Append(session.pieces, piece)
  <2>1. more \in Seq(Pieces(of, of.loaders))
    <3>1. session.pieces \in Seq(Pieces(of, of.loaders))
      BY <1>3
    <3> QED
      BY <1>1, <3>1
  <2> HIDE DEF more
  <2>2. CASE hook[h].open
    <3>1. session' = [session EXCEPT !.pieces = more, !.old = FALSE]
      BY <1>4, <2>2 DEF more
    <3> QED
      BY <1>3, <2>1, <2>2, <3>1 DEF more
  <2>3. CASE ~hook[h].open
    BY <1>3, <1>4, <2>3
  <2> QED
    BY <2>2, <2>3
<1>6. HookTypes(of)'
  <2>1. recorded' \in Seq(of.loaders)
    <3>1. Append(recorded, h) \in Seq(of.loaders)
      BY <1>3
    <3> QED
      BY <1>3, <3>1
  <2> QED
    BY <1>2, <1>5, <2>1 DEF HookInv, HookTypes
<1>7. SessionIsHeld(of)'
  BY <1>2, <1>5 DEF HookInv, SessionIsHeld
<1>8. EachMinds(of)'
  BY <1>1, <1>2 DEF HookInv, EachMinds, Hooks!Hooks
<1>9. OncePerHook(of)'
  BY <1>1, <1>2 DEF HookInv, OncePerHook, Hooks!Hooks
<1>10. /\ Len(session.pieces) \in Nat /\ Len(Append(session.pieces, piece)) = Len(session.pieces) + 1
       /\ \A i \in 1 .. Len(session.pieces) : Append(session.pieces, piece)[i] = session.pieces[i]
       /\ Append(session.pieces, piece)[Len(session.pieces) + 1] = piece
  BY <1>1, <1>3
<1>11. WholeFiles(of)'
  <2> SUFFICES ASSUME ~of.partial PROVE WholeFiles(of)'
    BY DEF WholeFiles
  <2>1. \A i \in 1 .. Len(session'.pieces) : session'.pieces[i].part = "whole"
    BY <1>1, <1>5, <1>10 DEF HookInv, WholeFiles
  <2>2. \A k \in Hooks(of)!Hooks : hook'[k].pc \notin {"appendRest", "logRest"}
    BY <1>2 DEF HookInv, WholeFiles
  <2>3. \A k \in of.writers : hook'[k].pc \in Logged => \E i \in 1 .. Len(log') : log'[i].by = k
    BY <1>1, <1>2 DEF HookInv, WholeFiles, Hooks!Hooks
  <2> QED
    BY <2>1, <2>2, <2>3 DEF HookInv, WholeFiles
<1>12. AllIsKept(of)'
  <2> SUFFICES ASSUME Kept(of) PROVE AllIsKept(of)'
    BY DEF AllIsKept, Kept
  <2>1. /\ hook[h].open /\ recorded' = Append(recorded, h) /\ pauses' = 0 /\ ~session'.old
        /\ Len(recorded) = Len(session.pieces)
        /\ \A i \in 1 .. Len(recorded) : recorded[i] = session.pieces[i].by
    BY <1>1, <1>5 DEF HookInv, AllIsKept, Kept
  <2>2. /\ Len(recorded') = Len(recorded) + 1 /\ recorded'[Len(recorded) + 1] = h
        /\ \A i \in 1 .. Len(recorded) : recorded'[i] = recorded[i]
    BY <1>3, <2>1
  <2>3. Len(recorded') = Len(session'.pieces)
    BY <1>5, <1>10, <2>1, <2>2
  <2>4. ASSUME NEW i \in 1 .. Len(recorded')
        PROVE  recorded'[i] = session'.pieces[i].by
    <3>1. CASE i \in 1 .. Len(recorded)
      BY <1>5, <1>10, <2>1, <2>2, <3>1
    <3>2. CASE i = Len(recorded) + 1
      BY <1>1, <1>5, <1>10, <2>1, <2>2, <3>2
    <3>3. Len(recorded) \in Nat
      BY <1>3
    <3> QED
      BY <2>2, <3>1, <3>2, <3>3
  <2>5. ASSUME NEW k \in Hooks(of)!Hooks
        PROVE  ~hook'[k].stale /\ (hook'[k].pc = "append" => hook'[k].open) /\ hook'[k].recent = hook'[k].guidance
    BY <1>2 DEF HookInv, AllIsKept
  <2> QED
    BY <2>1, <2>3, <2>4, <2>5 DEF AllIsKept
<1> QED
  BY <1>6, <1>7, <1>8, <1>9, <1>11, <1>12 DEF HookInv

LEMMA AppendEventKeeps ==
    ASSUME NEW of, Hooks(of)!HookAssumption, HookInv(of), NEW h \in of.loaders, Hooks(of)!AppendEvent(h)
    PROVE  HookInv(of)'
<1>1. h \in Hooks(of)!Hooks /\ hook[h] \in Holds(of) /\ hook[h].pc = "append"
  BY HookHolds DEF Hooks!Hooks, Hooks!AppendEvent, Hooks!At
<1>2. CASE Hooks(of)!Reaches(h, "whole") /\ Hooks(of)!Recorded(h)
           /\ hook' = [hook EXCEPT ![h].pc = "ended", ![h].open = FALSE]
  <2> DEFINE new == [hook[h] EXCEPT !.pc = "ended", !.open = FALSE]
  <2>1. hook' = [hook EXCEPT ![h] = new]
    BY <1>1, <1>2 DEF HookInv, HookTypes
  <2>2. /\ new \in Holds(of) /\ new.pc = "ended" /\ ~new.open
        /\ Kept(of) => ~new.stale /\ new.recent = new.guidance
    BY <1>1, HookHolds DEF Holds, Points, Logged
  <2> HIDE DEF new
  <2> QED
    BY <1>1, <1>2, <2>1, <2>2, SessionGrows DEF Hooks!AppendEvent, Hooks!Recorded
<1>3. CASE of.partial /\ Hooks(of)!Reaches(h, "head") /\ UNCHANGED recorded
           /\ hook' = [hook EXCEPT ![h].pc = "appendRest"]
  <2> DEFINE new == [hook[h] EXCEPT !.pc = "appendRest"]
  <2>1. hook' = [hook EXCEPT ![h] = new]
    BY <1>1, <1>3 DEF HookInv, HookTypes
  <2>2. /\ new \in Holds(of) /\ new.pc = "appendRest" /\ new.open = hook[h].open
        /\ Kept(of) => ~new.stale /\ new.recent = new.guidance
    BY <1>1, HookHolds DEF Holds, Points
  <2> HIDE DEF new
  <2> QED
    BY <1>1, <1>3, <2>1, <2>2, SessionGrows DEF Hooks!AppendEvent
<1>4. CASE of.partial /\ UNCHANGED <<session, recorded>>
           /\ hook' = [hook EXCEPT ![h].pc = "ended", ![h].open = FALSE]
  <2> DEFINE new == [hook[h] EXCEPT !.pc = "ended", !.open = FALSE]
  <2>1. hook' = [hook EXCEPT ![h] = new]
    BY <1>1, <1>4 DEF HookInv, HookTypes
  <2>2. /\ new \in Holds(of) /\ new.pc = "ended" /\ ~new.open /\ h \notin of.writers
        /\ Kept(of) => ~new.stale /\ new.recent = new.guidance
    BY <1>1, HookHolds DEF Holds, Points, Logged, Hooks!HookAssumption
  <2> HIDE DEF new
  <2>3. Follows(of, h, new)
    BY <1>1, <2>2 DEF Follows, Unlogged
  <2> QED
    BY <1>1, <1>4, <2>1, <2>3, HookAdvances DEF Hooks!AppendEvent, HookInv, HookTypes
<1> QED
  BY <1>2, <1>3, <1>4 DEF Hooks!AppendEvent

LEMMA AppendEventRestKeeps ==
    ASSUME NEW of, Hooks(of)!HookAssumption, HookInv(of), NEW h \in of.loaders, Hooks(of)!AppendEventRest(h)
    PROVE  HookInv(of)'
<1>1. h \in Hooks(of)!Hooks /\ h \notin of.writers /\ hook[h] \in Holds(of) /\ hook[h].pc = "appendRest"
  BY HookHolds DEF Hooks!Hooks, Hooks!AppendEventRest, Hooks!At, Hooks!HookAssumption
<1>2. of.partial
  BY <1>1 DEF HookInv, WholeFiles, Hooks!HookAssumption
<1> DEFINE new == [hook[h] EXCEPT !.pc = "ended", !.open = FALSE]
<1>3. hook' = [hook EXCEPT ![h] = new]
  BY <1>1 DEF Hooks!AppendEventRest, HookInv, HookTypes
<1>4. /\ new \in Holds(of) /\ new.pc = "ended" /\ ~new.open
      /\ Kept(of) => ~new.stale /\ new.recent = new.guidance
  BY <1>1, HookHolds DEF Holds, Points, Logged
<1> HIDE DEF new
<1>5. CASE UNCHANGED <<session, recorded>>
  <2>1. Follows(of, h, new)
    BY <1>1, <1>4 DEF Follows, Unlogged
  <2> QED
    BY <1>1, <1>3, <1>5, <2>1, HookAdvances DEF Hooks!AppendEventRest, HookInv, HookTypes
<1>6. CASE Hooks(of)!Reaches(h, "tail") /\ Hooks(of)!Recorded(h)
  BY <1>2, <1>3, <1>4, <1>6, SessionGrows DEF Hooks!AppendEventRest, Hooks!Recorded
<1> QED
  BY <1>5, <1>6 DEF Hooks!AppendEventRest

(* Pruning unlinks a file that was old when it was looked at.              *)
LEMMA PruneKeeps ==
    ASSUME NEW of, Hooks(of)!HookAssumption, HookInv(of), NEW h \in of.writers, Hooks(of)!Prune(h)
    PROVE  HookInv(of)'
<1>1. h \in Hooks(of)!Hooks /\ hook[h] \in Holds(of) /\ Minds(hook[h]) /\ hook[h].pc = "prune" /\ ~hook[h].open
  BY HookHolds, WritersAreNotLoaders DEF Hooks!Hooks, Hooks!Prune, Hooks!At
<1>2. CASE ~hook[h].stale
  <2> DEFINE new == [hook[h] EXCEPT !.pc = "answer"]
  <2>1. hook' = [hook EXCEPT ![h] = new] /\ session' = session
    BY <1>1, <1>2 DEF Hooks!Prune, HookInv, HookTypes
  <2>2. Follows(of, h, new)
    <3>1. new \in Holds(of) /\ Minds(new)
      BY <1>1 DEF Holds, Points, Logged, Minds
    <3> QED
      BY <1>1, <3>1, HookHolds DEF Follows, Holds, Unlogged, Logged
  <2> HIDE DEF new
  <2> QED
    BY <1>1, <2>1, <2>2, HookAdvances DEF Hooks!Prune, HookInv, HookTypes
<1>3. CASE hook[h].stale
  <2>1. ~Kept(of)
    BY <1>1, <1>3, HookHolds
  <2>2. session' = [exists |-> FALSE, pieces |-> <<>>, old |-> FALSE]
    BY <1>3 DEF Hooks!Prune, Hooks!Absent
  <2>3. ASSUME NEW k \in Hooks(of)!Hooks
        PROVE  /\ hook'[k] \in Holds(of) /\ ~hook'[k].open
               /\ (k \in of.writers => Minds(hook'[k]))
               /\ hook'[k].pc = hook[k].pc \/ (k = h /\ hook'[k].pc = "answer")
    <3>1. hook[k] \in Holds(of) /\ (k \in of.writers => Minds(hook[k]))
      BY HookHolds
    <3>2. CASE k = h
      <4>1. hook'[k] = [hook[h] EXCEPT !.pc = "answer"]
        BY <3>2 DEF Hooks!Prune
      <4> QED
        BY <1>1, <3>2, <4>1 DEF Holds, Points, Logged, Minds
    <3>3. CASE k # h
      <4>1. hook'[k] = [hook[k] EXCEPT !.open = FALSE]
        BY <1>3, <3>3 DEF Hooks!Prune
      <4> QED
        BY <3>1, <4>1 DEF Holds, Minds
    <3> QED
      BY <3>2, <3>3
  <2>4. UNCHANGED <<conf, log, worker, recorded, pauses>>
    BY DEF Hooks!Prune
  <2>5. HookTypes(of)'
    <3>1. hook' \in [Hooks(of)!Hooks -> Holds(of)]
      BY <1>3, <2>3 DEF Hooks!Prune
    <3> QED
      BY <2>2, <2>4, <3>1 DEF HookInv, HookTypes
  <2>6. SessionIsHeld(of)'
    BY <2>2, <2>3 DEF SessionIsHeld
  <2>7. EachMinds(of)'
    BY <2>3 DEF EachMinds, Hooks!Hooks
  <2>8. OncePerHook(of)'
    <3>1. \A k \in of.writers : hook'[k].pc \in Unlogged => hook[k].pc \in Unlogged
      BY <2>3 DEF Hooks!Hooks, Unlogged
    <3> QED
      BY <2>4, <3>1 DEF HookInv, OncePerHook
  <2>9. WholeFiles(of)'
    <3>1. \A k \in of.writers : hook'[k].pc \in Logged => hook[k].pc \in Logged
      BY <1>1, <2>3 DEF Hooks!Hooks, Logged
    <3>2. \A k \in Hooks(of)!Hooks : hook'[k].pc \in {"appendRest", "logRest"} => hook[k].pc = hook'[k].pc
      BY <2>3
    <3> QED
      BY <2>2, <2>4, <3>1, <3>2 DEF HookInv, WholeFiles
  <2>10. AllIsKept(of)'
    BY <2>1 DEF AllIsKept, Kept
  <2> QED
    BY <2>5, <2>6, <2>7, <2>8, <2>9, <2>10 DEF HookInv
<1> QED
  BY <1>2, <1>3

(* What goes on around the hooks.                                          *)
LEMMA SurroundingsKeep ==
    ASSUME NEW of, Hooks(of)!HookAssumption, HookInv(of),
           \/ \E h \in of.writers : Hooks(of)!Alarm(h)
           \/ \E mode \in Hooks(of)!Modes : Hooks(of)!EditConf(mode)
           \/ UNCHANGED hookVars
    PROVE  HookInv(of)'
<1>1. /\ UNCHANGED <<session, log, hook, recorded, pauses>>
      /\ conf' \in Hooks(of)!Modes /\ worker' \in [of.writers -> {"none", "running", "gone"}]
  BY DEF Hooks!Alarm, Hooks!EditConf, hookVars, HookInv, HookTypes
<1> QED
  BY <1>1 DEF HookInv, HookTypes, SessionIsHeld, EachMinds, OncePerHook, WholeFiles, AllIsKept

LEMMA PauseKeeps ==
    ASSUME NEW of, Hooks(of)!HookAssumption, HookInv(of), Hooks(of)!Pause
    PROVE  HookInv(of)'
<1>1. ~Kept(of)
  BY DEF Hooks!Pause, HookInv, HookTypes, AllIsKept, Kept
<1>2. /\ session' \in [exists : BOOLEAN, pieces : Seq(Pieces(of, of.loaders)), old : BOOLEAN]
      /\ session'.exists = session.exists /\ session'.old = session.exists /\ session'.pieces = session.pieces
  BY DEF Hooks!Pause, HookInv, HookTypes
<1>3. UNCHANGED <<conf, log, hook, worker>> /\ recorded' \in Seq(of.loaders) /\ pauses' \in Nat
  BY DEF Hooks!Pause, HookInv, HookTypes
<1> QED
  BY <1>1, <1>2, <1>3 DEF HookInv, HookTypes, SessionIsHeld, EachMinds, OncePerHook, WholeFiles, AllIsKept, Kept

LEMMA HooksMove ==
    ASSUME NEW of, Hooks(of)!HookAssumption, HookInv(of), Hooks(of)!Next
    PROVE  HookInv(of)'
<1>1. ASSUME NEW h \in of.loaders, Hooks(of)!LoaderStep(h)
      PROVE  HookInv(of)'
  BY <1>1, OpenSessionKeeps, AppendEventKeeps, AppendEventRestKeeps DEF Hooks!LoaderStep
<1>2. ASSUME NEW h \in of.writers, Hooks(of)!WriterStep(h)
      PROVE  HookInv(of)'
  BY <1>2, ReadConfKeeps, ReadGuidanceKeeps, WorkerGivesUpKeeps, AppendLineKeeps, AppendLineRestKeeps,
     LookAtSessionKeeps, PruneKeeps, AnswerKeeps DEF Hooks!WriterStep
<1>3. ASSUME NEW h \in of.writers, Hooks(of)!WorkerStep(h)
      PROVE  HookInv(of)'
  BY <1>3, WorkerAnswersKeeps, WorkerGivesUpKeeps DEF Hooks!WorkerStep
<1>4. ASSUME NEW h \in Hooks(of)!Hooks, Hooks(of)!Kill(h)
      PROVE  HookInv(of)'
  BY <1>4, KillKeeps
<1> QED
  BY <1>1, <1>2, <1>3, <1>4, SurroundingsKeep, PauseKeeps DEF Hooks!Next

-------------------------------------------------------------------------------
(* What the invariant says of a state, and of a step.                      *)

LEMMA HooksSay ==
    ASSUME NEW of, HookInv(of)
    PROVE  Hooks(of)!TypeOK /\ Hooks(of)!FailsOpen
<1>1. Hooks(of)!TypeOK
  <2>1. ASSUME NEW h \in Hooks(of)!Hooks
        PROVE  /\ hook[h].mode \in Hooks(of)!Modes \cup {"none"} /\ hook[h].placement \in Hooks(of)!Placements
               /\ hook[h].status \in {"ok", "error", "timeout", "disabled"}
               /\ hook[h].open => session.exists
    BY HookHolds DEF Holds, HookInv, SessionIsHeld
  <2> QED
    BY <2>1 DEF HookInv, HookTypes, SessionIsHeld, Hooks!TypeOK, Pieces
<1>2. Hooks(of)!FailsOpen
  BY DEF HookInv, EachMinds, Minds, Hooks!FailsOpen, Hooks!At
<1> QED
  BY <1>1, <1>2

LEMMA OneLineEach ==
    ASSUME NEW of, HookInv(of)
    PROVE  Hooks(of)!OneLinePerWrite
<1> DEFINE records == Hooks(of)!Records(log)
           lines(h) == LinesBy(of, log, h)
<1>1. Len(log) \in Nat
  BY DEF HookInv, HookTypes
<1>2. ASSUME NEW h \in of.writers
      PROVE  Cardinality(lines(h)) \in {0, 1} /\ (lines(h) # {} => Cardinality(lines(h)) = 1)
  <2>1. \A i, j \in 1 .. Len(log) :
            log[i].by = h /\ log[j].by = h /\ log[i].part # "tail" /\ log[j].part # "tail" => i = j
    BY DEF HookInv, OncePerHook
  <2> QED
    BY <1>1, <2>1, OnePieceOneLine
<1>3. ASSUME NEW h \in of.writers, ~of.partial, hook[h].pc \in Logged
      PROVE  lines(h) # {}
  <2>1. PICK i \in 1 .. Len(log) : log[i].by = h
    BY <1>3 DEF HookInv, WholeFiles
  <2>2. \A k \in 1 .. Len(log) : log[k].part = "whole"
    BY <1>3 DEF HookInv, WholeFiles
  <2>3. Len(records) = Len(log) /\ records[i] = log[i].by
    BY <1>1, <2>2, WholeRecords
  <2> QED
    BY <2>1, <2>3 DEF LinesBy
<1>4. ASSUME NEW h \in of.writers
      PROVE  /\ Hooks(of)!Cardinality(lines(h)) <= 1
             /\ ~of.partial /\ hook[h].pc \in {"look", "prune", "answer", "ended"} =>
                    Hooks(of)!Cardinality(lines(h)) = 1
  <2>1. Hooks(of)!Cardinality(lines(h)) = Cardinality(lines(h))
    BY CountsAlike
  <2> HIDE DEF lines
  <2> QED
    BY <1>2, <1>3, <2>1 DEF Logged
<1> HIDE DEF lines
<1> QED
  BY <1>4 DEF Hooks!OneLinePerWrite, lines, LinesBy

LEMMA GuidanceIsWhole ==
    ASSUME NEW of, HookInv(of), Kept(of)
    PROVE  Hooks(of)!GuidanceIsComplete
<1> SUFFICES ASSUME NEW h \in of.writers
             PROVE  \E from \in 1 .. Len(hook[h].guidance) + 1 :
                       hook[h].recent = SubSeq(hook[h].guidance, from, Len(hook[h].guidance))
  BY DEF Hooks!GuidanceIsComplete
<1>1. hook[h].guidance \in Seq(of.loaders) /\ hook[h].recent = hook[h].guidance
  BY HookHolds DEF Holds, Hooks!Hooks
<1> DEFINE told == hook[h].guidance
<1>2. told \in Seq(of.loaders)
  BY <1>1
<1> HIDE DEF told
<1>3. SubSeq(told, 1, Len(told)) = told /\ 1 \in 1 .. Len(told) + 1
  BY <1>2
<1> QED
  BY <1>1, <1>3 DEF told

(* The mode that a write was started with is read once, when it starts.    *)
LEMMA ModeStays ==
    ASSUME NEW of, Hooks(of)!HookAssumption, HookInv(of), Hooks(of)!Next, NEW k \in of.writers,
           hook[k].mode # "none"
    PROVE  hook'[k].mode = hook[k].mode
<1>1. k \in Hooks(of)!Hooks /\ hook[k] \in Holds(of) /\ hook[k].pc # "waits" /\ k \notin of.loaders
      /\ hook \in [Hooks(of)!Hooks -> Holds(of)]
  BY HookHolds DEF Hooks!Hooks, Minds, Hooks!HookAssumption, HookInv, HookTypes
<1>2. ASSUME NEW h \in of.loaders, Hooks(of)!LoaderStep(h)
      PROVE  hook'[k] = hook[k]
  <2>1. h # k
    BY <1>1
  <2> QED
    BY <1>1, <1>2, <2>1 DEF Hooks!LoaderStep, Hooks!OpenSession, Hooks!AppendEvent, Hooks!AppendEventRest
<1>3. ASSUME NEW h \in of.writers, Hooks(of)!WriterStep(h)
      PROVE  hook'[k].mode = hook[k].mode
  <2>1. CASE Hooks(of)!ReadConf(h)
    BY <1>1, <2>1 DEF Hooks!ReadConf, Hooks!At
  <2>2. CASE Hooks(of)!ReadGuidance(h)
    BY <1>1, <2>2 DEF Hooks!ReadGuidance, Holds
  <2>3. CASE Hooks(of)!Timeout(h)
    BY <1>1, <2>3 DEF Hooks!Timeout, Holds
  <2>4. CASE Hooks(of)!AppendLine(h)
    <3>1. PICK pc2 : hook' = [hook EXCEPT ![h].pc = pc2]
      BY <2>4 DEF Hooks!AppendLine
    <3> QED
      BY <1>1, <3>1 DEF Holds
  <2>5. CASE Hooks(of)!AppendLineRest(h)
    BY <1>1, <2>5 DEF Hooks!AppendLineRest, Holds
  <2>6. CASE Hooks(of)!LookAtSession(h)
    BY <1>1, <2>6 DEF Hooks!LookAtSession, Holds
  <2>7. CASE Hooks(of)!Prune(h)
    BY <1>1, <2>7 DEF Hooks!Prune, Holds
  <2>8. CASE Hooks(of)!Answer(h)
    BY <1>1, <2>8 DEF Hooks!Answer, Holds
  <2> QED
    BY <1>3, <2>1, <2>2, <2>3, <2>4, <2>5, <2>6, <2>7, <2>8 DEF Hooks!WriterStep
<1>4. ASSUME NEW h \in of.writers, Hooks(of)!WorkerStep(h)
      PROVE  hook'[k].mode = hook[k].mode
  <2>1. CASE Hooks(of)!WorkerAnswers(h)
    <3>1. PICK a \in Hooks(of)!CheckWrite(hook[h].mode) :
              hook' = [hook EXCEPT ![h].pc = "log", ![h].placement = a.placement,
                           ![h].findings = a.findings, ![h].said = a.said]
      BY <2>1 DEF Hooks!WorkerAnswers
    <3> QED
      BY <1>1, <3>1 DEF Holds
  <2>2. CASE Hooks(of)!WorkerFails(h)
    BY <1>1, <2>2 DEF Hooks!WorkerFails, Holds
  <2> QED
    BY <1>4, <2>1, <2>2 DEF Hooks!WorkerStep
<1>5. ASSUME NEW h \in Hooks(of)!Hooks, Hooks(of)!Kill(h)
      PROVE  hook'[k].mode = hook[k].mode
  BY <1>1, <1>5 DEF Hooks!Kill, Holds
<1>6. ASSUME \/ \E h \in of.writers : Hooks(of)!Alarm(h)
             \/ \E mode \in Hooks(of)!Modes : Hooks(of)!EditConf(mode)
             \/ Hooks(of)!Pause
      PROVE  hook'[k] = hook[k]
  BY <1>6 DEF Hooks!Alarm, Hooks!EditConf, Hooks!Pause
<1> QED
  BY <1>2, <1>3, <1>4, <1>5, <1>6 DEF Hooks!Next

LEMMA ModeIsKept ==
    ASSUME NEW of, Hooks(of)!HookAssumption, HookInv(of), Hooks(of)!Next
    PROVE  Hooks(of)!KeepsItsMode
<1>1. EachMinds(of)'
  BY HooksMove DEF HookInv
<1>2. ASSUME NEW h \in of.writers, hook[h].mode # "none"
      PROVE  hook'[h].mode = hook[h].mode /\ (hook'[h].said = "feedback" => hook[h].mode = "feedback")
  <2>1. hook'[h].mode = hook[h].mode
    BY <1>2, ModeStays
  <2>2. hook'[h].said = "feedback" => hook'[h].mode = "feedback"
    BY <1>1 DEF EachMinds, Minds
  <2> QED
    BY <2>1, <2>2
<1> QED
  BY <1>2 DEF Hooks!KeepsItsMode

-------------------------------------------------------------------------------
(* The hooks that move.                                                    *)
HooksInv ==
    /\ part = "log" => HookInv(Logging)
    /\ part = "guidance" => HookInv(Guiding)

LEMMA HooksBegin == PartInit => HooksInv
<1>1. Hooks(Logging)!HookAssumption /\ Hooks(Guiding)!HookAssumption
  BY HooksAreApart
<1> QED
  BY <1>1, HooksStart DEF PartInit, HooksInv

LEMMA HooksGoOn ==
    ASSUME HooksInv, [PartNext]_partVars
    PROVE  HooksInv' /\ (part = "log" /\ ~UNCHANGED hookVars => Hooks(Logging)!KeepsItsMode)
<1>1. Hooks(Logging)!HookAssumption /\ Hooks(Guiding)!HookAssumption
  BY HooksAreApart
<1>2. CASE part = "log" /\ Hooks(Logging)!Next /\ part' = part
  BY <1>1, <1>2, HooksMove, ModeIsKept DEF HooksInv
<1>3. CASE part = "guidance" /\ Hooks(Guiding)!Next /\ part' = part
  BY <1>1, <1>3, HooksMove DEF HooksInv
<1>4. CASE UNCHANGED hookVars /\ part' = part
  BY <1>1, <1>4, SurroundingsKeep DEF HooksInv
<1>5. CASE part \notin {"log", "guidance"} /\ part' = part
  BY <1>5 DEF HooksInv
<1> QED
  BY <1>2, <1>3, <1>4, <1>5 DEF PartNext, partVars

(* The hook is faithful, for any number of hooks and whatever pieces their *)
(* write calls append: it fails open, it decides by one reading of the     *)
(* configuration, it logs a write once; and, where records are whole and   *)
(* no week passes, it tells a write all that its session recorded.         *)
THEOREM HooksStayFaithful == PartSpec => HooksAreFaithful
<1>1. PartSpec => []HooksInv
  <2>1. HooksInv /\ [PartNext]_partVars => HooksInv'
    BY HooksGoOn
  <2> QED
    BY <2>1, HooksBegin, PTL DEF PartSpec
<1>2. HooksInv => (part = "log" => Hooks(Logging)!FailsOpen /\ Hooks(Logging)!OneLinePerWrite)
  BY HooksSay, OneLineEach DEF HooksInv
<1>3. HooksInv => (part = "guidance" =>
          Hooks(Guiding)!TypeOK /\ Hooks(Guiding)!GuidanceIsComplete /\ Hooks(Guiding)!OneLinePerWrite)
  <2>1. Kept(Guiding)
    BY GuidanceIsWritten DEF Kept
  <2> QED
    BY <2>1, HooksSay, OneLineEach, GuidanceIsWhole DEF HooksInv
<1>4. HooksInv /\ [PartNext]_partVars => [part = "log" => Hooks(Logging)!KeepsItsMode]_hookVars
  BY HooksGoOn
<1> QED
  BY <1>1, <1>2, <1>3, <1>4, PTL DEF PartSpec, HooksAreFaithful

-------------------------------------------------------------------------------
(* The layout check and the gates of scripts/verify.                       *)

(* The script has passed the first of its checks, or the last.             *)
Checking == pc \in {"trees", "list", "run"} \/ result \in {"green", "failed"}
Running == pc = "run" \/ result \in {"green", "failed"}

(* The gates of a name as the shell finds them have run.                   *)
HasRun(name) ==
    \A i \in BashFunction(name) :
        [path |-> repo.functions[i].path, checked |-> repo.functions[i].checks] \in ran

(* While nobody meddles, the repository is the one the first check passed, *)
(* the list is of its trees and those no longer on it have run.            *)
Unmeddled ==
    /\ pc # "idle" => WrittenPlainly
    /\ Checking => Problems = {}
    /\ Running => trees \subseteq Trees /\ \A name \in Trees \ trees : HasRun(name)
    /\ result = "green" => trees = {}
    /\ failed = {}

NoDeepRows == Shallow => \A p \in Paths : repo.rows[p] # "none" => p.place # "deep"

IInv ==
    /\ TypeOK /\ NoDeepRows /\ NeverGreenOnNothing
    /\ Plain /\ Shallow /\ ~meddled => Unmeddled

-------------------------------------------------------------------------------
(* What stays while the repository does.                                   *)

LEMMA RepoStays ==
    ASSUME repo' = repo
    PROVE  /\ Apps' = Apps /\ Requirements' = Requirements /\ Declarations' = Declarations
           /\ Problems' = Problems /\ Trees' = Trees /\ WrittenPlainly' = WrittenPlainly
           /\ NoDeepRows' = NoDeepRows /\ Checked' = Checked
<1>1. Apps' = Apps
  BY DEF Apps
<1>2. Requirements' = Requirements /\ Declarations' = Declarations
  BY DEF Requirements, Declarations, Walked
<1>3. Floors' = Floors
  BY DEF Floors, Walked
<1>4. RowProblems' = RowProblems
  BY DEF RowProblems, Entries
<1>5. \A name : ArmOf(name)' = ArmOf(name)
  BY DEF ArmOf
<1>6. \A name : Runs(name)' = Runs(name)
  BY <1>5 DEF Runs
<1>7. Checked' = Checked
  BY <1>1, <1>6 DEF Checked
<1>8. GateProblems' = GateProblems
  BY <1>1, <1>5 DEF GateProblems
<1>9. DeclarationProblems' = DeclarationProblems /\ RequirementProblems' = RequirementProblems
  BY <1>1, <1>2, <1>7 DEF DeclarationProblems, RequirementProblems
<1>10. FloorProblems' = FloorProblems
  BY <1>3 DEF FloorProblems
<1>11. Problems' = Problems /\ Trees' = Trees
  BY <1>1, <1>4, <1>8, <1>9, <1>10 DEF Problems, Trees
<1>12. WrittenPlainly' = WrittenPlainly
  BY <1>1, <1>6 DEF WrittenPlainly
<1>13. NoDeepRows' = NoDeepRows
  BY DEF NoDeepRows
<1> QED BY <1>1, <1>2, <1>7, <1>11, <1>12, <1>13

LEMMA BashStays ==
    ASSUME repo' = repo
    PROVE  \A name : BashFunction(name)' = BashFunction(name)
BY DEF BashFunction, BashArm

-------------------------------------------------------------------------------
(* What the rules and a script that is written plainly say.                *)

(* A repository without problems: its files are read, its rows and jobs    *)
(* are there, its Python trees are apps, its declarations are checked.     *)
LEMMA NoProblems ==
    ASSUME TypeOK, Problems = {}
    PROVE  /\ repo.manifest = "read" /\ repo.verify = "read" /\ repo.workflow = "read"
           /\ \A p \in Paths : p.place \in {"top", "examples"} /\ repo.rows[p] # "none" => repo.disk[p] # "none"
           /\ \A p \in Apps : ArmOf(p.name) # {} /\ p.name \in repo.jobs
           /\ Declarations \subseteq Checked /\ Requirements \subseteq Apps
<1>1. repo.manifest = "read"
  BY DEF Problems
<1>2. RowProblems = {} /\ GateProblems = {} /\ DeclarationProblems = {} /\ RequirementProblems = {}
  BY <1>1 DEF Problems
<1>3. repo.verify = "read" /\ repo.workflow = "read"
  <2>1. /\ {<<"file unavailable", "verify">> : s \in {repo.verify} \ {"read"}} = {}
        /\ {<<"file unavailable", "workflow">> : s \in {repo.workflow} \ {"read"}} = {}
    BY <1>2 DEF GateProblems
  <2>2. {repo.verify} \ {"read"} = {} /\ {repo.workflow} \ {"read"} = {}
    BY <2>1, Zenon
  <2> QED BY <2>2
<1>4. ASSUME NEW p \in Paths, p.place \in {"top", "examples"}, repo.rows[p] # "none"
      PROVE  repo.disk[p] # "none"
  <2> DEFINE rows(place) == {q \in Paths : q.place = place /\ repo.rows[q] # "none"}
             gone == UNION {rows(place) \ Entries(place) : place \in {"top", "examples"}}
  <2>1. {<<"no directory", q>> : q \in gone} = {}
    BY <1>2, Zenon DEF RowProblems
  <2>2. gone = {}
    <3> HIDE DEF gone
    <3> QED BY <2>1
  <2>3. p \in rows(p.place)
    BY <1>4
  <2>4. rows(p.place) \ Entries(p.place) \subseteq gone
    <3> HIDE DEF rows
    <3> QED BY <1>4
  <2>5. p \in Entries(p.place)
    <3> HIDE DEF rows, gone
    <3> QED BY <2>2, <2>3, <2>4
  <2> QED BY <2>5 DEF Entries
<1>5. \A p \in Apps : ArmOf(p.name) # {}
  BY <1>2 DEF GateProblems
<1>6. \A p \in Apps : p.name \in repo.jobs
  BY <1>2, <1>3 DEF GateProblems
<1>7. Declarations \subseteq Checked
  BY <1>2 DEF DeclarationProblems
<1>8. Requirements \subseteq Apps
  BY <1>2 DEF RequirementProblems
<1> QED BY <1>1, <1>3, <1>4, <1>5, <1>6, <1>7, <1>8

(* The shell finds for an app what the app found: its gate, which works in *)
(* its directory.                                                          *)
LEMMA ShellFindsTheGate ==
    ASSUME TypeOK, WrittenPlainly, repo.verify = "read", NEW p \in Apps, ArmOf(p.name) # {}
    PROVE  /\ BashFunction(p.name) = Runs(p.name) /\ Runs(p.name) # {}
           /\ \A i \in Runs(p.name) : i \in DOMAIN repo.functions /\ repo.functions[i].path = p
<1> DEFINE found == {i \in DOMAIN repo.arms : repo.arms[i].tree = p.name}
<1>1. found # {}
  BY DEF ArmOf
<1>2. PICK i \in found : TRUE
  BY <1>1
<1>3. i \in DOMAIN repo.arms /\ repo.arms[i].tree = p.name
  BY <1>2
<1>4. found = {i}
  BY <1>3 DEF WrittenPlainly
<1> HIDE DEF found
<1>5. DOMAIN repo.arms \subseteq Nat /\ DOMAIN repo.functions = 1..Len(repo.functions)
      /\ Len(repo.functions) \in Nat
  BY DEF TypeOK, Repositories
<1>6. i \in Nat /\ i >= i /\ i <= i
  BY <1>3, <1>5
<1>7. (CHOOSE k \in found : \A j \in found : k >= j) = i /\ (CHOOSE k \in found : \A j \in found : k <= j) = i
  BY <1>4, <1>6
<1>8. ArmOf(p.name) = {repo.arms[i].calls} /\ BashArm(p.name) = {repo.arms[i].calls}
  BY <1>1, <1>7 DEF ArmOf, BashArm, found
<1>9. PICK j \in DOMAIN repo.functions : repo.functions[j].name = repo.arms[i].calls
  BY <1>3 DEF WrittenPlainly
<1>10. \A k \in DOMAIN repo.functions : repo.functions[k].name = repo.functions[j].name => k = j
  BY DEF WrittenPlainly
<1>11. Runs(p.name) = {j}
  <2>1. j \in Runs(p.name)
    BY <1>5, <1>8, <1>9, <1>10 DEF Runs
  <2>2. \A k \in Runs(p.name) : k = j
    BY <1>8, <1>9, <1>10 DEF Runs
  <2> QED BY <2>1, <2>2
<1>12. BashFunction(p.name) = {j}
  <2>1. j \in BashFunction(p.name)
    BY <1>5, <1>8, <1>9, <1>10 DEF BashFunction
  <2>2. \A k \in BashFunction(p.name) : k = j
    BY <1>8, <1>9, <1>10 DEF BashFunction
  <2> QED BY <2>1, <2>2
<1>13. \A k \in Runs(p.name) : repo.functions[k].path = p
  BY DEF WrittenPlainly
<1> QED BY <1>9, <1>11, <1>12, <1>13

-------------------------------------------------------------------------------
(* An author's edit leaves a repository, and what is run alone.            *)

LEMMA EditKeepsTheRepository ==
    ASSUME TypeOK, NoDeepRows, Edit
    PROVE  repo' \in Repositories /\ NoDeepRows'
<1>1. repo \in Repositories
  BY DEF TypeOK
<1> DEFINE OneField ==
      \/ \E p \in Paths, kind \in {"none", "app", "ungated", "typo"} :
           (Shallow => p.place # "deep") /\ repo' = [repo EXCEPT !.rows[p] = kind]
      \/ \E state \in States : repo' = [repo EXCEPT !.manifest = state]
      \/ \E p \in Paths, form \in {"none", "directory", "link"} : repo' = [repo EXCEPT !.disk[p] = form]
      \/ \E required \in SUBSET Paths : repo' = [repo EXCEPT !.required = required]
      \/ \E p \in Paths, declared \in {"none", "app", "other", "unreadable"} :
           repo' = [repo EXCEPT !.declared[p] = declared]
      \/ \E p \in Paths, stated \in {"none", "stated", "undeclared", "below", "unreadable"} :
           repo' = [repo EXCEPT !.python[p] = stated]
      \/ \E p \in Paths, stated \in {"none", "stated", "below"} : repo' = [repo EXCEPT !.target[p] = stated]
      \/ \E arms \in Seq(Arms) : repo' = [repo EXCEPT !.arms = arms]
      \/ \E functions \in Seq(Functions) : repo' = [repo EXCEPT !.functions = functions]
      \/ \E state \in FileStates : repo' = [repo EXCEPT !.verify = state]
      \/ \E state \in FileStates : repo' = [repo EXCEPT !.workflow = state]
      \/ \E jobs \in SUBSET Names : repo' = [repo EXCEPT !.jobs = jobs]
      \/ \E pin \in {"floor", "below"} : repo' = [repo EXCEPT !.pin = pin]
<1>2. OneField
  <2>1. CASE EditManifest
    BY <2>1 DEF EditManifest, Edited
  <2>2. CASE EditDisk
    <3>1. \A p \in Paths : repo.required \cup {p} \in SUBSET Paths /\ repo.required \ {p} \in SUBSET Paths
      BY <1>1 DEF Repositories
    <3> QED BY <2>2, <3>1 DEF EditDisk, Edited
  <2>3. CASE EditScript
    <3>1. repo.arms \in Seq(Arms) /\ repo.functions \in Seq(Functions)
      BY <1>1 DEF Repositories
    <3>2. \A arm \in Arms : Append(repo.arms, arm) \in Seq(Arms)
      BY <3>1
    <3>3. \A i \in DOMAIN repo.arms : RemoveAt(repo.arms, i) \in Seq(Arms)
      BY <3>1 DEF RemoveAt
    <3>4. \A function \in Functions : Append(repo.functions, function) \in Seq(Functions)
      BY <3>1
    <3>5. \A i \in DOMAIN repo.functions, function \in Functions :
            [repo.functions EXCEPT ![i] = function] \in Seq(Functions)
      BY <3>1
    <3>6. \A i \in DOMAIN repo.functions, function \in Functions :
            [repo EXCEPT !.functions[i] = function]
              = [repo EXCEPT !.functions = [repo.functions EXCEPT ![i] = function]]
      BY <1>1 DEF Repositories
    <3> HIDE DEF OneField
    <3>7. ASSUME NEW arm \in Arms, repo' = [repo EXCEPT !.arms = Append(repo.arms, arm)]
          PROVE  OneField
      BY <3>2, <3>7 DEF OneField
    <3>8. ASSUME NEW i \in DOMAIN repo.arms, repo' = [repo EXCEPT !.arms = RemoveAt(repo.arms, i)]
          PROVE  OneField
      BY <3>3, <3>8 DEF OneField
    <3>9. ASSUME NEW function \in Functions, repo' = [repo EXCEPT !.functions = Append(repo.functions, function)]
          PROVE  OneField
      BY <3>4, <3>9 DEF OneField
    <3>10. ASSUME NEW i \in DOMAIN repo.functions, NEW function \in Functions,
                  repo' = [repo EXCEPT !.functions[i] = function]
           PROVE  OneField
      BY <3>5, <3>6, <3>10 DEF OneField
    <3>11. ASSUME NEW state \in FileStates, repo' = [repo EXCEPT !.verify = state]
           PROVE  OneField
      BY <3>11 DEF OneField
    <3> QED BY <2>3, <3>7, <3>8, <3>9, <3>10, <3>11 DEF EditScript, Edited
  <2>4. CASE EditWorkflow
    <3>1. \A name \in Names : repo.jobs \cup {name} \in SUBSET Names /\ repo.jobs \ {name} \in SUBSET Names
      BY <1>1 DEF Repositories
    <3> QED BY <2>4, <3>1 DEF EditWorkflow, Edited
  <2> HIDE DEF OneField
  <2> QED BY <2>1, <2>2, <2>3, <2>4 DEF Edit
<1> USE <1>1 DEF Repositories, NoDeepRows
<1>3. ASSUME NEW p \in Paths, NEW kind \in {"none", "app", "ungated", "typo"}, Shallow => p.place # "deep",
             repo' = [repo EXCEPT !.rows[p] = kind]
      PROVE  repo' \in Repositories /\ NoDeepRows'
  <2>1. repo'.rows = [repo.rows EXCEPT ![p] = kind]
    BY <1>3
  <2>2. repo' \in Repositories
    BY <1>3
  <2>3. NoDeepRows'
    BY <1>3, <2>1
  <2> QED
    BY <2>2, <2>3
<1>4. ASSUME NEW state \in States,
             repo' = [repo EXCEPT !.manifest = state]
      PROVE  repo' \in Repositories /\ NoDeepRows'
  BY <1>4
<1>5. ASSUME NEW p \in Paths, NEW form \in {"none", "directory", "link"},
             repo' = [repo EXCEPT !.disk[p] = form]
      PROVE  repo' \in Repositories /\ NoDeepRows'
  BY <1>5
<1>6. ASSUME NEW required \in SUBSET Paths,
             repo' = [repo EXCEPT !.required = required]
      PROVE  repo' \in Repositories /\ NoDeepRows'
  BY <1>6
<1>7. ASSUME NEW p \in Paths, NEW declared \in {"none", "app", "other", "unreadable"},
             repo' = [repo EXCEPT !.declared[p] = declared]
      PROVE  repo' \in Repositories /\ NoDeepRows'
  BY <1>7
<1>8. ASSUME NEW p \in Paths, NEW stated \in {"none", "stated", "undeclared", "below", "unreadable"},
             repo' = [repo EXCEPT !.python[p] = stated]
      PROVE  repo' \in Repositories /\ NoDeepRows'
  BY <1>8
<1>9. ASSUME NEW p \in Paths, NEW stated \in {"none", "stated", "below"},
             repo' = [repo EXCEPT !.target[p] = stated]
      PROVE  repo' \in Repositories /\ NoDeepRows'
  BY <1>9
<1>10. ASSUME NEW arms \in Seq(Arms),
             repo' = [repo EXCEPT !.arms = arms]
      PROVE  repo' \in Repositories /\ NoDeepRows'
  BY <1>10
<1>11. ASSUME NEW functions \in Seq(Functions),
             repo' = [repo EXCEPT !.functions = functions]
      PROVE  repo' \in Repositories /\ NoDeepRows'
  BY <1>11
<1>12. ASSUME NEW state \in FileStates,
             repo' = [repo EXCEPT !.verify = state]
      PROVE  repo' \in Repositories /\ NoDeepRows'
  BY <1>12
<1>13. ASSUME NEW state \in FileStates,
             repo' = [repo EXCEPT !.workflow = state]
      PROVE  repo' \in Repositories /\ NoDeepRows'
  BY <1>13
<1>14. ASSUME NEW jobs \in SUBSET Names,
             repo' = [repo EXCEPT !.jobs = jobs]
      PROVE  repo' \in Repositories /\ NoDeepRows'
  BY <1>14
<1>15. ASSUME NEW pin \in {"floor", "below"},
             repo' = [repo EXCEPT !.pin = pin]
      PROVE  repo' \in Repositories /\ NoDeepRows'
  BY <1>15
<1> HIDE DEF Repositories, NoDeepRows
<1> QED BY <1>2, <1>3, <1>4, <1>5, <1>6, <1>7, <1>8, <1>9, <1>10, <1>11, <1>12, <1>13, <1>14, <1>15

LEMMA EditKeeps ==
    ASSUME IInv, Edit
    PROVE  IInv'
<1>1. /\ edits' \in 0..MaxEdits /\ meddled' = (meddled \/ pc # "idle") /\ pc # "end"
      /\ UNCHANGED <<pc, trees, ran, failed, result>>
  BY LayoutAssumption DEF Edit, EditManifest, EditDisk, EditScript, EditWorkflow, Edited, IInv, TypeOK
<1>2. repo' \in Repositories /\ NoDeepRows'
  BY EditKeepsTheRepository DEF IInv
<1>3. result = "none" /\ meddled' \in BOOLEAN
  BY <1>1 DEF IInv, TypeOK
<1>4. TypeOK'
  BY <1>1, <1>2, <1>3 DEF IInv, TypeOK
<1>5. Plain /\ Shallow /\ ~meddled' => Unmeddled'
  BY <1>1, <1>3 DEF IInv, Unmeddled, Checking, Running
<1> QED BY <1>1, <1>2, <1>3, <1>4, <1>5 DEF IInv, NeverGreenOnNothing

-------------------------------------------------------------------------------
(* The script's steps.                                                     *)

LEMMA BeginKeeps ==
    ASSUME IInv, Begin
    PROVE  IInv'
<1>1. /\ pc = "idle" /\ pc' = "check" /\ (Plain => WrittenPlainly)
      /\ UNCHANGED <<repo, edits, trees, ran, failed, result, meddled>>
  BY DEF Begin
<1>2. /\ TypeOK /\ NoDeepRows /\ NeverGreenOnNothing /\ result = "none"
      /\ (Plain /\ Shallow /\ ~meddled => failed = {})
  BY <1>1 DEF IInv, TypeOK, Unmeddled
<1>3. TypeOK'
  BY <1>1, <1>2 DEF TypeOK
<1>4. NoDeepRows' = NoDeepRows /\ WrittenPlainly' = WrittenPlainly
  BY <1>1, RepoStays
<1>5. Plain /\ Shallow /\ ~meddled' => Unmeddled'
  BY <1>1, <1>2, <1>4 DEF Unmeddled, Checking, Running
<1> QED BY <1>1, <1>2, <1>3, <1>4, <1>5 DEF IInv, NeverGreenOnNothing

LEMMA CheckKeeps ==
    ASSUME IInv, Check
    PROVE  IInv'
<1>1. /\ pc \in {"check", "trees"} /\ UNCHANGED <<repo, edits, trees, ran, failed, meddled>>
      /\ \/ Problems # {} /\ pc' = "end" /\ result' = "red"
         \/ Problems = {} /\ pc' \in {"trees", "list"} /\ result' = result
  BY DEF Check, End
<1>2. TypeOK /\ NoDeepRows /\ NeverGreenOnNothing /\ result = "none"
  BY <1>1 DEF IInv, TypeOK
<1>3. Plain /\ Shallow /\ ~meddled => WrittenPlainly /\ failed = {}
  BY <1>1 DEF IInv, Unmeddled
<1>4. TypeOK'
  BY <1>1, <1>2 DEF TypeOK
<1>5. NoDeepRows' = NoDeepRows /\ WrittenPlainly' = WrittenPlainly /\ Problems' = Problems
  BY <1>1, RepoStays
<1>6. Plain /\ Shallow /\ ~meddled' => Unmeddled'
  BY <1>1, <1>2, <1>3, <1>5 DEF Unmeddled, Checking, Running
<1> QED BY <1>1, <1>2, <1>4, <1>5, <1>6 DEF IInv, NeverGreenOnNothing

LEMMA ListTreesKeeps ==
    ASSUME IInv, ListTrees
    PROVE  IInv'
<1>1. /\ pc = "list" /\ trees' = Trees /\ UNCHANGED <<repo, edits, ran, failed, meddled>>
      /\ \/ pc' = "end" /\ result' = "empty"
         \/ pc' = "run" /\ result' = result
  BY DEF ListTrees, End
<1>2. TypeOK /\ NoDeepRows /\ NeverGreenOnNothing /\ result = "none"
  BY <1>1 DEF IInv, TypeOK
<1>3. Plain /\ Shallow /\ ~meddled => WrittenPlainly /\ failed = {} /\ Problems = {}
  BY <1>1 DEF IInv, Unmeddled, Checking
<1>4. Trees \subseteq Names
  BY DEF Trees, Apps, Names
<1>5. TypeOK'
  BY <1>1, <1>2, <1>4 DEF TypeOK
<1>6. /\ NoDeepRows' = NoDeepRows /\ WrittenPlainly' = WrittenPlainly /\ Problems' = Problems
      /\ Trees' = Trees
  BY <1>1, RepoStays
<1>7. Plain /\ Shallow /\ ~meddled' => Unmeddled'
  BY <1>1, <1>2, <1>3, <1>6 DEF Unmeddled
<1> QED BY <1>1, <1>2, <1>5, <1>6, <1>7 DEF IInv, NeverGreenOnNothing

(* Without meddling the gate of a listed tree is there and works in the    *)
(* directory of the tree's row, which is on disk.                          *)
LEMMA ListedTreesHaveGates ==
    ASSUME TypeOK, NoDeepRows, Shallow, WrittenPlainly, Problems = {}, NEW name \in Trees
    PROVE  /\ BashFunction(name) # {}
           /\ \A i \in BashFunction(name) : repo.disk[repo.functions[i].path] # "none"
<1>1. PICK p \in Apps : p.name = name
  BY DEF Trees
<1>2. p \in Paths /\ repo.rows[p] # "none"
  BY DEF Apps
<1>3. p.place \in {"top", "examples"}
  BY <1>2, LayoutAssumption DEF NoDeepRows
<1>4. repo.verify = "read" /\ ArmOf(p.name) # {} /\ repo.disk[p] # "none"
  BY <1>2, <1>3, NoProblems
<1>5. /\ BashFunction(p.name) = Runs(p.name) /\ Runs(p.name) # {}
      /\ \A i \in Runs(p.name) : repo.functions[i].path = p
  BY <1>4, ShellFindsTheGate
<1> QED BY <1>1, <1>4, <1>5

LEMMA RunTreeKeeps ==
    ASSUME IInv, RunTree
    PROVE  IInv'
<1>1. PICK name \in trees :
        /\ trees' = trees \ {name}
        /\ LET found == {repo.functions[i] : i \in BashFunction(name)}
               there == {f \in found : repo.disk[f.path] # "none"}
           IN  /\ ran' = ran \cup {[path |-> f.path, checked |-> f.checks] : f \in there}
               /\ failed' = failed \cup (IF found = {} THEN {"unknown"} ELSE IF there = {} THEN {"gone"} ELSE {})
        /\ IF trees' # {} THEN UNCHANGED <<pc, result>>
           ELSE End(IF failed' = {} THEN "green" ELSE "failed")
  BY DEF RunTree
<1> DEFINE found == {repo.functions[i] : i \in BashFunction(name)}
           there == {f \in found : repo.disk[f.path] # "none"}
<1>2. /\ pc = "run" /\ UNCHANGED <<repo, edits, meddled>>
      /\ ran' = ran \cup {[path |-> f.path, checked |-> f.checks] : f \in there}
      /\ failed' = failed \cup (IF found = {} THEN {"unknown"} ELSE IF there = {} THEN {"gone"} ELSE {})
      /\ \/ trees' # {} /\ pc' = "run" /\ result' = result
         \/ trees' = {} /\ pc' = "end" /\ result' = (IF failed' = {} THEN "green" ELSE "failed")
  BY <1>1 DEF RunTree, End
<1>3. TypeOK /\ NoDeepRows /\ result = "none" /\ repo \in Repositories
  BY <1>2 DEF IInv, TypeOK
<1>4. found \subseteq Functions
  BY <1>3 DEF BashFunction, Repositories
<1>5. {[path |-> f.path, checked |-> f.checks] : f \in there} \subseteq [path : Paths, checked : BOOLEAN]
  BY <1>4 DEF Functions
<1>6. TypeOK'
  <2>1. ran' \subseteq [path : Paths, checked : BOOLEAN]
    BY <1>2, <1>3, <1>5 DEF TypeOK
  <2> HIDE DEF found, there
  <2>2. failed' \subseteq {"unknown", "gone"} /\ trees' \subseteq Names
    BY <1>1, <1>2, <1>3 DEF TypeOK
  <2> QED BY <1>2, <1>3, <2>1, <2>2 DEF TypeOK
<1>7. NeverGreenOnNothing'
  <2> SUFFICES ASSUME result' = "green"
               PROVE  ran' # {}
    BY DEF NeverGreenOnNothing
  <2> HIDE DEF there, found
  <2>1. there # {}
    BY <1>2, <1>3
  <2> QED BY <1>2, <2>1
<1>8. /\ NoDeepRows' = NoDeepRows /\ WrittenPlainly' = WrittenPlainly /\ Problems' = Problems
      /\ Trees' = Trees
  BY <1>2, RepoStays
<1>9. ASSUME Plain, Shallow, ~meddled'
      PROVE  Unmeddled'
  <2>1. /\ WrittenPlainly /\ Problems = {} /\ failed = {} /\ trees \subseteq Trees
        /\ \A n \in Trees \ trees : HasRun(n)
    BY <1>2, <1>9 DEF IInv, Unmeddled, Checking, Running
  <2>2. name \in Trees
    BY <1>1, <2>1
  <2>3. BashFunction(name) # {} /\ \A i \in BashFunction(name) : repo.disk[repo.functions[i].path] # "none"
    BY <1>3, <1>9, <2>1, <2>2, ListedTreesHaveGates
  <2>4. found # {} /\ there = found
    BY <2>3
  <2>5. failed' = {}
    <3> HIDE DEF found, there
    <3> QED BY <1>2, <2>1, <2>4
  <2>6. \A i \in BashFunction(name) :
          [path |-> repo.functions[i].path, checked |-> repo.functions[i].checks] \in ran'
    BY <1>2, <2>4
  <2>7. ran \subseteq ran' /\ repo' = repo
    BY <1>2
  <2>8. \A n \in Trees' \ trees' : HasRun(n)'
    <3> SUFFICES ASSUME NEW n \in Trees' \ trees'
                 PROVE  HasRun(n)'
      OBVIOUS
    <3>1. BashFunction(n)' = BashFunction(n)
      BY <2>7, BashStays
    <3>2. n = name \/ HasRun(n)
      BY <1>1, <1>8, <2>1
    <3>3. \A i \in BashFunction(n) :
            [path |-> repo.functions[i].path, checked |-> repo.functions[i].checks] \in ran'
      BY <2>6, <2>7, <3>2 DEF HasRun
    <3> QED BY <2>7, <3>1, <3>3 DEF HasRun
  <2>9. trees' \subseteq Trees'
    BY <1>1, <1>8, <2>1
  <2>10. result' = "green" => trees' = {}
    BY <1>2, <1>3
  <2> QED BY <1>8, <2>1, <2>5, <2>8, <2>9, <2>10 DEF Unmeddled
<1> QED BY <1>3, <1>6, <1>7, <1>8, <1>9 DEF IInv

-------------------------------------------------------------------------------
(* The theorem.                                                            *)

LEMMA IInvInit ==
    ASSUME Init
    PROVE  IInv
<1>1. repo \in Repositories /\ NoDeepRows /\ edits \in 0..MaxEdits
  BY LayoutAssumption DEF Init, NoDeepRows
<1>2. TypeOK
  BY <1>1 DEF Init, TypeOK
<1> QED BY <1>1, <1>2 DEF Init, IInv, NeverGreenOnNothing, Unmeddled, Checking, Running

LEMMA IInvNext ==
    ASSUME IInv, [Next]_vars
    PROVE  IInv'
<1>1. CASE Next
  BY <1>1, BeginKeeps, CheckKeeps, ListTreesKeeps, RunTreeKeeps, EditKeeps DEF Next
<1>2. CASE UNCHANGED vars
  <2>1. UNCHANGED <<repo, edits, pc, trees, ran, failed, result, meddled>>
    BY <1>2 DEF vars
  <2>2. /\ NoDeepRows' = NoDeepRows /\ WrittenPlainly' = WrittenPlainly /\ Problems' = Problems
        /\ Trees' = Trees
    BY <2>1, RepoStays
  <2>3. \A n : HasRun(n)' = HasRun(n)
    BY <2>1, BashStays DEF HasRun
  <2>4. TypeOK' = TypeOK /\ NeverGreenOnNothing' = NeverGreenOnNothing
    BY <2>1 DEF TypeOK, NeverGreenOnNothing
  <2>5. Unmeddled' = Unmeddled
    BY <2>1, <2>2, <2>3 DEF Unmeddled, Checking, Running
  <2> QED BY <2>1, <2>2, <2>4, <2>5 DEF IInv
<1> QED BY <1>1, <1>2

LEMMA IInvMeansGreen ==
    ASSUME IInv
    PROVE  GreenMeansRun
<1> SUFFICES ASSUME Plain, Shallow, ~meddled
             PROVE  EveryTreeRuns /\ NoTreeIsUnknown
  BY DEF IInv, GreenMeansRun
<1>1. TypeOK /\ Unmeddled /\ NoDeepRows
  BY DEF IInv
<1>2. NoTreeIsUnknown
  BY <1>1 DEF Unmeddled, NoTreeIsUnknown
<1>3. ASSUME result = "green"
      PROVE  /\ \A p \in Requirements : (\E r \in ran : r.path = p) /\ p.name \in repo.jobs
             /\ \A p \in Declarations : \E r \in ran : r.path = p /\ r.checked
  <2>1. pc = "end" /\ WrittenPlainly /\ Problems = {} /\ trees = {} /\ \A n \in Trees : HasRun(n)
    BY <1>1, <1>3 DEF TypeOK, Unmeddled, Checking, Running
  <2>2. /\ repo.verify = "read" /\ repo.manifest = "read"
        /\ \A p \in Apps : ArmOf(p.name) # {} /\ p.name \in repo.jobs
        /\ Declarations \subseteq Checked /\ Requirements \subseteq Apps
    BY <1>1, <2>1, NoProblems
  <2>3. ASSUME NEW p \in Apps
        PROVE  /\ Runs(p.name) # {}
               /\ \A i \in Runs(p.name) :
                    /\ i \in DOMAIN repo.functions
                    /\ [path |-> p, checked |-> repo.functions[i].checks] \in ran
    <3>1. /\ BashFunction(p.name) = Runs(p.name) /\ Runs(p.name) # {}
          /\ \A i \in Runs(p.name) : i \in DOMAIN repo.functions /\ repo.functions[i].path = p
      BY <1>1, <2>1, <2>2, ShellFindsTheGate
    <3>2. p.name \in Trees
      BY <2>2 DEF Trees
    <3>3. HasRun(p.name)
      BY <2>1, <3>2
    <3> QED BY <3>1, <3>3 DEF HasRun
  <2>4. \A p \in Requirements : (\E r \in ran : r.path = p) /\ p.name \in repo.jobs
    BY <2>2, <2>3
  <2>5. ASSUME NEW p \in Declarations
        PROVE  \E r \in ran : r.path = p /\ r.checked
    <3>1. p \in Checked
      BY <2>2
    <3>2. p \in Apps
      BY <3>1 DEF Checked
    <3>3. PICK i \in Runs(p.name) : repo.functions[i].mentions
      BY <3>1 DEF Checked
    <3>4. /\ i \in DOMAIN repo.functions
          /\ [path |-> p, checked |-> repo.functions[i].checks] \in ran
      BY <2>3, <3>2
    <3>5. repo.functions[i].checks
      BY <2>1, <3>3, <3>4 DEF WrittenPlainly
    <3> QED BY <3>4, <3>5
  <2> QED BY <2>4, <2>5
<1> QED BY <1>2, <1>3 DEF EveryTreeRuns

(* "An app row is the claim that scripts/verify runs that tree": whatever  *)
(* the directories, the repository in order and the edits, a green         *)
(* scripts/verify ran every Python tree in its directory and tessercheck   *)
(* on every one that declares itself, knew every tree of its list (if the  *)
(* manifest was not edited meanwhile), and never passed without running    *)
(* anything, even if it was.                                               *)
THEOREM GreenMeansTreesRan == Spec => []GreenMeansRun
<1>1. Init => IInv
  BY IInvInit
<1>2. IInv /\ [Next]_vars => IInv'
  BY IInvNext
<1>3. IInv => GreenMeansRun
  BY IInvMeansGreen
<1> QED BY <1>1, <1>2, <1>3, PTL DEF Spec
=============================================================================
