------------------------------- MODULE MCPages -------------------------------
(* The instance of WorkspacePages for TLC. *)
EXTENDS WorkspacePages, FiniteSets

CONSTANTS a, d1, d2, p1, p2, t1, t2, t3, shown2, clean3, old, other, new

OneTeam == {a}
TwoPeriods == {d1, d2}

\* A file; another author removes it and adds the one that the user adds, too.
MCPaths == {p1, p2}
MCBlobs == {old, other, new}

\* The page shows another author's text with other frontmatter; what the user types or
\* imports has tags that the server strips.
MCTexts == {Scaffold, t1, t2, t3, shown2, clean3}
MCParsed == [t \in MCTexts |-> IF t = t2 THEN shown2 ELSE t]
MCSanitized == [t \in MCTexts |-> IF t = t3 THEN clean3 ELSE t]

MCFirst == {[text |-> t1, files |-> [p \in MCPaths |-> IF p = p1 THEN old ELSE None]]}
MCOther == [text |-> t2, files |-> [p \in MCPaths |-> IF p = p1 THEN None ELSE other]]
MCImported == [text |-> t3, files |-> [p \in MCPaths |-> IF p = p1 THEN new ELSE None]]

Client == INSTANCE Screens
MCSite == Client!SiteMap

\* A part that is not looked at starts in one of its states.
MCInit ==
    /\ AllInit
    \* A skill without versions, and one change; or a published one, and two changes.
    /\ published = Len(version) /\ changes = IF version = << >> THEN 1 ELSE 0
    /\ component # "editor" => version = << >>
    /\ component # "settings" => policy = "flag"
    /\ component # "console" =>
          query = Client!useApiKeyRoles /\ visited = [shown |-> FALSE, offers |-> {}]

\* Bound on the saves: "Save & exit" and a save that renames are those of a skill that had
\* no version; two overlap only if they are plain ones while no file is selected and, of a
\* skill that was published, before its last change.
SavesAreFew ==
    LET busy == {k \in 1 .. MaxSaves : save[k].pc # "idle"}
        plain == \A k \in busy : ~save[k].exit /\ save[k].pc # "renaming"
        fresh == version = << >> \/ version[1].text # t1
    IN  /\ fresh \/ plain
        /\ Cardinality(busy) <= 1
           \/ (plain /\ ed.selected = None /\ (fresh \/ changes < MaxChanges))

\* Bound on the mutations of the cache: of two, one belongs to the page that is shown.
MutationsAreFew == Cardinality(ops) <= 1 \/ \E o \in ops : o.here

MCSpec == MCInit /\ [][AllNext]_<<component, vars, editor, console>>

=============================================================================
