----------------------------- MODULE MCJorfCopy -----------------------------
\* A summary and its act, two workers, channels of one place, the pool of
\* -j 4 and below, and one other step.
EXTENDS JorfCopy

MCArchive == <<"JORFCONT1", "JORFTEXT1">>
MCLines(file) ==
    CASE file = "JORFCONT1" -> <<<<"sommaire", "s1">>, <<"lien", "s1 t1">>>>
      [] file = "JORFTEXT1" -> <<<<"texte", "t1">>, <<"bloc", "t1 1">>, <<"bloc", "t1 2">>>>
MCActOf(bloc) ==
    CASE bloc \in {"t1 1", "t1 2"} -> "t1" [] OTHER -> "recent"
\* an act published after the archive
MCBefore ==
    [sommaire |-> {}, lien |-> {}, texte |-> {"recent"}, bloc |-> {"recent 1"}]
MCCuts == {2, Len(MCArchive) + 1}
============================================================================
