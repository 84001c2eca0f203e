--------------------------- MODULE MCDesktopHost ---------------------------
EXTENDS DesktopHost, TLC

CONSTANTS save, note

\* One tool that writes one note: it asks unless the session allows the path.
MCTools == {save}
MCSideEffect == save :> "SoftWrite"
MCTargets == {note}
MCTargetClass == note :> "path"
MCWithin == {<<note, note>>}

\* Turns and sessions are interchangeable.
MCSymmetry == Permutations(Turns) \union Permutations(Commands) \union Permutations(Sessions)

=============================================================================
