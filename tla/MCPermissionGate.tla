-------------------------- MODULE MCPermissionGate --------------------------
EXTENDS PermissionGate, TLC

CONSTANTS search, post, save, edit, folder, note, mem, page

\* Two MCP tools, one that reads and one that writes, a soft and a hard write.
MCTools == {search, post, save, edit}
MCMcpTools == {search, post}
MCSideEffect == (search :> "Read") @@ (post :> "SoftWrite")
                  @@ (save :> "SoftWrite") @@ (edit :> "HardWrite")

\* A folder and a note in it, a memory item and a Confluence page.
MCTargets == {folder, note, mem, page}
MCTargetClass == (folder :> "path") @@ (note :> "path") @@ (mem :> "memory")
                   @@ (page :> "confluence")
MCWithin == {<<x, x>> : x \in MCTargets} \union {<<note, folder>>}

=============================================================================
