------------------------------ MODULE MCVmCache ------------------------------
(* A finite instance of VmCache. *)
EXTENDS VmCache

CONSTANTS image, output1, output2

MCVM        == 0..5
MCUserVM    == {0}
MCImportKey == {image}
MCImageKey  == {output1}
=============================================================================
