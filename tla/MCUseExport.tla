----------------------------- MODULE MCUseExport -----------------------------
(* The instance of UseExport that TLC checks.                              *)
EXTENDS UseExport

CONSTANTS c1, c2

TwoCalls == {c1, c2}
AllUses == UseKinds
=============================================================================
