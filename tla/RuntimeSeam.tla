---------------------------- MODULE RuntimeSeam ----------------------------
(***************************************************************************)
(* What both runtime providers share (internal/runtime/provider.go): the   *)
(* session names the host derives, the isolation tiers, and the row states *)
(* the lifecycle drives them through.                                      *)
(***************************************************************************)

CONSTANTS Sessions,  \* host-derived session names
          Nobody     \* no name, no root, no container

Tiers == {"runc", "gvisor", "firecracker"}

Rows == {"none", "RESERVED", "ACTIVE"}
=============================================================================
