--------------------------- MODULE MCHookDelivery ---------------------------
(* Small instances of HookDelivery: events of every kind; a failing event  *)
(* behind an address that the server has left.                             *)
EXTENDS HookDelivery

MCKinds ==
    ({1} \X {"direct"} \X {"plain"})
        \cup ({2} \X {"direct"} \X {"plain", "poison"})
        \cup ({3} \X {"moved", "gone", "rotated", "denied"} \X {"plain"})
        \cup ({3} \X {"direct"} \X {"filtered", "malformed"})

MCMoved == Events \X {"moved"} \X {"plain", "poison"}
=============================================================================
