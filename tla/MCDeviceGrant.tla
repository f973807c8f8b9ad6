--------------------------- MODULE MCDeviceGrant ---------------------------
(* DeviceGrant for model checking. *)
EXTENDS DeviceGrant, TLC

Symmetry == Permutations(Handler) \cup Permutations(Device)
            \cup Permutations(UserCode) \cup Permutations(Request)
            \cup Permutations(Subject) \cup Permutations(Token)

=============================================================================
