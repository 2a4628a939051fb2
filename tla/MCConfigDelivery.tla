-------------------------- MODULE MCConfigDelivery --------------------------
(* Instances of ConfigDelivery for TLC: the content hashes of the versions.   *)
EXTENDS ConfigDelivery

\* Every version has content of its own.
DistinctHash == [c \in 1 .. NumConfigs |-> c]
=============================================================================
