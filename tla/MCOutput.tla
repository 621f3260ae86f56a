------------------------------- MODULE MCOutput ------------------------------
(* A UDP server, a ring or none at start-up; requests for them, for a Unix    *)
(* socket, and for addresses of both kinds that are refused.                  *)
EXTENDS Output

MCBoot == { [type |-> "udp",  addr |-> "a", ok |-> TRUE],
            [type |-> "shm",  addr |-> "s", ok |-> TRUE],
            [type |-> "none", addr |-> "-", ok |-> TRUE] }

MCUris == MCBoot \cup
          { [type |-> "unix", addr |-> "u", ok |-> TRUE],
            [type |-> "unix", addr |-> "y", ok |-> FALSE],
            [type |-> "udp",  addr |-> "x", ok |-> FALSE] }
==============================================================================
