---------------------- MODULE MCProducerConsumerQueue ----------------------
(* Three values, three consumers, two calls of Cancel.                     *)
EXTENDS ProducerConsumerQueue
=============================================================================
