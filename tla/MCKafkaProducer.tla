-------------------------- MODULE MCKafkaProducer --------------------------
(* TLC instances of KafkaProducer; messages are interchangeable.             *)
EXTENDS KafkaProducer, TLC

MCSymmetry == Permutations(Messages) \cup Permutations(Closers)
=============================================================================
