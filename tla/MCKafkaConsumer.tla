-------------------------- MODULE MCKafkaConsumer --------------------------
(* TLC instances of KafkaConsumer; instances are interchangeable.            *)
EXTENDS KafkaConsumer, TLC

MCSymmetry == Permutations(Instances)
=============================================================================
