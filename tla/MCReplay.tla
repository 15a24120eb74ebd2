------------------------------ MODULE MCReplay ------------------------------
(* The tests of session.rs are played back; those of src/codec are run once, *)
(* when TLC starts, as the assumptions of CodecTests.                        *)
EXTENDS Replay, CodecTests
=============================================================================
