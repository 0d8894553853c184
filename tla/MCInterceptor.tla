--------------------------- MODULE MCInterceptor ----------------------------
(* The interceptor for TLC: the keys are interchangeable. *)
EXTENDS Interceptor, TLC

KeySymmetry == Permutations(Keys)
=============================================================================
