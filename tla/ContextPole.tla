---------------------------- MODULE ContextPole ----------------------------
(***************************************************************************)
(* common/pole_ctx.go: contexts with a parent and a cancellation that      *)
(* reaches the contexts made from them.  The values a context carries are  *)
(* left out: no part of the server reads one.                              *)
(*                                                                         *)
(* The standard library's context.WithCancel is external: cancelling a     *)
(* context cancels every context derived from it, and one derived from a   *)
(* cancelled context is born cancelled.                                    *)
(***************************************************************************)
EXTENDS Naturals, Sequences

CONSTANT MaxCtx   \* bound: contexts made

VARIABLE ctxs     \* the contexts, numbered as they are made

Context(p, d) == [parent |-> p, done |-> d]

\* A context without a parent.
NewCtxPole == Context(0, FALSE)

\* A set that has, with a context, those made from it.
Family(S) == \A d \in DOMAIN ctxs : ctxs[d].parent \in S => d \in S

\* What cancelling c closes: the Done channels of c and of the contexts below it.
Reached(c) ==
  {d \in DOMAIN ctxs : \A S \in SUBSET DOMAIN ctxs : c \in S /\ Family(S) => d \in S}

Done(c) == ctxs[c].done

NewSubCtx(c) ==
  /\ Len(ctxs) < MaxCtx
  /\ ctxs' = Append(ctxs, Context(c, Done(c)))

Cancel(c) ==
  ctxs' = [d \in DOMAIN ctxs |->
             IF d \in Reached(c) THEN [ctxs[d] EXCEPT !.done = TRUE] ELSE ctxs[d]]
=============================================================================
