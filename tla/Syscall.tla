-------------------------------- MODULE Syscall --------------------------------
(***************************************************************************)
(* The syscall dispatcher (src/syscall.rs): numbers, argument checks and   *)
(* results.  An outcome says whether the call returns to the user, with    *)
(* which value, and which byte it sends to the console.  Arguments are     *)
(* unsigned in the code, so a negative register value is out of range.     *)
(***************************************************************************)
EXTENDS Integers, Sequences

PUTCHAR == 1
EXIT == 2
ERR_UNKNOWN_SYSCALL == -1
ERR_INVALID_ARGUMENT == -2

Return(value, bytes) == [kind |-> "Return", value |-> value, out |-> bytes]

Exit(code) == [kind |-> "Exit", value |-> code, out |-> <<>>]

Dispatch(number, arg0) ==
    CASE number = PUTCHAR -> IF arg0 \notin 0..127 THEN Return(ERR_INVALID_ARGUMENT, <<>>)
                                           ELSE Return(0, <<arg0>>)
      [] number = EXIT    -> IF arg0 \notin 0..255 THEN Return(ERR_INVALID_ARGUMENT, <<>>)
                                           ELSE Exit(arg0)
      [] OTHER            -> Return(ERR_UNKNOWN_SYSCALL, <<>>)
================================================================================
