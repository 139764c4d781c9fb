--------------------------- MODULE MC_Credentials ---------------------------
(* Instances of Credentials for TLC.                                       *)
EXTENDS Credentials

\* Signing in and out, refreshing, and the two changes of the password that need no link.
MC_Sessions == {"login", "logout", "refreshSession", "refreshToken", "revokeSession",
                "revokeOthers", "changePassword", "adminReset"}

\* Links that reset the password, with a change of address under way.
MC_Resets == {"login", "refreshSession", "forgotPassword", "resetLink", "resetPage",
              "resetPassword", "adminReset", "changeEmail", "verifyEmail"}

\* Changes of the address, with changes of the password.
MC_Addresses == {"login", "changePassword", "changeEmail", "resendVerification", "verifyEmail"}

MC_Situations == {MC_Sessions, MC_Resets, MC_Addresses}
=============================================================================
