\* One commit and one Forget Me.
SPECIFICATION Spec
CONSTANTS
  Programs = {"forget_me"}
  MaxKeys = 1
  AtWork = 1
INVARIANT ForgottenStaysForgotten
