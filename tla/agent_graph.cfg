\* The graphs under any failure of the providers and any answer of the model.
CONSTANTS
  a1 = a1
  a2 = a2
  Addresses = {a1, a2}
  Nobody = Nobody
  NotADict = NotADict
  MaxItems = 2
SPECIFICATION Spec
INVARIANTS
  TypeOK
  OnlyHostedCallsAreRedacted
  EmailGoesToTheCustomer
  ReplyIsPlanned
  NotesDoNotClaimTheEmail
  UnansweredCallsAreReported
  FinalOutputAccountsForThePlan
