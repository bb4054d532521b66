SPECIFICATION SerialSpec
CONSTANTS
    None = None
    r1 = r1  r2 = r2
    f1 = f1  f2 = f2  f3 = f3
    fair = fair  rent = rent
    some = some  full = full  more = more
    a1 = a1  a2 = a2
    Tasks <- MCTasks
    Files <- MCFiles
    Complaints <- MCComplaints
    InScope <- MCInScope
    Others <- MCOthers
    Complete <- MCComplete
    NoOthers = some
    Amounts <- MCAmounts
    CandidateOf <- MCCandidateOf
    FactsValues <- JourneyValues
    MaxDocuments = 2
INVARIANT NoticeInScope
PROPERTIES CaseNoticeConfirmed ImplementsAtomicNotice RequestsEnd
