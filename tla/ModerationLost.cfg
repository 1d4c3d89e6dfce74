\* A bounded number of requests: they come to rest.
CONSTANTS
    Officers = {o1, o2}
    Clients = {c1}
    Machines = {b1}
    Missing = nil
    Desks = {d1}
    Nobody = nobody
    MaxOffice = 2
SPECIFICATION OfficeSpec
CHECK_DEADLOCK FALSE
PROPERTIES AnsweredIsDone
