SPECIFICATION Spec
CONSTANTS
  u1 = u1
  o1 = o1
  o2 = o2
  Users = {u1}
  Orders = {o1, o2}
  Owner <- OwnerOf
  PlanOf <- Renewals
  Plans = {"go"}
  EventTypes = {"payment.succeeded", "payment.refunded"}
  Copies = {"bare"}
INVARIANTS
  UploadsArePaidFor
  
